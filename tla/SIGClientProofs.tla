---------------------------- MODULE SIGClientProofs --------------------------
(***************************************************************************)
(* Proofs about SIGClient for every number of senders, whatever they call, *)
(* of attempts, of BLE sessions and of faults, and every set of sequence   *)
(* numbers of the node.                                                    *)
(***************************************************************************)
EXTENDS SIGClient, SequenceFacts, FiniteSetTheorems

-----------------------------------------------------------------------------
(* The invariant.                                                          *)

\* Where a sender has come to: a request is registered while it is under way, and
\* a segment or an attempt is left to whoever writes again.
SenderStage ==
  \A s \in Senders :
    /\ pc[s] \in {"idle", "asked", "done"} => s \notin ToSet(pending)
    /\ pc[s] \in {"idle", "asked"} => written[s] = 0
    /\ pc[s] \in {"writing", "backoff"} /\ Awaits(s) => written[s] < Segments(s)
    /\ pc[s] = "backoff" => Awaits(s) \/ MayRetry(s)
    /\ pc[s] = "writing" => on[s] # 0
    /\ pc[s] \in {"idle", "asked"} => calls[s] < DEFAULT_MAX_COMMAND_RETRIES

\* What is on the air: a status, a segment of the composition, or a vendor frame.
StatusOps ==
  {"onoff_status", "level_status", "lightness_status", "appkey_status", "bind_status"}
StatusValue(op, v) ==
  /\ op = "level_status" => -32768 <= v /\ v <= 32767
  /\ op = "lightness_status" => 0 <= v /\ v <= 65535
StatusPDU(op, s, v) ==
  make_proxy_pdu(encrypt_network_pdu("ours", 0,
    make_access_unsegmented(0, [op |-> op, of |-> s, tid |-> 0, val |-> v])))
VendorPDU(net, frame) ==
  make_proxy_pdu(encrypt_network_pdu(net, 0,
    make_access_unsegmented(0, [op |-> "vendor_data", of |-> None, tid |-> 0, val |-> frame])))
KnownPDU(x) ==
  \/ \E op \in StatusOps, s \in Senders, v \in Int : StatusValue(op, v) /\ x = StatusPDU(op, s, v)
  \/ \E q \in SeqNumbers, o \in {0, 1} : x = CompositionSegment(q, o)
  \/ \E net \in {"ours", "other"}, frame \in Frames : x = VendorPDU(net, frame)
AirKnown == \A i \in DOMAIN air : KnownPDU(air[i])

\* The level of the node is one of its kind: a device has one kind of level.
LevelTrue(v) ==
  /\ (\E s \in Senders : Op(s) = "level") => -32768 <= v /\ v <= 32767
  /\ (\E s \in Senders : Op(s) = "lightness") => 0 <= v /\ v <= 65535
LevelRange == LevelTrue(node.level)

\* Numbers rise along the air, up to the last the node used.
AirOrder ==
  /\ \A i, j \in DOMAIN air : \A q, r \in SeqNumbers : \A o, p \in {0, 1} :
       i < j /\ air[i] = CompositionSegment(q, o) /\ air[j] = CompositionSegment(r, p) => q <= r
  /\ \A i \in DOMAIN air : \A q \in SeqNumbers, o \in {0, 1} :
       air[i] = CompositionSegment(q, o) => node.used # None /\ q <= node.used

\* A buffer holds one of two segments, of a message with its 13 bits.
SegmentOf(q, o) == CompositionSegment(q, o).payload.body.payload
BufferTrue(b, z) ==
  /\ DOMAIN b = {"seg_n", "segs"} /\ b.seg_n = 1
  /\ DOMAIN b.segs \subseteq {0, 1} /\ DOMAIN b.segs # {0, 1}
  /\ \A o \in DOMAIN b.segs : \E q \in SeqNumbers :
       q % MESH_SEQ_ZERO = z /\ b.segs[o] = SegmentOf(q, o)
BuffersTrue == \A z \in DOMAIN buffers : BufferTrue(buffers[z], z)

\* Until a composition is read, the buffers hold what was received of each message
\* that fits; or the node has passed to numbers that do not fit, and what fits
\* and was not read by then is never completed.
Fits(q) == q < MESH_SEQ_ZERO
Exact ==
  /\ \A q \in SeqNumbers : Fits(q) =>
       whole[q] = IF q \in DOMAIN buffers THEN DOMAIN buffers[q].segs ELSE {}
  /\ \A z \in DOMAIN buffers : \A o \in DOMAIN buffers[z].segs :
       z \in SeqNumbers /\ buffers[z].segs[o] = SegmentOf(z, o)
Passed ==
  /\ node.used # None /\ ~Fits(node.used)
  /\ \A i \in DOMAIN air : \A q \in SeqNumbers, o \in {0, 1} :
       air[i] = CompositionSegment(q, o) => ~Fits(q)
  /\ \A q \in SeqNumbers : Fits(q) => whole[q] # {0, 1}
Reading ==
  /\ composition # None => Fits(composition)
  /\ composition = None => Exact \/ Passed

\* The command applied last was sent by a call that has been made, and an attempt of that
\* call to send it again carries the transaction id the node has just seen.
Sent ==
  /\ NotAppliedTwice
  /\ applied # <<>> =>
       LET e == applied[Len(applied)]
       IN  /\ e.nth <= calls[e.of]
           /\ e.nth = calls[e.of] /\ pc[e.of] \in {"writing", "backoff"} =>
                transaction[e.of] = node.last

\* The clients connect() and disconnect() hold were opened.
Sessioned ==
  /\ \A c \in unreported : link[c] = "down"
  /\ \A c \in subscribed : link[c] = "up"
  /\ connecting \in {"subscribing", "composing", "closing"} => mine # 0
  /\ connecting \in {"idle", "opening"} => mine = 0
  /\ mine # 0 => link[mine] # "none"
  /\ client # 0 => link[client] # "none"
  /\ stopOn # 0 => link[stopOn] # "none"
  /\ stopping = "closing" => stopOn # 0

\* While every disconnection is reported in time: _client is the client of the
\* attempt once it is set up, and until then there is none that is up.
Gone == client = 0 \/ link[client] = "down"
Tracked ==
  ~late =>
    /\ client # 0 /\ link[client] = "down" => client \in unreported
    /\ \A c \in subscribed : c = client \/ c = mine
    /\ connecting = "opening" => Gone
    /\ connecting = "subscribing" =>
         Gone /\ mine \notin subscribed /\ (link[mine] = "down" => mine \in unreported)
    /\ connecting = "composing" =>
         (client = mine \/ Gone) /\ (link[mine] = "up" => client = mine)
    /\ connecting = "closing" =>
         /\ client = mine \/ Gone
         /\ link[mine] = "up" => client = mine \/ mine \notin subscribed
    /\ connecting = "backoff" => Gone /\ (mine = 0 \/ link[mine] = "down")

IInv ==
  /\ TypeOK /\ SenderStage /\ AirKnown /\ LevelRange /\ AirOrder /\ BuffersTrue
  /\ Reading /\ Sent /\ Sessioned /\ Tracked

-----------------------------------------------------------------------------
(* Bounds, calls and PDUs.                                                 *)

\* The bounded types: their least values, and the values after an increment.
LEMMA BoundFacts ==
  /\ 0 \in SessionOrNone /\ Sessions = SessionOrNone \ {0} /\ SessionOrNone \subseteq Nat
  /\ 0 \in Attempts /\ 1 \in Attempts /\ 0 \in Tries /\ 1 \in Tries
  /\ \A n \in Attempts : n < max_retries => n + 1 \in Attempts
  /\ \A n \in Tries : n < DEFAULT_SIG_MESH_MAX_RETRIES => n + 1 \in Tries
  /\ 0 \in TransactionIds /\ \A n \in TransactionIds : (n + 1) % 256 \in TransactionIds
  /\ TransactionIds \subseteq Nat
  /\ 0 \in FaultCounts /\ \A n \in FaultCounts : n < MaxFaults => n + 1 \in FaultCounts
  /\ None = -1 /\ None \notin Senders
BY SendersAssumption, BoundsAssumption
   DEF SessionOrNone, Sessions, Attempts, Tries, TransactionIds, FaultCounts, None

\* The calls send_command_with_retry makes are counted.
LEMMA RetriesCounted ==
  /\ 0 \in Calls /\ Calls \subseteq Nat /\ 0 < DEFAULT_MAX_COMMAND_RETRIES
  /\ \A n \in Calls : n < DEFAULT_MAX_COMMAND_RETRIES => n + 1 \in Calls
BY BoundsAssumption DEF Calls

\* The 13 bits of a number are the number when it fits.
LEMMA SeqZeroFacts ==
  /\ SeqNumbers \subseteq Nat
  /\ \A q \in Nat : /\ q % MESH_SEQ_ZERO \in SeqZeros
                    /\ Fits(q) <=> q % MESH_SEQ_ZERO = q
<1>1. ASSUME NEW q \in Nat
      PROVE  /\ q % 8192 \in Nat /\ q % 8192 < 8192
             /\ q < 8192 => q % 8192 = q
  OBVIOUS
<1>2. \A n \in Nat : n < 8192 => n \in 0..8192 - 1
  OBVIOUS
<1>3. MESH_SEQ_ZERO = 8192
  BY DEF MESH_SEQ_ZERO
<1>4. \A q \in Nat : Fits(q) <=> q < 8192
  BY <1>3 DEF Fits
<1>5. ASSUME NEW q \in Nat
      PROVE  q % 8192 \in 0..8192 - 1 /\ (Fits(q) <=> q % 8192 = q)
  BY <1>1, <1>2, <1>4, <1>5
<1>. QED  BY <1>3, <1>5, BoundsAssumption DEF SeqZeros

\* What a sender calls, and how many segments it writes.
LEMMA CallFacts ==
  ASSUME call \in Programs, NEW s \in Senders
  PROVE  /\ Op(s) \in {"power", "level", "lightness", "vendor", "appkey", "bind"}
         /\ call[s].arg \in 0..255
         /\ Segments(s) \in {1, 2} /\ (Segments(s) = 2 <=> Op(s) = "appkey")
         /\ Op(s) \in SetOps <=> Op(s) \in {"power", "level", "lightness"}
         /\ Retried(s) <=> Op(s) \in {"power", "level", "lightness"}
         /\ Awaits(s) <=> Op(s) \in {"appkey", "bind"}
<1>1. call[s] \in [op : {"power", "level", "lightness", "vendor", "appkey", "bind"},
                   arg : 0..255, entity : BOOLEAN]
  BY SendersAssumption
<1>. QED  BY <1>1 DEF Op, Segments, SetOps, Retried, Awaits

\* What it sends.
LEMMA PayloadFacts ==
  ASSUME call \in Programs, NEW s \in Senders, NEW t
  PROVE  LET p == Payload(s, t)
         IN  /\ p.op = Op(s) /\ p.of = s /\ p.tid = t /\ p.nth = calls[s] /\ p.val \in Int
             /\ Op(s) = "level" => -32768 <= p.val /\ p.val <= 32767
             /\ Op(s) = "lightness" => 0 <= p.val /\ p.val <= 65535
<1>1. call[s].arg \in 0..255 /\ call[s].arg \in Int
  BY CallFacts
<1>2. \A a \in 0..255 :
        /\ async_turn_on(a) \in Int /\ -32768 <= async_turn_on(a) /\ async_turn_on(a) <= 32767
        /\ async_turn_on(a) + 32768 \in Int
        /\ 0 <= async_turn_on(a) + 32768 /\ async_turn_on(a) + 32768 <= 65535
  BY DEF async_turn_on
<1> DEFINE p == Payload(s, t)
<1>3. /\ p.op = Op(s) /\ p.of = s /\ p.tid = t /\ p.nth = calls[s]
      /\ Op(s) = "level" => p.val = async_turn_on(call[s].arg)
      /\ Op(s) = "lightness" => p.val = async_turn_on(call[s].arg) + 32768
      /\ Op(s) \notin {"level", "lightness"} => p.val = call[s].arg
  BY DEF Payload
<1> HIDE DEF p
<1>4. /\ Op(s) = "level" => -32768 <= p.val /\ p.val <= 32767
      /\ Op(s) = "lightness" => 0 <= p.val /\ p.val <= 65535
  BY <1>1, <1>2, <1>3
<1>5. p.val \in Int
  BY <1>1, <1>2, <1>3
<1>. QED  BY <1>3, <1>4, <1>5 DEF p

\* Every status can be read with the keys; it is not a segment.
LEMMA StatusRead ==
  ASSUME NEW op, NEW s, NEW v, NEW x, x = parse_proxy_pdu(StatusPDU(op, s, v)),
         NEW t, t = x.body.payload
  PROVE  /\ decrypt_network_pdu(x) /\ ~t.seg /\ decrypt_access_payload(x.seq, t)
         /\ t.body.payload = [op |-> op, of |-> s, tid |-> 0, val |-> v]
BY DEF StatusPDU, parse_proxy_pdu, make_proxy_pdu, encrypt_network_pdu, decrypt_network_pdu,
       make_access_unsegmented, mesh_aes_ccm_encrypt, mesh_aes_ccm_decrypt,
       decrypt_access_payload, _make_app_nonce, k2

\* So can a vendor frame of this network, and none of another.
LEMMA VendorRead ==
  ASSUME NEW net \in {"ours", "other"}, NEW frame,
         NEW x, x = parse_proxy_pdu(VendorPDU(net, frame)), NEW t, t = x.body.payload
  PROVE  /\ decrypt_network_pdu(x) <=> net = "ours"
         /\ ~t.seg /\ decrypt_access_payload(x.seq, t)
         /\ t.body.payload = [op |-> "vendor_data", of |-> None, tid |-> 0, val |-> frame]
BY DEF VendorPDU, parse_proxy_pdu, make_proxy_pdu, encrypt_network_pdu, decrypt_network_pdu,
       make_access_unsegmented, mesh_aes_ccm_encrypt, mesh_aes_ccm_decrypt,
       decrypt_access_payload, _make_app_nonce, k2

\* And a segment, which names its message, its 13 bits and its place.
LEMMA SegmentRead ==
  ASSUME NEW q, NEW o, NEW x, x = parse_proxy_pdu(CompositionSegment(q, o)),
         NEW t, t = SegmentOf(q, o)
  PROVE  decrypt_network_pdu(x) /\ x.body.payload = t /\ t.seg
BY DEF CompositionSegment, SegmentOf, parse_proxy_pdu, make_proxy_pdu, encrypt_network_pdu,
       decrypt_network_pdu, make_access_segmented, mesh_aes_ccm_encrypt, mesh_aes_ccm_decrypt,
       _make_app_nonce, k2

LEMMA SegmentFields ==
  \A q, o :
    /\ SegmentOf(q, o).seq_zero = q % MESH_SEQ_ZERO
    /\ SegmentOf(q, o).seg_o = o /\ SegmentOf(q, o).seg_n = 1
    /\ SegmentOf(q, o).body.payload = [op |-> "composition", of |-> None, tid |-> 0, val |-> q]
    /\ SegmentOf(q, o).body.payload.op = "composition"
    /\ SegmentOf(q, o).body.payload.val = q
    /\ SegmentOf(q, o).body.nonce = q
    /\ SegmentOf(q, o).akf = SegmentOf(q, o).body.key
BY DEF CompositionSegment, SegmentOf, make_proxy_pdu, encrypt_network_pdu,
       make_access_segmented, mesh_aes_ccm_encrypt, _make_app_nonce

\* A segment of the composition is of one message and no other PDU.
LEMMA SegmentsDiffer ==
  /\ \A q, r, o, p : CompositionSegment(q, o) = CompositionSegment(r, p) => q = r /\ o = p
  /\ \A q, o, op, s, v : CompositionSegment(q, o) # StatusPDU(op, s, v)
  /\ \A q, o, net, frame : CompositionSegment(q, o) # VendorPDU(net, frame)
<1> DEFINE T(x) == x.payload.body.payload
<1>1. \A q, o : T(CompositionSegment(q, o)).seg
  BY DEF CompositionSegment, make_proxy_pdu, encrypt_network_pdu, make_access_segmented,
         mesh_aes_ccm_encrypt
<1>2. \A q, o : /\ T(CompositionSegment(q, o)).seg_o = o
                /\ T(CompositionSegment(q, o)).body.nonce = q
  BY DEF CompositionSegment, make_proxy_pdu, encrypt_network_pdu, make_access_segmented,
         mesh_aes_ccm_encrypt, _make_app_nonce
<1>3. \A op, s, v : ~T(StatusPDU(op, s, v)).seg
  BY DEF StatusPDU, make_proxy_pdu, encrypt_network_pdu, make_access_unsegmented,
         mesh_aes_ccm_encrypt
<1>4. \A net, frame : ~T(VendorPDU(net, frame)).seg
  BY DEF VendorPDU, make_proxy_pdu, encrypt_network_pdu, make_access_unsegmented,
         mesh_aes_ccm_encrypt
<1> HIDE DEF T
<1>5. \A q, r, o, p : CompositionSegment(q, o) = CompositionSegment(r, p) => q = r /\ o = p
  <2> SUFFICES ASSUME NEW q, NEW r, NEW o, NEW p,
                      CompositionSegment(q, o) = CompositionSegment(r, p)
               PROVE  q = r /\ o = p
    OBVIOUS
  <2>1. T(CompositionSegment(q, o)) = T(CompositionSegment(r, p))
    OBVIOUS
  <2>2. T(CompositionSegment(q, o)).seg_o = o /\ T(CompositionSegment(q, o)).body.nonce = q
    BY <1>2
  <2>3. T(CompositionSegment(r, p)).seg_o = p /\ T(CompositionSegment(r, p)).body.nonce = r
    BY <1>2
  <2>. QED  BY <2>1, <2>2, <2>3
<1>6. \A q, o, op, s, v : CompositionSegment(q, o) # StatusPDU(op, s, v)
  <2> SUFFICES ASSUME NEW q, NEW o, NEW op, NEW s, NEW v,
                      CompositionSegment(q, o) = StatusPDU(op, s, v)
               PROVE  FALSE
    OBVIOUS
  <2>1. T(CompositionSegment(q, o)).seg = T(StatusPDU(op, s, v)).seg
    OBVIOUS
  <2>. QED  BY <1>1, <1>3, <2>1
<1>7. \A q, o, net, frame : CompositionSegment(q, o) # VendorPDU(net, frame)
  <2> SUFFICES ASSUME NEW q, NEW o, NEW net, NEW frame,
                      CompositionSegment(q, o) = VendorPDU(net, frame)
               PROVE  FALSE
    OBVIOUS
  <2>1. T(CompositionSegment(q, o)).seg = T(VendorPDU(net, frame)).seg
    OBVIOUS
  <2>. QED  BY <1>1, <1>4, <2>1
<1>. QED  BY <1>5, <1>6, <1>7

\* Statuses differ when anything in them does, and from vendor frames.
LEMMA StatusesDiffer ==
  /\ \A op, s, v, op2, s2, v2 :
       StatusPDU(op, s, v) = StatusPDU(op2, s2, v2) => op = op2 /\ s = s2 /\ v = v2
  /\ \A op, s, v, net, frame : StatusPDU(op, s, v) = VendorPDU(net, frame) => op = "vendor_data"
<1> DEFINE T(x) == x.payload.body.payload.body.payload
<1>1. \A op, s, v : T(StatusPDU(op, s, v)) = [op |-> op, of |-> s, tid |-> 0, val |-> v]
  BY DEF StatusPDU, make_proxy_pdu, encrypt_network_pdu, make_access_unsegmented,
         mesh_aes_ccm_encrypt
<1>2. \A net, frame : T(VendorPDU(net, frame))
                        = [op |-> "vendor_data", of |-> None, tid |-> 0, val |-> frame]
  BY DEF VendorPDU, make_proxy_pdu, encrypt_network_pdu, make_access_unsegmented,
         mesh_aes_ccm_encrypt
<1> HIDE DEF T
<1>3. ASSUME NEW op, NEW s, NEW v, NEW op2, NEW s2, NEW v2,
             StatusPDU(op, s, v) = StatusPDU(op2, s2, v2)
      PROVE  op = op2 /\ s = s2 /\ v = v2
  <2>1. T(StatusPDU(op, s, v)) = T(StatusPDU(op2, s2, v2))
    BY <1>3
  <2>2. [op |-> op, of |-> s, tid |-> 0, val |-> v] = [op |-> op2, of |-> s2, tid |-> 0, val |-> v2]
    BY <1>1, <2>1
  <2>. QED  BY <2>2
<1>4. ASSUME NEW op, NEW s, NEW v, NEW net, NEW frame, StatusPDU(op, s, v) = VendorPDU(net, frame)
      PROVE  op = "vendor_data"
  <2>1. T(StatusPDU(op, s, v)) = T(VendorPDU(net, frame))
    BY <1>4
  <2>2. [op |-> op, of |-> s, tid |-> 0, val |-> v]
          = [op |-> "vendor_data", of |-> None, tid |-> 0, val |-> frame]
    BY <1>1, <1>2, <2>1
  <2>. QED  BY <2>2
<1>. QED  BY <1>3, <1>4

\* Vendor frames differ when the network or the frame does.
LEMMA VendorsDiffer ==
  \A net, frame, net2, frame2 :
    VendorPDU(net, frame) = VendorPDU(net2, frame2) => net = net2 /\ frame = frame2
<1> SUFFICES ASSUME NEW net, NEW frame, NEW net2, NEW frame2,
                    VendorPDU(net, frame) = VendorPDU(net2, frame2)
             PROVE  net = net2 /\ frame = frame2
  OBVIOUS
<1>1. \A m, f : VendorPDU(m, f).payload.body.key = k2(m)
  BY DEF VendorPDU, make_proxy_pdu, encrypt_network_pdu, mesh_aes_ccm_encrypt
<1>2. k2(net) = k2(net2)
  BY <1>1
<1>3. \A m : k2(m)[2] = m
  BY DEF k2
<1> DEFINE T(x) == x.payload.body.payload.body.payload
<1>4. \A m, f : T(VendorPDU(m, f)) = [op |-> "vendor_data", of |-> None, tid |-> 0, val |-> f]
  BY DEF VendorPDU, make_proxy_pdu, encrypt_network_pdu, make_access_unsegmented,
         mesh_aes_ccm_encrypt
<1> HIDE DEF T
<1>5. [op |-> "vendor_data", of |-> None, tid |-> 0, val |-> frame].val = frame
  OBVIOUS
<1>6. [op |-> "vendor_data", of |-> None, tid |-> 0, val |-> frame2].val = frame2
  OBVIOUS
<1>7. T(VendorPDU(net, frame)) = T(VendorPDU(net2, frame2))
  OBVIOUS
<1>8. frame = frame2
  BY <1>4, <1>5, <1>6, <1>7
<1>9. net = net2
  BY <1>2, <1>3
<1>. QED  BY <1>8, <1>9

-----------------------------------------------------------------------------
(* The node.                                                               *)

\* What the node knows after a PDU.
LEMMA HeardFacts ==
  ASSUME NodeTypes, NEW p, NEW q, NEW o, NEW n, n = Heard(p, q, o)
  PROVE  /\ DOMAIN n = DOMAIN node
         /\ n.heard = q /\ n.used = node.used /\ n.power = node.power
         /\ n.last = IF p.op \in SetOps THEN p.tid ELSE node.last
         /\ n.level = IF p.op \in {"level", "lightness"} /\ p.tid # node.last
                      THEN p.val ELSE node.level
         /\ n.parts = IF p.op = "appkey" THEN node.parts \cup {<<p.of, o>>} ELSE node.parts
<1> DEFINE new == p.tid # node.last
           one == p.val = 1
           high == p.val > (IF p.op = "level" THEN -32768 ELSE 0)
           set == IF p.op = "power" /\ new THEN [node EXCEPT !.on = one]
                  ELSE IF p.op \in {"level", "lightness"} /\ new
                  THEN [node EXCEPT !.level = p.val, !.on = high]
                  ELSE node
<1> HIDE DEF one, high
<1>1. /\ DOMAIN set = DOMAIN node
      /\ set.used = node.used /\ set.power = node.power /\ set.last = node.last
      /\ set.parts = node.parts
      /\ set.level = IF p.op \in {"level", "lightness"} /\ new THEN p.val ELSE node.level
  <2>1. CASE p.op = "power" /\ new
    <3>1. set = [node EXCEPT !.on = one]
      BY <2>1
    <3> HIDE DEF set
    <3>. QED  BY <2>1, <3>1 DEF NodeTypes
  <2>2. CASE p.op \in {"level", "lightness"} /\ new
    <3>1. set = [node EXCEPT !.level = p.val, !.on = high]
      BY <2>2
    <3> HIDE DEF set
    <3>. QED  BY <2>2, <3>1 DEF NodeTypes
  <2>3. CASE p.op \notin {"power", "level", "lightness"} \/ ~new
    <3>1. set = node
      BY <2>3
    <3> HIDE DEF set
    <3>. QED  BY <2>3, <3>1 DEF NodeTypes
  <2>. QED  BY <2>1, <2>2, <2>3
<1>2. n = [set EXCEPT !.heard = q,
                          !.last = IF p.op \in SetOps THEN p.tid ELSE @,
                          !.parts = IF p.op = "appkey" THEN @ \cup {<<p.of, o>>} ELSE @]
  BY DEF Heard, one, high
<1> HIDE DEF set
<1>. QED  BY <1>1, <1>2 DEF NodeTypes, new

\* Among them the parts of the messages it has heard.
LEMMA PartsHeard ==
  ASSUME NodeTypes, NEW p, NEW q, NEW o
  PROVE  Heard(p, q, o).parts = IF p.op = "appkey" THEN node.parts \cup {<<p.of, o>>}
                                ELSE node.parts
<1> DEFINE n == Heard(p, q, o)
<1>1. n = Heard(p, q, o)
  OBVIOUS
<1> HIDE DEF n
<1>2. /\ DOMAIN n = DOMAIN node
      /\ n.heard = q /\ n.used = node.used /\ n.power = node.power
      /\ n.last = IF p.op \in SetOps THEN p.tid ELSE node.last
      /\ n.level = IF p.op \in {"level", "lightness"} /\ p.tid # node.last
                   THEN p.val ELSE node.level
      /\ n.parts = IF p.op = "appkey" THEN node.parts \cup {<<p.of, o>>} ELSE node.parts
  BY <1>1, HeardFacts
<1>3. n.parts = IF p.op = "appkey" THEN node.parts \cup {<<p.of, o>>} ELSE node.parts
  BY <1>2
<1>. QED  BY <1>1, <1>3, Zenon

\* A command or a request that reaches the node.
Call(s) == [of |-> s, nth |-> calls[s], tid |-> transaction[s]]
CommandHeard(s) ==
  /\ DOMAIN node' = DOMAIN node
  /\ node'.heard \in Int /\ node'.used = node.used /\ node'.power = node.power
  /\ node'.last = IF Retried(s) THEN transaction[s] ELSE node.last
  /\ node'.level \in Int /\ node'.parts \subseteq Senders \X {0, 1}
  /\ applied' = IF Retried(s) /\ transaction[s] # node.last THEN Append(applied, Call(s)) ELSE applied
  /\ \/ air' = air
     \/ \E op \in StatusOps, v \in Int :
          StatusValue(op, v) /\ air' = Append(air, StatusPDU(op, s, v))
  /\ LevelTrue(node'.level)

LEMMA Answered ==
  ASSUME TypeOK, LevelRange, NEW s \in Senders, NEW n, DOMAIN n = DOMAIN node,
         NEW p, p.op = Op(s), p.of = s,
         n.level \in Int,
         Op(s) = "level" => -32768 <= n.level /\ n.level <= 32767,
         Op(s) = "lightness" => 0 <= n.level /\ n.level <= 65535
  PROVE  \/ air \o Replies(p, n) = air
         \/ \E op \in StatusOps, v \in Int :
              StatusValue(op, v) /\ air \o Replies(p, n) = Append(air, StatusPDU(op, s, v))
<1>a. air \in Seq(ToSet(air))
  BY DEF TypeOK, NodeTypes
<1>b. Op(s) \in {"power", "level", "lightness", "vendor", "appkey", "bind"}
  BY CallFacts DEF TypeOK, ConnTypes
<1>1. ASSUME Replies(p, n) = <<>> PROVE air \o Replies(p, n) = air
  BY <1>a, <1>1, ConcatFew
<1>2. ASSUME NEW op \in StatusOps, NEW v \in Int, StatusValue(op, v),
             Replies(p, n) = <<Reply(p, op, v)>>
      PROVE  \E k \in StatusOps, w \in Int :
               StatusValue(k, w) /\ air \o Replies(p, n) = Append(air, StatusPDU(k, s, w))
  <2>1. Reply(p, op, v) = StatusPDU(op, s, v)
    BY DEF Reply, StatusPDU
  <2>2. air \o <<StatusPDU(op, s, v)>> = Append(air, StatusPDU(op, s, v))
    BY <1>a, ConcatFew
  <2>. QED  BY <1>2, <2>1, <2>2
<1>3. CASE Op(s) = "power"
  <2>1. PICK v \in Int : Replies(p, n) = <<Reply(p, "onoff_status", v)>>
    <3>1. (IF n.on THEN 1 ELSE 0) \in Int
      OBVIOUS
    <3>. QED  BY <1>3, <3>1 DEF Replies
  <2>. QED  BY <1>2, <2>1 DEF StatusOps, StatusValue
<1>4. CASE Op(s) = "level"
  BY <1>2, <1>4 DEF Replies, StatusOps, StatusValue
<1>5. CASE Op(s) = "lightness"
  BY <1>2, <1>5 DEF Replies, StatusOps, StatusValue
<1>6. CASE Op(s) = "bind"
  <2>1. Replies(p, n) = <<Reply(p, "bind_status", 0)>>
    BY <1>6 DEF Replies, Status
  <2>. QED  BY <1>2, <2>1 DEF StatusOps, StatusValue
<1>7. CASE Op(s) = "appkey"
  <2>1. Replies(p, n) = <<>> \/ Replies(p, n) = <<Reply(p, "appkey_status", 0)>>
    BY <1>7 DEF Replies, Status
  <2>. QED  BY <1>1, <1>2, <2>1 DEF StatusOps, StatusValue
<1>8. CASE Op(s) = "vendor"
  BY <1>1, <1>8 DEF Replies
<1>. QED  BY <1>b, <1>3, <1>4, <1>5, <1>6, <1>7, <1>8

\* A sender's PDU that reaches the node: a replay to it, or heard.
LEMMA SenderHeard ==
  ASSUME TypeOK, SenderStage, LevelRange, NEW s \in Senders, pc[s] = "writing",
         Hear(Payload(s, transaction[s]), number[s], written[s])
  PROVE  \/ lossy' = TRUE /\ UNCHANGED nodeVars
         \/ UNCHANGED lossy /\ CommandHeard(s)
<1> DEFINE p == Payload(s, transaction[s])
           n == Heard(p, number[s], written[s])
<1>1. /\ p.op = Op(s) /\ p.of = s /\ p.tid = transaction[s] /\ p.nth = calls[s] /\ p.val \in Int
      /\ Op(s) = "level" => -32768 <= p.val /\ p.val <= 32767
      /\ Op(s) = "lightness" => 0 <= p.val /\ p.val <= 65535
  BY PayloadFacts DEF TypeOK, ConnTypes
<1>2. /\ Op(s) \in {"power", "level", "lightness", "vendor", "appkey", "bind"}
      /\ Op(s) \in SetOps <=> Op(s) \in {"power", "level", "lightness"}
      /\ Retried(s) <=> Op(s) \in {"power", "level", "lightness"}
  BY CallFacts DEF TypeOK, ConnTypes
<1>3. Op(s) = "appkey" => written[s] \in {0, 1}
  BY CallFacts DEF TypeOK, ConnTypes, SendTypes, SenderStage
<1> HIDE DEF p, n
<1>4. /\ DOMAIN n = DOMAIN node
      /\ n.heard = number[s] /\ n.used = node.used /\ n.power = node.power
      /\ n.last = IF p.op \in SetOps THEN p.tid ELSE node.last
      /\ n.level = IF p.op \in {"level", "lightness"} /\ p.tid # node.last
                   THEN p.val ELSE node.level
      /\ n.parts = IF p.op = "appkey" THEN node.parts \cup {<<p.of, written[s]>>}
                   ELSE node.parts
  <2>1. NodeTypes
    BY DEF TypeOK
  <2> SUFFICES ASSUME NEW q, NEW o, q = number[s], o = written[s]
               PROVE  /\ DOMAIN n = DOMAIN node
                      /\ n.heard = q /\ n.used = node.used /\ n.power = node.power
                      /\ n.last = IF p.op \in SetOps THEN p.tid ELSE node.last
                      /\ n.level = IF p.op \in {"level", "lightness"} /\ p.tid # node.last
                                   THEN p.val ELSE node.level
                      /\ n.parts = IF p.op = "appkey" THEN node.parts \cup {<<p.of, o>>}
                                   ELSE node.parts
    OBVIOUS
  <2>2. n = Heard(p, q, o)
    BY DEF n
  <2>. QED  BY <2>1, <2>2, HeardFacts
<1>5. n.level \in Int
  BY <1>1, <1>4 DEF TypeOK, NodeTypes
<1>6. LevelTrue(n.level)
  <2>1. CASE Op(s) \notin {"level", "lightness"}
    BY <1>1, <1>4, <2>1 DEF LevelRange
  <2>2. CASE Op(s) = "level"
    <3>1. \A t \in Senders : Op(t) # "lightness"
      BY SendersAssumption, <2>2 DEF Op, TypeOK, ConnTypes
    <3>. QED  BY <1>1, <1>4, <2>2, <3>1 DEF LevelRange, LevelTrue
  <2>3. CASE Op(s) = "lightness"
    <3>1. \A t \in Senders : Op(t) # "level"
      BY SendersAssumption, <2>3 DEF Op, TypeOK, ConnTypes
    <3>. QED  BY <1>1, <1>4, <2>3, <3>1 DEF LevelRange, LevelTrue
  <2>. QED  BY <2>1, <2>2, <2>3
<1>7. n.parts \subseteq Senders \X {0, 1}
  BY <1>1, <1>3, <1>4 DEF TypeOK, NodeTypes
<1>8. CASE number[s] <= node.heard
  BY <1>8 DEF Hear
<1>9. CASE ~(number[s] <= node.heard)
  <2>1. /\ UNCHANGED lossy /\ node' = n /\ air' = air \o Replies(p, n)
        /\ applied' = IF p.op \in SetOps /\ p.tid # node.last
                      THEN Append(applied, [of |-> p.of, nth |-> p.nth, tid |-> p.tid])
                      ELSE applied
    <3>1. p.op # "composition"
      BY <1>1, <1>2
    <3>. QED  BY <1>9, <3>1 DEF Hear, n, p
  <2>2. \/ air' = air
        \/ \E op \in StatusOps, v \in Int :
             StatusValue(op, v) /\ air' = Append(air, StatusPDU(op, s, v))
    BY <1>1, <1>4, <1>5, <1>6, <2>1, Answered DEF LevelTrue
  <2>3. number[s] \in Int
    BY DEF TypeOK, SendTypes
  <2>4. [of |-> p.of, nth |-> p.nth, tid |-> p.tid] = Call(s)
    BY <1>1 DEF Call
  <2>5. applied' = IF Retried(s) /\ transaction[s] # node.last THEN Append(applied, Call(s))
                   ELSE applied
    BY <1>1, <2>1, <2>4 DEF Retried
  <2>. QED  BY <1>1, <1>2, <1>4, <1>5, <1>6, <1>7, <2>1, <2>2, <2>3, <2>5 DEF CommandHeard
<1>. QED  BY <1>8, <1>9

\* The Composition Data Get that reaches the node: it answers with two segments
\* under a number it has not used, while there is one.
Get == [op |-> "composition", of |-> None, tid |-> None, val |-> 0]
RequestHeard ==
  /\ DOMAIN node' = DOMAIN node
  /\ node'.heard \in Int /\ node'.power = node.power
  /\ node'.last = node.last /\ node'.level = node.level /\ node'.parts = node.parts
  /\ applied' = applied
  /\ \/ node'.used = node.used /\ air' = air
     \/ \E r \in SeqNumbers :
          /\ r > node.used /\ node'.used = r
          /\ air' = air \o <<CompositionSegment(r, 0), CompositionSegment(r, 1)>>

LEMMA GetHeard ==
  ASSUME TypeOK, Hear(Get, asked, 0)
  PROVE  \/ lossy' = TRUE /\ UNCHANGED nodeVars
         \/ UNCHANGED lossy /\ RequestHeard
<1> DEFINE n == Heard(Get, asked, 0)
<1>1. Get.op = "composition" /\ Get.op \notin SetOps
  BY DEF Get, SetOps
<1>2. /\ DOMAIN n = DOMAIN node
      /\ n.heard = asked /\ n.used = node.used /\ n.power = node.power
      /\ n.last = node.last /\ n.level = node.level /\ n.parts = node.parts
  <2>1. NodeTypes
    BY DEF TypeOK
  <2>2. /\ DOMAIN n = DOMAIN node
        /\ n.heard = asked /\ n.used = node.used /\ n.power = node.power
        /\ n.last = IF Get.op \in SetOps THEN Get.tid ELSE node.last
        /\ n.level = IF Get.op \in {"level", "lightness"} /\ Get.tid # node.last
                     THEN Get.val ELSE node.level
        /\ n.parts = IF Get.op = "appkey" THEN node.parts \cup {<<Get.of, 0>>} ELSE node.parts
    <3>1. n = Heard(Get, asked, 0)
      OBVIOUS
    <3> HIDE DEF n
    <3>. QED  BY <2>1, <3>1, HeardFacts, Z3
  <2> HIDE DEF n
  <2>. QED  BY <1>1, <2>2
<1>3. CASE asked <= node.heard
  BY <1>3 DEF Hear
<1>4. CASE ~(asked <= node.heard)
  <2>1. UNCHANGED lossy /\ applied' = applied
    BY <1>1, <1>4 DEF Hear
  <2>2. \/ node' = n /\ air' = air \o Replies(Get, n)
        \/ \E r \in Unused :
             /\ node' = [n EXCEPT !.used = r]
             /\ air' = air \o <<CompositionSegment(r, 0), CompositionSegment(r, 1)>>
    BY <1>4 DEF Hear
  <2>3. air \o Replies(Get, n) = air
    <3>1. Replies(Get, n) = <<>>
      BY <1>1 DEF Replies
    <3>. QED  BY <3>1, ConcatFew DEF TypeOK, NodeTypes
  <2>4. asked \in Int
    BY DEF TypeOK, ConnTypes
  <2> HIDE DEF n
  <2>5. CASE node' = n /\ air' = air \o Replies(Get, n)
    BY <1>2, <2>1, <2>3, <2>4, <2>5 DEF RequestHeard
  <2>6. CASE \E r \in Unused :
               /\ node' = [n EXCEPT !.used = r]
               /\ air' = air \o <<CompositionSegment(r, 0), CompositionSegment(r, 1)>>
    <3>1. PICK r \in Unused :
             /\ node' = [n EXCEPT !.used = r]
             /\ air' = air \o <<CompositionSegment(r, 0), CompositionSegment(r, 1)>>
      BY <2>6
    <3>2. r \in SeqNumbers /\ r > node.used
      BY DEF Unused
    <3>. QED  BY <1>2, <2>1, <2>4, <3>1, <3>2 DEF RequestHeard, TypeOK, NodeTypes
  <2>. QED  BY <2>2, <2>5, <2>6
<1>. QED  BY <1>3, <1>4

\* How a command leaves the switch of the node, and what a status of it says.
SetsOn(op, v) == IF op = "power" THEN v = 1 ELSE v > (IF op = "level" THEN -32768 ELSE 0)
CommandStatuses == {"onoff_status", "level_status", "lightness_status"}
SaysOn(op, v) ==
  IF op = "onoff_status" THEN v = 1
  ELSE Brightness(IF op = "level_status" THEN v ELSE v - 32768) > 0

\* The node is as the command of a sender leaves it.
Val(s) == Payload(s, 0).val
SetBy(s, n) == (n.on <=> SetsOn(Op(s), Val(s))) /\ (Op(s) # "power" => n.level = Val(s))

\* A new command sets the switch; nothing else does.
LEMMA HeardSwitch ==
  ASSUME NodeTypes, node.on \in BOOLEAN, NEW p, NEW q, NEW o, NEW n, n = Heard(p, q, o)
  PROVE  /\ n.on \in BOOLEAN /\ DOMAIN n = DOMAIN node
         /\ p.op \in SetOps /\ p.tid # node.last => (n.on <=> SetsOn(p.op, p.val))
         /\ p.op \notin SetOps \/ p.tid = node.last => (n.on <=> node.on)
<1> DEFINE new == p.tid # node.last
           one == p.val = 1
           high == p.val > (IF p.op = "level" THEN -32768 ELSE 0)
           set == IF p.op = "power" /\ new THEN [node EXCEPT !.on = one]
                  ELSE IF p.op \in {"level", "lightness"} /\ new
                  THEN [node EXCEPT !.level = p.val, !.on = high]
                  ELSE node
<1>1. one \in BOOLEAN /\ high \in BOOLEAN
  OBVIOUS
<1>2. /\ p.op = "power" => (SetsOn(p.op, p.val) <=> one)
      /\ p.op \in {"level", "lightness"} => (SetsOn(p.op, p.val) <=> high)
  BY DEF SetsOn
<1>3. p.op \in SetOps <=> p.op = "power" \/ p.op \in {"level", "lightness"}
  BY DEF SetOps
<1> HIDE DEF one, high
<1>4. DOMAIN set = DOMAIN node
  BY DEF NodeTypes
<1>5. ASSUME p.op = "power", new PROVE set.on = one
  BY <1>5 DEF NodeTypes
<1>6. ASSUME p.op \in {"level", "lightness"}, new PROVE set.on = high
  BY <1>6 DEF NodeTypes
<1>7. ASSUME p.op \notin SetOps \/ ~new PROVE set.on = node.on
  BY <1>3, <1>7
<1>8. n = [set EXCEPT !.heard = q,
                      !.last = IF p.op \in SetOps THEN p.tid ELSE @,
                      !.parts = IF p.op = "appkey" THEN @ \cup {<<p.of, o>>} ELSE @]
  BY DEF Heard, one, high
<1> HIDE DEF set
<1>9. n.on = set.on /\ DOMAIN n = DOMAIN node
  BY <1>4, <1>8 DEF NodeTypes
<1>10. set.on \in BOOLEAN
  BY <1>1, <1>3, <1>5, <1>6, <1>7
<1>. QED  BY <1>2, <1>3, <1>5, <1>6, <1>7, <1>9, <1>10

\* What the commands change, and all the rest keeps.
LEMMA HeardKept ==
  ASSUME NodeTypes, NEW p, NEW q, NEW o, NEW n, n = Heard(p, q, o)
  PROVE  /\ n.power = node.power
         /\ n.last = IF p.op \in SetOps THEN p.tid ELSE node.last
         /\ n.level = IF p.op \in {"level", "lightness"} /\ p.tid # node.last
                      THEN p.val ELSE node.level
<1>1. /\ DOMAIN n = DOMAIN node
      /\ n.heard = q /\ n.used = node.used /\ n.power = node.power
      /\ n.last = IF p.op \in SetOps THEN p.tid ELSE node.last
      /\ n.level = IF p.op \in {"level", "lightness"} /\ p.tid # node.last
                   THEN p.val ELSE node.level
      /\ n.parts = IF p.op = "appkey" THEN node.parts \cup {<<p.of, o>>} ELSE node.parts
  BY HeardFacts
<1>. QED  BY <1>1

\* The level of a brightness is above the least exactly when the brightness is: so what a
\* status of it says is what the command sets.
LEMMA ValueFacts ==
  ASSUME call \in Programs, NEW s \in Senders
  PROVE  /\ \A t : Payload(s, t).val = Val(s)
         /\ Val(s) \in Int
         /\ Op(s) = "level" =>
              /\ -32768 <= Val(s) /\ Val(s) <= 32767
              /\ SaysOn("level_status", Val(s)) <=> SetsOn("level", Val(s))
         /\ Op(s) = "lightness" =>
              /\ 0 <= Val(s) /\ Val(s) <= 65535
              /\ SaysOn("lightness_status", Val(s)) <=> SetsOn("lightness", Val(s))
<1> DEFINE a == call[s].arg
<1>1. a \in 0..255
  BY CallFacts
<1>2. \A t : Payload(s, t).val = Val(s)
  BY DEF Payload, Val
<1>3. /\ Op(s) = "level" => Val(s) = async_turn_on(a)
      /\ Op(s) = "lightness" => Val(s) = async_turn_on(a) + 32768
      /\ Op(s) \notin {"level", "lightness"} => Val(s) = a
  BY DEF Payload, Val
<1> HIDE DEF a
<1>4. /\ a \in Int /\ async_turn_on(a) \in Int
      /\ -32768 <= async_turn_on(a) /\ async_turn_on(a) <= 32767
      /\ async_turn_on(a) > -32768 <=> a > 0
  BY <1>1 DEF async_turn_on
<1>5. Brightness(async_turn_on(a)) = a
  <2>1. 2 * (async_turn_on(a) + 32768) + 257 = 514 * a + 257
    BY <1>4 DEF async_turn_on
  <2>2. (514 * a + 257) \div 514 = a
    BY <1>4
  <2>. QED  BY <2>1, <2>2 DEF Brightness
<1> DEFINE w == async_turn_on(a)
<1> HIDE DEF w
<1>7. w \in Int /\ -32768 <= w /\ w <= 32767 /\ (w > -32768 <=> a > 0) /\ Brightness(w) = a
  BY <1>4, <1>5 DEF w
<1>8. CASE Op(s) = "level"
  <2>1. Val(s) = w
    BY <1>3, <1>8 DEF w
  <2>2. SaysOn("level_status", w) <=> Brightness(w) > 0
    BY DEF SaysOn
  <2>3. SetsOn("level", w) <=> w > -32768
    BY DEF SetsOn
  <2>. QED  BY <1>2, <1>7, <1>8, <2>1, <2>2, <2>3
<1>9. CASE Op(s) = "lightness"
  <2>1. Val(s) = w + 32768
    BY <1>3, <1>9 DEF w
  <2>2. SaysOn("lightness_status", w + 32768) <=> Brightness(w) > 0
    <3> DEFINE v == w + 32768
    <3>1. v - 32768 = w
      BY <1>7
    <3> HIDE DEF v
    <3>2. SaysOn("lightness_status", v) <=> Brightness(w) > 0
      BY <3>1 DEF SaysOn
    <3>. QED  BY <3>2 DEF v
  <2>3. SetsOn("lightness", w + 32768) <=> w + 32768 > 0
    BY DEF SetsOn
  <2>. QED  BY <1>2, <1>7, <1>9, <2>1, <2>2, <2>3
<1>10. CASE Op(s) \notin {"level", "lightness"}
  BY <1>2, <1>3, <1>4, <1>10
<1>. QED  BY <1>8, <1>9, <1>10

\* The status of a command says what the node is.
LEMMA Confirmed ==
  ASSUME call \in Programs, NEW s \in Senders, Retried(s),
         NEW n, n.on \in BOOLEAN, SetBy(s, n), NEW p, p.op = Op(s), p.of = s
  PROVE  \E op \in CommandStatuses, v \in Int :
           Replies(p, n) = <<StatusPDU(op, s, v)>> /\ (SaysOn(op, v) <=> n.on)
<1>1. Op(s) \in {"power", "level", "lightness"}
  BY CallFacts
<1>2. \A op, v : Reply(p, op, v) = StatusPDU(op, s, v)
  BY DEF Reply, StatusPDU
<1>3. CASE Op(s) = "power"
  <2> DEFINE v == IF n.on THEN 1 ELSE 0
  <2>1. v \in Int /\ (v = 1 <=> n.on)
    OBVIOUS
  <2>2. Replies(p, n) = <<Reply(p, "onoff_status", v)>>
    BY <1>3 DEF Replies
  <2> HIDE DEF v
  <2>3. SaysOn("onoff_status", v) <=> v = 1
    BY DEF SaysOn
  <2>. QED  BY <1>2, <2>1, <2>2, <2>3 DEF CommandStatuses
<1>4. CASE Op(s) = "level"
  <2>1. Replies(p, n) = <<Reply(p, "level_status", n.level)>>
    BY <1>4 DEF Replies
  <2>2. n.level = Val(s) /\ (n.on <=> SetsOn("level", Val(s)))
    BY <1>4 DEF SetBy
  <2>3. Val(s) \in Int /\ (SaysOn("level_status", Val(s)) <=> SetsOn("level", Val(s)))
    BY <1>4, ValueFacts
  <2>. QED  BY <1>2, <2>1, <2>2, <2>3 DEF CommandStatuses
<1>5. CASE Op(s) = "lightness"
  <2>1. Replies(p, n) = <<Reply(p, "lightness_status", n.level)>>
    BY <1>5 DEF Replies
  <2>2. n.level = Val(s) /\ (n.on <=> SetsOn("lightness", Val(s)))
    BY <1>5 DEF SetBy
  <2>3. Val(s) \in Int /\ (SaysOn("lightness_status", Val(s)) <=> SetsOn("lightness", Val(s)))
    BY <1>5, ValueFacts
  <2>. QED  BY <1>2, <2>1, <2>2, <2>3 DEF CommandStatuses
<1>. QED  BY <1>1, <1>3, <1>4, <1>5

\* A command that the node hears leaves it as it sets it, and its status says so, whether
\* it is heard for the first time or repeated.
CommandApplied(s) ==
  /\ SetBy(s, node') /\ node'.last = transaction[s] /\ node'.power = node.power
  /\ \E op \in CommandStatuses, v \in Int :
       air' = Append(air, StatusPDU(op, s, v)) /\ (SaysOn(op, v) <=> node'.on)

LEMMA CommandApplies ==
  ASSUME TypeOK, NEW s \in Senders, Retried(s),
         Hear(Payload(s, transaction[s]), number[s], written[s]),
         transaction[s] = node.last => SetBy(s, node)
  PROVE  \/ lossy' = TRUE /\ UNCHANGED nodeVars
         \/ UNCHANGED lossy /\ CommandApplied(s)
<1> DEFINE p == Payload(s, transaction[s])
           q == number[s]
           o == written[s]
           n == Heard(p, q, o)
<1>1. call \in Programs /\ NodeTypes /\ node.on \in BOOLEAN
  BY DEF TypeOK, ConnTypes, FlagTypes
<1>2. /\ p.op = Op(s) /\ p.of = s /\ p.tid = transaction[s] /\ p.val = Val(s)
  BY <1>1, PayloadFacts, ValueFacts
<1>3. Op(s) \in SetOps /\ p.op # "composition" /\ (Op(s) # "power" => Op(s) \in {"level", "lightness"})
  BY <1>1, <1>2, CallFacts
<1>4. Hear(p, q, o)
  OBVIOUS
<1> HIDE DEF p, q, o
<1>5. /\ n.power = node.power
      /\ n.last = IF p.op \in SetOps THEN p.tid ELSE node.last
      /\ n.level = IF p.op \in {"level", "lightness"} /\ p.tid # node.last
                   THEN p.val ELSE node.level
  <2>1. n = Heard(p, q, o)
    OBVIOUS
  <2> HIDE DEF n
  <2>. QED  BY <1>1, <2>1, HeardKept
<1>6. /\ n.on \in BOOLEAN
      /\ p.op \in SetOps /\ p.tid # node.last => (n.on <=> SetsOn(p.op, p.val))
      /\ p.op \notin SetOps \/ p.tid = node.last => (n.on <=> node.on)
  <2>1. n = Heard(p, q, o)
    OBVIOUS
  <2> HIDE DEF n
  <2>. QED  BY <1>1, <2>1, HeardSwitch
<1>7. \/ lossy' = TRUE /\ UNCHANGED nodeVars
      \/ UNCHANGED lossy /\ node' = n /\ air' = air \o Replies(p, n)
  BY <1>3, <1>4 DEF Hear
<1> HIDE DEF n
<1>8. SetBy(s, n)
  <2>1. CASE transaction[s] = node.last
    BY <1>2, <1>3, <1>5, <1>6, <2>1 DEF SetBy
  <2>2. CASE transaction[s] # node.last
    BY <1>2, <1>3, <1>5, <1>6, <2>2 DEF SetBy
  <2>. QED  BY <2>1, <2>2
<1>9. PICK op \in CommandStatuses, v \in Int :
        Replies(p, n) = <<StatusPDU(op, s, v)>> /\ (SaysOn(op, v) <=> n.on)
  BY <1>1, <1>2, <1>6, <1>8, Confirmed
<1>10. air \o Replies(p, n) = Append(air, StatusPDU(op, s, v))
  BY <1>1, <1>9, ConcatFew DEF NodeTypes
<1>11. n.last = transaction[s] /\ n.power = node.power
  BY <1>2, <1>3, <1>5
<1>. QED  BY <1>7, <1>8, <1>9, <1>10, <1>11 DEF CommandApplied

\* Another message leaves the switch, the level and the transaction as they were.
SwitchKept == (node'.on <=> node.on) /\ node'.level = node.level /\ node'.last = node.last

OtherHeard(s) ==
  /\ SwitchKept /\ node'.power = node.power
  /\ \/ air' = air
     \/ \E op \in {"appkey_status", "bind_status"}, v \in Int : air' = Append(air, StatusPDU(op, s, v))

LEMMA OtherApplies ==
  ASSUME TypeOK, NEW s \in Senders, ~Retried(s),
         Hear(Payload(s, transaction[s]), number[s], written[s])
  PROVE  \/ lossy' = TRUE /\ UNCHANGED nodeVars
         \/ UNCHANGED lossy /\ OtherHeard(s)
<1> DEFINE p == Payload(s, transaction[s])
           q == number[s]
           o == written[s]
           n == Heard(p, q, o)
<1>1. call \in Programs /\ NodeTypes /\ node.on \in BOOLEAN
  BY DEF TypeOK, ConnTypes, FlagTypes
<1>2. p.op = Op(s) /\ p.of = s
  BY <1>1, PayloadFacts
<1>3. Op(s) \in {"vendor", "appkey", "bind"} /\ Op(s) \notin SetOps /\ p.op # "composition"
  BY <1>1, <1>2, CallFacts
<1>4. Hear(p, q, o)
  OBVIOUS
<1> HIDE DEF p, q, o
<1>5. /\ n.power = node.power
      /\ n.last = IF p.op \in SetOps THEN p.tid ELSE node.last
      /\ n.level = IF p.op \in {"level", "lightness"} /\ p.tid # node.last
                   THEN p.val ELSE node.level
  <2>1. n = Heard(p, q, o)
    OBVIOUS
  <2> HIDE DEF n
  <2>. QED  BY <1>1, <2>1, HeardKept
<1>6. /\ n.on \in BOOLEAN
      /\ p.op \in SetOps /\ p.tid # node.last => (n.on <=> SetsOn(p.op, p.val))
      /\ p.op \notin SetOps \/ p.tid = node.last => (n.on <=> node.on)
  <2>1. n = Heard(p, q, o)
    OBVIOUS
  <2> HIDE DEF n
  <2>. QED  BY <1>1, <2>1, HeardSwitch
<1>7. \/ lossy' = TRUE /\ UNCHANGED nodeVars
      \/ UNCHANGED lossy /\ node' = n /\ air' = air \o Replies(p, n)
  BY <1>3, <1>4 DEF Hear
<1> HIDE DEF n
<1>8. (n.on <=> node.on) /\ n.level = node.level /\ n.last = node.last /\ n.power = node.power
  BY <1>2, <1>3, <1>5, <1>6
<1>9. \/ Replies(p, n) = <<>>
      \/ \E op \in {"appkey_status", "bind_status"} : Replies(p, n) = <<Reply(p, op, 0)>>
  <2>1. Status.bind = "bind_status" /\ Status.appkey = "appkey_status"
    BY DEF Status
  <2>. QED  BY <1>2, <1>3, <2>1 DEF Replies
<1>10. \A op, v : Reply(p, op, v) = StatusPDU(op, s, v)
  BY <1>2 DEF Reply, StatusPDU
<1>11. /\ air \o <<>> = air
       /\ \A x : air \o <<x>> = Append(air, x)
  BY <1>1, ConcatFew DEF NodeTypes
<1>12. \/ air \o Replies(p, n) = air
       \/ \E op \in {"appkey_status", "bind_status"}, v \in Int :
            air \o Replies(p, n) = Append(air, StatusPDU(op, s, v))
  <2>1. ASSUME NEW op \in {"appkey_status", "bind_status"}, Replies(p, n) = <<Reply(p, op, 0)>>
        PROVE  air \o Replies(p, n) = Append(air, StatusPDU(op, s, 0))
    BY <1>10, <1>11, <2>1
  <2>2. 0 \in Int
    OBVIOUS
  <2>. QED  BY <1>9, <1>11, <2>1, <2>2
<1>. QED  BY <1>7, <1>8, <1>12 DEF OtherHeard, SwitchKept

\* So does the Composition Data Get.
LEMMA GetApplies ==
  ASSUME TypeOK, Hear(Get, asked, 0)
  PROVE  \/ lossy' = TRUE /\ UNCHANGED nodeVars
         \/ /\ UNCHANGED lossy /\ SwitchKept /\ node'.power = node.power
            /\ \/ air' = air
               \/ \E r : air' = air \o <<CompositionSegment(r, 0), CompositionSegment(r, 1)>>
<1> DEFINE n == Heard(Get, asked, 0)
<1>1. NodeTypes /\ node.on \in BOOLEAN
  BY DEF TypeOK, FlagTypes
<1>2. Get.op = "composition" /\ Get.op \notin SetOps
  BY DEF Get, SetOps
<1>3. n = Heard(Get, asked, 0)
  OBVIOUS
<1>4. \/ lossy' = TRUE /\ UNCHANGED nodeVars
      \/ /\ UNCHANGED lossy
         /\ node' = n \/ \E r : node' = [n EXCEPT !.used = r]
  BY <1>2, <1>3 DEF Hear
<1> HIDE DEF n
<1>5. /\ n.on \in BOOLEAN /\ DOMAIN n = DOMAIN node
      /\ Get.op \in SetOps /\ Get.tid # node.last => (n.on <=> SetsOn(Get.op, Get.val))
      /\ Get.op \notin SetOps \/ Get.tid = node.last => (n.on <=> node.on)
  BY <1>1, <1>3, HeardSwitch
<1>7. n.on <=> node.on
  BY <1>2, <1>5
<1>8. \A r : [n EXCEPT !.used = r].on = n.on
  BY <1>1, <1>5 DEF NodeTypes
<1>9. UNCHANGED lossy => node'.on = n.on \/ UNCHANGED nodeVars
  BY <1>4, <1>8 DEF nodeVars
<1>10. \/ lossy' = TRUE /\ UNCHANGED nodeVars
       \/ UNCHANGED lossy /\ RequestHeard
  BY GetHeard
<1>. QED  BY <1>4, <1>7, <1>8, <1>10 DEF SwitchKept, RequestHeard

-----------------------------------------------------------------------------
(* Notifications.                                                          *)

\* The registration a status resolves is the oldest that waits for it.
LEMMA MatchedFacts ==
  ASSUME TypeOK, NEW op
  PROVE  \/ Matched(op) = 0
         \/ /\ Matched(op) \in DOMAIN pending /\ op \in {"appkey_status", "bind_status"}
            /\ Status[Op(pending[Matched(op)])] = op
            /\ \A j \in DOMAIN pending : Status[Op(pending[j])] = op => Matched(op) <= j
<1> DEFINE match == {i \in DOMAIN pending : Status[Op(pending[i])] = op}
<1>1. pending \in Seq({s \in Senders : Awaits(s)})
  BY DEF TypeOK, ReceiveTypes
<1>2. match \subseteq Nat
  BY <1>1
<1>3. CASE match = {}
  BY <1>3 DEF Matched
<1>4. CASE match # {}
  <2>1. \E i \in match : \A j \in match : i <= j
    BY <1>2, <1>4, LeastExists
  <2>2. Matched(op) = CHOOSE i \in match : \A j \in match : i <= j
    BY <1>4 DEF Matched
  <2>3. Matched(op) \in match /\ \A j \in match : Matched(op) <= j
    BY <2>1, <2>2, Zenon
  <2>4. Op(pending[Matched(op)]) \in {"appkey", "bind"}
    <3>1. Matched(op) \in DOMAIN pending
      BY <2>3
    <3>. QED  BY <1>1, <3>1 DEF Awaits
  <2>5. Status["appkey"] = "appkey_status" /\ Status["bind"] = "bind_status"
    BY DEF Status
  <2>. QED  BY <2>3, <2>4, <2>5
<1>. QED  BY <1>3, <1>4

\* A buffer of two segments is complete.
LEMMA PairComplete ==
  ASSUME NEW S, S \subseteq {0, 1}
  PROVE  Cardinality(S) = 2 <=> S = {0, 1}
<1>1. Cardinality({}) = 0
  BY FS_EmptySet
<1>2. Cardinality({0}) = 1 /\ Cardinality({1}) = 1
  BY FS_Singleton
<1>3. Cardinality({0, 1}) = 2
  <2>1. {0, 1} = {0} \cup {1} /\ 1 \notin {0}
    OBVIOUS
  <2>2. IsFiniteSet({0})
    BY FS_Singleton, Zenon
  <2>. QED  BY <1>2, <2>1, <2>2, FS_AddElement
<1>4. S = {} \/ S = {0} \/ S = {1} \/ S = {0, 1}
  OBVIOUS
<1>5. 0 # 1 /\ 0 # 2 /\ 1 # 2
  OBVIOUS
<1>. QED  BY <1>1, <1>2, <1>3, <1>4, <1>5, Zenon

\* What a segment of message q changes: it completes its buffer, which is dropped,
\* and read when all its segments are of a message that fits; or it is kept, unless
\* the buffer is too old.
Kept(z) == IF z \in DOMAIN buffers THEN DOMAIN buffers[z].segs ELSE {}

Completed(q, o) ==
  LET z == q % MESH_SEQ_ZERO
  IN  /\ Kept(z) \cup {o} = {0, 1}
      /\ buffers' = [y \in (DOMAIN buffers \ {z}) \ old |-> buffers[y]]
      /\ whole' = [r \in SeqNumbers |-> IF r = q THEN whole[r] \cup {o} ELSE whole[r]]
      /\ \/ composition' = q /\ Fits(q)
         \/ /\ composition' = composition
            /\ ~Fits(q) \/ \E p \in Kept(z) : buffers[z].segs[p] # SegmentOf(z, p)

Stored(q, o) ==
  LET z == q % MESH_SEQ_ZERO
  IN  /\ Kept(z) \cup {o} # {0, 1} /\ composition' = composition
      /\ DOMAIN buffers' = (DOMAIN buffers \cup {z}) \ old
      /\ \A y \in DOMAIN buffers' \ {z} : buffers'[y] = buffers[y]
      /\ z \notin old =>
           /\ DOMAIN buffers'[z] = {"seg_n", "segs"} /\ buffers'[z].seg_n = 1
           /\ DOMAIN buffers'[z].segs = Kept(z) \cup {o}
           /\ buffers'[z].segs[o] = SegmentOf(q, o)
           /\ \A p \in Kept(z) \ {o} : buffers'[z].segs[p] = buffers[z].segs[p]
      /\ whole' = [r \in SeqNumbers |->
                     IF r % MESH_SEQ_ZERO \in old THEN {}
                     ELSE IF r = q THEN whole[r] \cup {o} ELSE whole[r]]

LEMMA SegmentHandled ==
  ASSUME TypeOK, BuffersTrue, NEW q \in SeqNumbers, NEW o \in {0, 1},
         _handle_segment(SegmentOf(q, o))
  PROVE  /\ UNCHANGED <<pending, answer, shown, pc>> /\ old' = {}
         /\ Completed(q, o) \/ Stored(q, o)
<1> DEFINE t == SegmentOf(q, o)
           z == q % MESH_SEQ_ZERO
           b == Collected(t)
<1>1. /\ t.seq_zero = z /\ t.seg_o = o /\ t.seg_n = 1 /\ t.body.nonce = q /\ t.akf = t.body.key
      /\ t.body.payload.op = "composition" /\ t.body.payload.val = q
  BY SegmentFields
<1>2. z \in SeqZeros /\ (Fits(q) <=> z = q)
  BY SeqZeroFacts
<1> HIDE DEF t, z
<1>3. /\ DOMAIN b = {"seg_n", "segs"} /\ b.seg_n = 1 /\ DOMAIN b.segs = Kept(z) \cup {o}
      /\ b.segs[o] = t /\ \A p \in Kept(z) \ {o} : b.segs[p] = buffers[z].segs[p]
  <2>1. CASE z \in DOMAIN buffers
    <3>1. /\ DOMAIN buffers[z] = {"seg_n", "segs"} /\ buffers[z].seg_n = 1
          /\ Kept(z) = DOMAIN buffers[z].segs
      BY <2>1 DEF BuffersTrue, BufferTrue, Kept
    <3>2. b = [buffers[z] EXCEPT !.segs = [p \in Kept(z) \cup {o} |->
                                             IF p = o THEN t ELSE buffers[z].segs[p]]]
      BY <1>1, <2>1, <3>1 DEF Collected
    <3> HIDE DEF b
    <3>. QED  BY <3>1, <3>2
  <2>2. CASE z \notin DOMAIN buffers
    <3>1. Kept(z) = {}
      BY <2>2 DEF Kept
    <3> DEFINE new == [seg_n |-> 1, segs |-> [p \in {} |-> t]]
    <3>2. b = [new EXCEPT !.segs = [p \in DOMAIN new.segs \cup {o} |->
                                      IF p = o THEN t ELSE new.segs[p]]]
      BY <1>1, <2>2 DEF Collected
    <3>3. DOMAIN new = {"seg_n", "segs"} /\ new.seg_n = 1 /\ DOMAIN new.segs = {}
      OBVIOUS
    <3> HIDE DEF b, new
    <3>. QED  BY <3>1, <3>2, <3>3
  <2>. QED  BY <2>1, <2>2
<1>4. Kept(z) \subseteq {0, 1}
  BY DEF BuffersTrue, BufferTrue, Kept
<1>5. Complete(b) <=> Kept(z) \cup {o} = {0, 1}
  BY <1>3, <1>4, PairComplete DEF Complete
<1>6. /\ old' = {}
      /\ buffers' = _clean_stale_buffers(
           IF Complete(b) THEN [y \in DOMAIN buffers \ {z} |-> buffers[y]]
           ELSE [y \in DOMAIN buffers \cup {z} |-> IF y = z THEN b ELSE buffers[y]])
      /\ whole' = [r \in SeqNumbers |->
                     IF r % MESH_SEQ_ZERO \in old /\ ~Complete(b) THEN {}
                     ELSE IF r = q THEN whole[r] \cup {o} ELSE whole[r]]
      /\ IF Complete(b) /\ reassemble_and_decrypt_segments(b, z)
         THEN _dispatch_access_payload_unlocked(t.body.payload)
         ELSE UNCHANGED <<answer, pending, shown, composition, pc>>
  <2> HIDE DEF b
  <2>. QED  BY <1>1 DEF _handle_segment, t, b
<1>7. _dispatch_access_payload_unlocked(t.body.payload) =>
        UNCHANGED <<answer, pending, shown, pc>> /\ composition' = q
  <2>1. Matched("composition") = 0
    BY MatchedFacts
  <2>. QED  BY <1>1, <2>1 DEF _dispatch_access_payload_unlocked, parse_access_opcode,
                             parse_composition_data
<1>8. Complete(b) => (reassemble_and_decrypt_segments(b, z) <=>
                        \A p \in {0, 1} : mesh_aes_ccm_decrypt(b.segs[p].akf, z, b.segs[p].body))
  <2>1. Complete(b) => DOMAIN b.segs = {0, 1} /\ 0..b.seg_n = {0, 1}
    BY <1>3, <1>5
  <2> HIDE DEF b
  <2>. QED  BY <2>1 DEF reassemble_and_decrypt_segments, _make_app_nonce
<1>9. Complete(b) /\ reassemble_and_decrypt_segments(b, z) => Fits(q)
  <2>1. mesh_aes_ccm_decrypt(b.segs[o].akf, z, b.segs[o].body) => q = z
    BY <1>1, <1>3 DEF mesh_aes_ccm_decrypt
  <2>. QED  BY <1>2, <1>8, <2>1
<1>10. ASSUME Complete(b), ~reassemble_and_decrypt_segments(b, z), Fits(q)
       PROVE  \E p \in Kept(z) : buffers[z].segs[p] # SegmentOf(z, p)
  <2>1. PICK p \in {0, 1} : ~mesh_aes_ccm_decrypt(b.segs[p].akf, z, b.segs[p].body)
    BY <1>8, <1>10
  <2>2. p # o
    BY <1>1, <1>2, <1>3, <1>10, <2>1 DEF mesh_aes_ccm_decrypt
  <2>3. p \in Kept(z) \ {o} /\ b.segs[p] = buffers[z].segs[p]
    BY <1>3, <1>5, <1>10, <2>2
  <2>4. SegmentOf(z, p).body.nonce = z /\ SegmentOf(z, p).akf = SegmentOf(z, p).body.key
    BY SegmentFields
  <2>5. b.segs[p] # SegmentOf(z, p)
    BY <2>1, <2>4 DEF mesh_aes_ccm_decrypt
  <2>. QED  BY <2>3, <2>5
<1> HIDE DEF b
<1>11. CASE Complete(b)
  <2>1. buffers' = [y \in (DOMAIN buffers \ {z}) \ old |-> buffers[y]]
    BY <1>6, <1>11 DEF _clean_stale_buffers
  <2>2. whole' = [r \in SeqNumbers |-> IF r = q THEN whole[r] \cup {o} ELSE whole[r]]
    BY <1>6, <1>11
  <2>. QED  BY <1>5, <1>6, <1>7, <1>9, <1>10, <1>11, <2>1, <2>2 DEF Completed, z
<1>12. CASE ~Complete(b)
  <2>1. buffers' = [y \in (DOMAIN buffers \cup {z}) \ old |-> IF y = z THEN b ELSE buffers[y]]
    BY <1>6, <1>12 DEF _clean_stale_buffers
  <2>2. whole' = [r \in SeqNumbers |-> IF r % MESH_SEQ_ZERO \in old THEN {}
                                       ELSE IF r = q THEN whole[r] \cup {o} ELSE whole[r]]
    BY <1>6, <1>12
  <2>3. /\ DOMAIN buffers' = (DOMAIN buffers \cup {z}) \ old
        /\ \A y \in DOMAIN buffers' \ {z} : buffers'[y] = buffers[y]
        /\ z \notin old => buffers'[z] = b
    BY <2>1
  <2>. QED  BY <1>3, <1>5, <1>6, <1>12, <2>2, <2>3 DEF Stored, z, t
<1>. QED  BY <1>11, <1>12

\* What is shown, but for the switch.
ShownTyped(x) ==
  /\ DOMAIN x = {"is_on", "brightness", "power_w"}
  /\ x.brightness \in 0..255 /\ x.power_w \in Nat

\* A brightness is one byte.
LEMMA BrightnessFacts ==
  ASSUME NEW v \in Int, -32768 <= v, v <= 32767
  PROVE  Brightness(v) \in 0..255
<1> DEFINE a == 2 * (v + 32768) + 257
<1>1. a \in Int /\ 0 <= a /\ a <= 131327
  OBVIOUS
<1>2. Brightness(v) = a \div 514
  BY DEF Brightness
<1> HIDE DEF a
<1>. QED  BY <1>1, <1>2

\* The three updates.
LEMMA SwitchTyped ==
  ASSUME ShownTyped(shown), NEW v
  PROVE  ShownTyped(_on_onoff_update(v))
<1> DEFINE b == v = 1
           x == [shown EXCEPT !.is_on = b]
<1>1. _on_onoff_update(v) = x
  BY DEF _on_onoff_update
<1>2. ShownTyped(x)
  <2> HIDE DEF b
  <2>. QED  BY DEF ShownTyped
<1>. QED  BY <1>1, <1>2, Zenon

LEMMA LevelTyped ==
  ASSUME ShownTyped(shown), NEW v \in Int, -32768 <= v, v <= 32767
  PROVE  ShownTyped(_on_level_update(v))
<1> DEFINE w == Brightness(v)
           b == w > 0
           x == [shown EXCEPT !.brightness = w, !.is_on = b]
<1>1. _on_level_update(v) = x
  BY DEF _on_level_update
<1>2. w \in 0..255
  BY BrightnessFacts
<1>3. ShownTyped(x)
  <2> HIDE DEF w, b
  <2>. QED  BY <1>2 DEF ShownTyped
<1> HIDE DEF x
<1>. QED  BY <1>1, <1>3

LEMMA FrameTyped ==
  ASSUME ShownTyped(shown), NEW f, f.dps \subseteq {[dp_id |-> DP_ID_POWER_W, value |-> 57]}
  PROVE  ShownTyped(_on_vendor_update(f))
<1> DEFINE power == {dp \in f.dps : dp.dp_id = DP_ID_POWER_W}
           d == CHOOSE dp \in power : TRUE
           x == IF power = {} THEN shown ELSE [shown EXCEPT !.power_w = d.value]
<1>1. _on_vendor_update(f) = x
  BY DEF _on_vendor_update
<1>2. power # {} => d \in power
  <2> HIDE DEF power
  <2>. QED  OBVIOUS
<1>3. \A dp \in power : dp.value = 57
  OBVIOUS
<1> HIDE DEF power, d
<1>4. ShownTyped(x)
  BY <1>2, <1>3 DEF ShownTyped
<1>. QED  BY <1>1, <1>4, Zenon

\* What a notification changes: nothing; a request takes its status; what is shown
\* changes; the time is asked for; or a segment is taken.
StatusTaken ==
  /\ \E i \in DOMAIN pending, s \in Senders, op \in {"appkey_status", "bind_status"} :
       /\ i = Matched(op) /\ \E v : air[1] = StatusPDU(op, s, v)
       /\ answer' = [answer EXCEPT ![pending[i]] = s]
       /\ pending' = RemoveAt(pending, i)
  /\ UNCHANGED <<buffers, old, composition, shown, whole, pc>>
ShownChanges ==
  /\ ShownTyped(shown')
  /\ \/ UNCHANGED pc
     \/ \E s \in Senders : Op(s) = "vendor" /\ pc[s] = "idle" /\ pc' = [pc EXCEPT ![s] = "asked"]
  /\ UNCHANGED <<pending, answer, buffers, old, composition, whole>>
SegmentTaken ==
  \E q \in SeqNumbers, o \in {0, 1} :
    /\ air[1] = CompositionSegment(q, o) /\ (Completed(q, o) \/ Stored(q, o))
    /\ UNCHANGED <<pending, answer, shown, pc>> /\ old' = {}

\* What is dispatched when no request takes the status.
LEMMA Undelivered ==
  ASSUME TypeOK, NEW p, Matched(p.op) = 0, p.op # "composition",
         _dispatch_access_payload_unlocked(p), UNCHANGED <<buffers, old, whole>>,
         p.op = "level_status" => p.val \in Int /\ -32768 <= p.val /\ p.val <= 32767,
         p.op = "lightness_status" => p.val \in Int /\ 0 <= p.val /\ p.val <= 65535,
         p.op = "vendor_data" => p.val \in Frames
  PROVE  ShownChanges
<1>1. /\ UNCHANGED <<answer, pending, composition>>
      /\ shown' = CASE p.op = "onoff_status"     -> _on_onoff_update(p.val)
                    [] p.op = "level_status"     -> _on_level_update(p.val)
                    [] p.op = "lightness_status" -> _on_level_update(p.val - 32768)
                    [] p.op = "vendor_data"      -> _on_vendor_update(parse_tuya_vendor_frame(p))
                    [] OTHER                     -> shown
      /\ UNCHANGED pc \/ _send_timestamp_response
  BY DEF _dispatch_access_payload_unlocked, parse_access_opcode
<1>2. ShownTyped(shown)
  BY DEF TypeOK, ReceiveTypes, ShownTyped
<1>3. ASSUME p.op = "onoff_status" PROVE ShownTyped(shown')
  <2>1. shown' = _on_onoff_update(p.val)
    BY <1>1, <1>3
  <2>. QED  BY <1>2, <2>1, SwitchTyped
<1>4. ASSUME p.op = "level_status" PROVE ShownTyped(shown')
  <2>1. shown' = _on_level_update(p.val)
    BY <1>1, <1>4
  <2>. QED  BY <1>2, <1>4, <2>1, LevelTyped
<1>5. ASSUME p.op = "lightness_status" PROVE ShownTyped(shown')
  <2> DEFINE w == p.val - 32768
  <2>1. w \in Int /\ -32768 <= w /\ w <= 32767
    BY <1>5
  <2>2. shown' = _on_level_update(w)
    BY <1>1, <1>5
  <2> HIDE DEF w
  <2>. QED  BY <1>2, <2>1, <2>2, LevelTyped
<1>6. ASSUME p.op = "vendor_data" PROVE ShownTyped(shown')
  <2> DEFINE f == parse_tuya_vendor_frame(p)
  <2>1. shown' = _on_vendor_update(f)
    BY <1>1, <1>6
  <2>2. f.dps = IF p.val.command = TUYA_CMD_TIMESTAMP_SYNC THEN {} ELSE p.val.dps
    BY DEF parse_tuya_vendor_frame
  <2>3. p.val.dps \subseteq {[dp_id |-> DP_ID_POWER_W, value |-> 57]}
    BY <1>6 DEF Frames
  <2> HIDE DEF f
  <2>4. f.dps \subseteq {[dp_id |-> DP_ID_POWER_W, value |-> 57]}
    BY <2>2, <2>3
  <2>. QED  BY <1>2, <2>1, <2>4, FrameTyped
<1>7. ASSUME p.op \notin {"onoff_status", "level_status", "lightness_status", "vendor_data"}
      PROVE  ShownTyped(shown')
  BY <1>1, <1>2, <1>7
<1>8. \/ UNCHANGED pc
      \/ \E s \in Senders : Op(s) = "vendor" /\ pc[s] = "idle" /\ pc' = [pc EXCEPT ![s] = "asked"]
  <2>1. CASE UNCHANGED pc
    BY <2>1
  <2>2. CASE _send_timestamp_response
    BY <2>2 DEF _send_timestamp_response
  <2>. QED  BY <1>1, <2>1, <2>2
<1>9. ShownTyped(shown')
  BY <1>3, <1>4, <1>5, <1>6, <1>7
<1>. QED  BY <1>1, <1>8, <1>9 DEF ShownChanges

LEMMA Notified ==
  ASSUME TypeOK, AirKnown, BuffersTrue, _process_notify
  PROVE  /\ air # <<>> /\ air \in Seq(ToSet(air)) /\ 1 \in DOMAIN air /\ air' = Tail(air)
         /\ UNCHANGED <<connVars, tid, seq, on, tries, transaction, number, written, calls, linkVars,
                        node, applied, faults, unanswered, late>>
         /\ UNCHANGED <<rxVars, pc>> \/ StatusTaken \/ ShownChanges \/ SegmentTaken
<1>1. /\ air # <<>> /\ air \in Seq(ToSet(air)) /\ 1 \in DOMAIN air /\ air' = Tail(air)
      /\ Head(air) = air[1]
  BY TailTyped DEF _process_notify, TypeOK, NodeTypes
<1>2. UNCHANGED <<connVars, tid, seq, on, tries, transaction, number, written, calls, linkVars,
                  node, applied, faults, unanswered, late>>
  BY DEF _process_notify
<1> DEFINE x == parse_proxy_pdu(air[1])
           t == x.body.payload
<1>3. IF ~keys \/ ~decrypt_network_pdu(x)
      THEN UNCHANGED <<rxVars, pc>>
      ELSE IF t.seg THEN _handle_segment(t)
      ELSE /\ IF decrypt_access_payload(x.seq, t)
              THEN _dispatch_access_payload_unlocked(t.body.payload)
              ELSE UNCHANGED <<answer, pending, shown, composition, pc>>
           /\ UNCHANGED <<buffers, old, whole>>
  BY <1>1 DEF _process_notify
<1> HIDE DEF x, t
<1>4. CASE UNCHANGED <<rxVars, pc>>
  BY <1>1, <1>2, <1>4
<1>5. CASE ~UNCHANGED <<rxVars, pc>>
  <2>0. KnownPDU(air[1])
    BY <1>1 DEF AirKnown
  <2>1. ASSUME NEW op \in StatusOps, NEW s \in Senders, NEW v \in Int, StatusValue(op, v),
               air[1] = StatusPDU(op, s, v)
        PROVE  StatusTaken \/ ShownChanges
    <3> DEFINE p == t.body.payload
    <3>1. /\ ~t.seg /\ decrypt_access_payload(x.seq, t)
          /\ p = [op |-> op, of |-> s, tid |-> 0, val |-> v]
      <4>1. x = parse_proxy_pdu(StatusPDU(op, s, v)) /\ t = x.body.payload
        BY <2>1 DEF x, t
      <4>. QED  BY <4>1, StatusRead
    <3>2. _dispatch_access_payload_unlocked(p) /\ UNCHANGED <<buffers, old, whole>>
      BY <1>3, <1>5, <3>1
    <3>3. p.op = op /\ p.of = s /\ p.val = v /\ p.op # "composition" /\ p.op # "vendor_data"
      BY <3>1 DEF StatusOps
    <3> HIDE DEF p
    <3>4. CASE Matched(op) = 0
      BY <2>1, <3>2, <3>3, <3>4, Undelivered DEF StatusValue
    <3>5. CASE Matched(op) # 0
      <4>1. Matched(op) \in DOMAIN pending /\ op \in {"appkey_status", "bind_status"}
        BY <3>5, MatchedFacts
      <4>2. /\ answer' = [answer EXCEPT ![pending[Matched(op)]] = s]
            /\ pending' = RemoveAt(pending, Matched(op))
            /\ UNCHANGED <<shown, composition, pc>>
        BY <3>2, <3>3, <3>5 DEF _dispatch_access_payload_unlocked, parse_access_opcode
      <4>. QED  BY <2>1, <3>2, <4>1, <4>2 DEF StatusTaken
    <3>. QED  BY <3>4, <3>5
  <2>2. ASSUME NEW q \in SeqNumbers, NEW o \in {0, 1}, air[1] = CompositionSegment(q, o)
        PROVE  SegmentTaken
    <3>1. decrypt_network_pdu(x) /\ t = SegmentOf(q, o) /\ t.seg
      <4>1. x = parse_proxy_pdu(CompositionSegment(q, o)) /\ t = x.body.payload
        BY <2>2 DEF x, t
      <4>. QED  BY <4>1, SegmentRead
    <3>2. _handle_segment(SegmentOf(q, o))
      BY <1>3, <1>5, <3>1
    <3>. QED  BY <2>2, <3>2, SegmentHandled DEF SegmentTaken
  <2>3. ASSUME NEW net \in {"ours", "other"}, NEW frame \in Frames, air[1] = VendorPDU(net, frame)
        PROVE  ShownChanges
    <3> DEFINE p == t.body.payload
    <3>1. /\ ~t.seg /\ decrypt_access_payload(x.seq, t)
          /\ p = [op |-> "vendor_data", of |-> None, tid |-> 0, val |-> frame]
      <4>1. x = parse_proxy_pdu(VendorPDU(net, frame)) /\ t = x.body.payload
        BY <2>3 DEF x, t
      <4>. QED  BY <4>1, VendorRead
    <3>2. _dispatch_access_payload_unlocked(p) /\ UNCHANGED <<buffers, old, whole>>
      BY <1>3, <1>5, <3>1
    <3>3. p.op = "vendor_data" /\ p.val = frame
      BY <3>1
    <3>4. Matched(p.op) = 0
      BY <3>3, MatchedFacts
    <3> HIDE DEF p
    <3>. QED  BY <3>2, <3>3, <3>4, Undelivered
  <2>4. StatusTaken \/ ShownChanges \/ SegmentTaken
    BY <2>0, <2>1, <2>2, <2>3 DEF KnownPDU
  <2>. QED  BY <1>1, <1>2, <2>4
<1>. QED  BY <1>4, <1>5

\* What each of the three updates shows.
LEMMA UpdatesShow ==
  ASSUME TypeOK, NEW v
  PROVE  /\ _on_onoff_update(v).is_on <=> v = 1
         /\ _on_level_update(v).is_on <=> Brightness(v) > 0
         /\ _on_onoff_update(v).power_w = shown.power_w
         /\ _on_level_update(v).power_w = shown.power_w
<1>1. DOMAIN shown = {"is_on", "brightness", "power_w"}
  BY DEF TypeOK, ReceiveTypes
<1>2. (_on_onoff_update(v).is_on <=> v = 1) /\ _on_onoff_update(v).power_w = shown.power_w
  <2> DEFINE b == v = 1
             x == [shown EXCEPT !.is_on = b]
  <2>1. _on_onoff_update(v) = x /\ (b <=> v = 1)
    BY DEF _on_onoff_update
  <2> HIDE DEF b
  <2>2. x.is_on = b /\ x.power_w = shown.power_w
    BY <1>1
  <2> HIDE DEF x
  <2>. QED  BY <2>1, <2>2
<1>3. /\ _on_level_update(v).is_on <=> Brightness(v) > 0
      /\ _on_level_update(v).power_w = shown.power_w
  <2> DEFINE w == Brightness(v)
             b == w > 0
             x == [shown EXCEPT !.brightness = w, !.is_on = b]
  <2>1. _on_level_update(v) = x
    BY DEF _on_level_update
  <2>2. b <=> Brightness(v) > 0
    OBVIOUS
  <2> HIDE DEF w, b
  <2>3. x.is_on = b /\ x.power_w = shown.power_w
    BY <1>1
  <2> HIDE DEF x
  <2>. QED  BY <2>1, <2>2, <2>3
<1>. QED  BY <1>2, <1>3

\* The frame that reports the power; a frame that asks for the time shows nothing.
PowerFrame == [command |-> TUYA_CMD_DP_DATA, dps |-> {[dp_id |-> DP_ID_POWER_W, value |-> 57]}]
PowerReport == VendorPDU("ours", PowerFrame)

LEMMA FrameShows ==
  ASSUME TypeOK, NEW p, p.val \in Frames, NEW x, x = _on_vendor_update(parse_tuya_vendor_frame(p))
  PROVE  /\ x.is_on = shown.is_on
         /\ x.power_w = IF p.val = PowerFrame THEN 57 ELSE shown.power_w
<1>1. DOMAIN shown = {"is_on", "brightness", "power_w"}
  BY DEF TypeOK, ReceiveTypes
<1> DEFINE f == parse_tuya_vendor_frame(p)
           power == {dp \in f.dps : dp.dp_id = DP_ID_POWER_W}
           d == CHOOSE dp \in power : TRUE
<1>2. x = IF power = {} THEN shown ELSE [shown EXCEPT !.power_w = d.value]
  BY DEF _on_vendor_update
<1>3. TUYA_CMD_DP_DATA # TUYA_CMD_TIMESTAMP_SYNC
  BY DEF TUYA_CMD_DP_DATA, TUYA_CMD_TIMESTAMP_SYNC
<1>4. f.dps = IF p.val.command = TUYA_CMD_TIMESTAMP_SYNC THEN {} ELSE p.val.dps
  BY DEF parse_tuya_vendor_frame
<1> HIDE DEF f
<1>5. CASE p.val = PowerFrame
  <2> DEFINE e == [dp_id |-> DP_ID_POWER_W, value |-> 57]
  <2>1. e.dp_id = DP_ID_POWER_W /\ e.value = 57
    OBVIOUS
  <2>2. p.val.command = TUYA_CMD_DP_DATA /\ p.val.dps = {e}
    BY <1>5 DEF PowerFrame
  <2> HIDE DEF e
  <2>3. f.dps = {e}
    BY <1>3, <1>4, <2>2
  <2>4. power = {e}
    BY <2>1, <2>3
  <2> HIDE DEF power
  <2>5. d = e
    BY <2>4
  <2> HIDE DEF d
  <2>6. x = [shown EXCEPT !.power_w = 57]
    BY <1>2, <2>1, <2>4, <2>5
  <2>. QED  BY <1>1, <1>5, <2>6
<1>6. CASE p.val # PowerFrame
  <2>1. p.val = [command |-> TUYA_CMD_TIMESTAMP_SYNC, dps |-> {}]
    BY <1>6 DEF Frames, PowerFrame
  <2>2. p.val.command = TUYA_CMD_TIMESTAMP_SYNC
    BY <2>1
  <2>3. power = {}
    BY <1>4, <2>2
  <2> HIDE DEF power, d
  <2>. QED  BY <1>2, <1>6, <2>3
<1>. QED  BY <1>5, <1>6

\* What a dispatched payload shows when no request takes it.
LEMMA DispatchShows ==
  ASSUME TypeOK, NEW p, Matched(p.op) = 0, _dispatch_access_payload_unlocked(p)
  PROVE  /\ p.op \in CommandStatuses => /\ shown'.is_on <=> SaysOn(p.op, p.val)
                                        /\ shown'.power_w = shown.power_w
         /\ p.op = "vendor_data" => shown' = _on_vendor_update(parse_tuya_vendor_frame(p))
         /\ p.op \notin CommandStatuses \cup {"vendor_data"} => shown' = shown
<1>1. shown' = CASE p.op = "onoff_status"     -> _on_onoff_update(p.val)
                 [] p.op = "level_status"     -> _on_level_update(p.val)
                 [] p.op = "lightness_status" -> _on_level_update(p.val - 32768)
                 [] p.op = "vendor_data"      -> _on_vendor_update(parse_tuya_vendor_frame(p))
                 [] OTHER                     -> shown
  BY DEF _dispatch_access_payload_unlocked, parse_access_opcode
<1>2. CASE p.op = "onoff_status"
  <2>1. shown' = _on_onoff_update(p.val)
    BY <1>1, <1>2
  <2>2. SaysOn(p.op, p.val) <=> p.val = 1
    BY <1>2 DEF SaysOn
  <2>. QED  BY <1>2, <2>1, <2>2, UpdatesShow DEF CommandStatuses
<1>3. CASE p.op = "level_status"
  <2>1. shown' = _on_level_update(p.val)
    BY <1>1, <1>3
  <2>2. SaysOn(p.op, p.val) <=> Brightness(p.val) > 0
    BY <1>3 DEF SaysOn
  <2>. QED  BY <1>3, <2>1, <2>2, UpdatesShow DEF CommandStatuses
<1>4. CASE p.op = "lightness_status"
  <2> DEFINE w == p.val - 32768
  <2>1. shown' = _on_level_update(w)
    BY <1>1, <1>4
  <2>2. SaysOn(p.op, p.val) <=> Brightness(w) > 0
    BY <1>4 DEF SaysOn
  <2> HIDE DEF w
  <2>. QED  BY <1>4, <2>1, <2>2, UpdatesShow DEF CommandStatuses
<1>5. CASE p.op = "vendor_data"
  <2>1. shown' = _on_vendor_update(parse_tuya_vendor_frame(p))
    BY <1>1, <1>5
  <2>. QED  BY <1>5, <2>1 DEF CommandStatuses
<1>6. CASE p.op \notin CommandStatuses \cup {"vendor_data"}
  <2>1. shown' = shown
    BY <1>1, <1>6 DEF CommandStatuses
  <2>. QED  BY <1>6, <2>1
<1>. QED  BY <1>2, <1>3, <1>4, <1>5, <1>6 DEF CommandStatuses

\* A PDU that says what the switch is.
CommandStatus(x) == \E op \in CommandStatuses, s \in Senders, v \in Int : x = StatusPDU(op, s, v)

\* What a notification shows: the switch as a status of a command says, the power as a
\* report says, and nothing new for any other PDU.
LEMMA NotifyShows ==
  ASSUME TypeOK, AirKnown, BuffersTrue, _process_notify, ~lossy'
  PROVE  /\ \A op \in CommandStatuses, s \in Senders, v \in Int :
              air[1] = StatusPDU(op, s, v) => (shown'.is_on <=> SaysOn(op, v))
         /\ ~CommandStatus(air[1]) => (shown'.is_on <=> shown.is_on)
         /\ shown'.power_w = IF air[1] = PowerReport THEN 57 ELSE shown.power_w
<1>1. air # <<>> /\ 1 \in DOMAIN air /\ Head(air) = air[1]
  BY TailTyped DEF _process_notify, TypeOK, NodeTypes
<1> DEFINE x == parse_proxy_pdu(air[1])
           t == x.body.payload
<1>2. IF ~decrypt_network_pdu(x)
      THEN UNCHANGED <<rxVars, pc>>
      ELSE IF t.seg THEN _handle_segment(t)
      ELSE IF decrypt_access_payload(x.seq, t)
           THEN _dispatch_access_payload_unlocked(t.body.payload)
           ELSE UNCHANGED <<answer, pending, shown, composition, pc>>
  BY <1>1 DEF _process_notify
<1> HIDE DEF x, t
<1>3. KnownPDU(air[1])
  BY <1>1 DEF AirKnown
<1>4. ASSUME NEW op \in StatusOps, NEW s \in Senders, NEW v \in Int, air[1] = StatusPDU(op, s, v)
      PROVE  /\ op \in CommandStatuses => (shown'.is_on <=> SaysOn(op, v))
             /\ op \notin CommandStatuses => shown'.is_on = shown.is_on
             /\ shown'.power_w = shown.power_w
  <2> DEFINE p == t.body.payload
  <2>1. /\ decrypt_network_pdu(x) /\ ~t.seg /\ decrypt_access_payload(x.seq, t)
        /\ p = [op |-> op, of |-> s, tid |-> 0, val |-> v]
    <3>1. x = parse_proxy_pdu(StatusPDU(op, s, v)) /\ t = x.body.payload
      BY <1>4 DEF x, t
    <3>. QED  BY <3>1, StatusRead
  <2>2. _dispatch_access_payload_unlocked(p) /\ p.op = op /\ p.val = v
    BY <1>2, <2>1
  <2> HIDE DEF p
  <2>3. CASE Matched(op) = 0
    <3>1. op # "vendor_data"
      BY DEF StatusOps
    <3>. QED  BY <2>2, <2>3, <3>1, DispatchShows
  <2>4. CASE Matched(op) # 0
    <3>1. op \notin CommandStatuses
      BY <2>4, MatchedFacts DEF CommandStatuses
    <3>2. shown' = shown
      BY <2>2, <2>4 DEF _dispatch_access_payload_unlocked, parse_access_opcode
    <3>. QED  BY <3>1, <3>2
  <2>. QED  BY <2>3, <2>4
<1>5. ASSUME NEW q \in SeqNumbers, NEW o \in {0, 1}, air[1] = CompositionSegment(q, o)
      PROVE  shown' = shown
  <2>1. decrypt_network_pdu(x) /\ t = SegmentOf(q, o) /\ t.seg
    <3>1. x = parse_proxy_pdu(CompositionSegment(q, o)) /\ t = x.body.payload
      BY <1>5 DEF x, t
    <3>. QED  BY <3>1, SegmentRead
  <2>2. _handle_segment(SegmentOf(q, o))
    BY <1>2, <2>1
  <2>. QED  BY <2>2, SegmentHandled
<1>6. ASSUME NEW net \in {"ours", "other"}, NEW frame \in Frames, air[1] = VendorPDU(net, frame)
      PROVE  /\ shown'.is_on = shown.is_on
             /\ shown'.power_w = IF net = "ours" /\ frame = PowerFrame THEN 57 ELSE shown.power_w
  <2> DEFINE p == t.body.payload
  <2>1. /\ decrypt_network_pdu(x) <=> net = "ours"
        /\ ~t.seg /\ decrypt_access_payload(x.seq, t)
        /\ p = [op |-> "vendor_data", of |-> None, tid |-> 0, val |-> frame]
    <3>1. x = parse_proxy_pdu(VendorPDU(net, frame)) /\ t = x.body.payload
      BY <1>6 DEF x, t
    <3>. QED  BY <3>1, VendorRead
  <2>2. p.op = "vendor_data" /\ p.val = frame
    BY <2>1
  <2>3. CASE net = "ours"
    <3>1. _dispatch_access_payload_unlocked(p)
      BY <1>2, <2>1, <2>3
    <3> HIDE DEF p
    <3>2. Matched(p.op) = 0
      BY <2>2, MatchedFacts
    <3>3. shown' = _on_vendor_update(parse_tuya_vendor_frame(p))
      BY <2>2, <3>1, <3>2, DispatchShows
    <3>. QED  BY <2>2, <2>3, <3>3, FrameShows
  <2>4. CASE net # "ours"
    <3>1. shown' = shown
      BY <1>2, <2>1, <2>4 DEF rxVars
    <3>. QED  BY <2>4, <3>1
  <2>. QED  BY <2>3, <2>4
<1>7. /\ \A op, s, v : StatusPDU(op, s, v) = PowerReport => op \notin StatusOps
      /\ \A q, o, op, s, v : CompositionSegment(q, o) # StatusPDU(op, s, v)
      /\ \A q, o : CompositionSegment(q, o) # PowerReport
      /\ \A net, frame, op, s, v : op \in StatusOps => VendorPDU(net, frame) # StatusPDU(op, s, v)
  BY StatusesDiffer, SegmentsDiffer DEF PowerReport, StatusOps
<1>8. CommandStatuses \subseteq StatusOps
  BY DEF CommandStatuses, StatusOps
<1>9. CASE \E op \in StatusOps, s \in Senders, v \in Int : air[1] = StatusPDU(op, s, v)
  <2>1. PICK op \in StatusOps, s \in Senders, v \in Int : air[1] = StatusPDU(op, s, v)
    BY <1>9
  <2>2. air[1] # PowerReport
    BY <1>7, <2>1
  <2>3. ASSUME NEW op2, NEW s2, NEW v2, air[1] = StatusPDU(op2, s2, v2)
        PROVE  op2 = op /\ v2 = v
    <3>1. StatusPDU(op2, s2, v2) = StatusPDU(op, s, v)
      BY <2>1, <2>3
    <3>. QED  BY <3>1, StatusesDiffer
  <2>4. op \in CommandStatuses <=> CommandStatus(air[1])
    BY <2>1, <2>3 DEF CommandStatus
  <2>. QED  BY <1>4, <2>1, <2>2, <2>3, <2>4
<1>10. CASE \E q \in SeqNumbers, o \in {0, 1} : air[1] = CompositionSegment(q, o)
  <2>1. shown' = shown
    BY <1>5, <1>10
  <2>2. air[1] # PowerReport /\ \A op, s, v : air[1] # StatusPDU(op, s, v)
    BY <1>7, <1>10
  <2>. QED  BY <2>1, <2>2 DEF CommandStatus
<1>11. CASE \E net \in {"ours", "other"}, frame \in Frames : air[1] = VendorPDU(net, frame)
  <2>1. PICK net \in {"ours", "other"}, frame \in Frames : air[1] = VendorPDU(net, frame)
    BY <1>11
  <2>2. \A op, s, v : op \in StatusOps => air[1] # StatusPDU(op, s, v)
    BY <1>7, <2>1
  <2>3. air[1] = PowerReport <=> net = "ours" /\ frame = PowerFrame
    BY <2>1, VendorsDiffer DEF PowerReport
  <2>. QED  BY <1>6, <1>8, <2>1, <2>2, <2>3 DEF CommandStatus
<1>. QED  BY <1>3, <1>9, <1>10, <1>11 DEF KnownPDU

-----------------------------------------------------------------------------
(* The steps keep the types.                                               *)

USE BoundFacts

\* connect() and disconnect(): no more attempts than connect() makes.
LEMMA ConnStepTypes == IInv /\ [Next]_vars => ConnTypes'
<1> SUFFICES ASSUME IInv, [Next]_vars PROVE ConnTypes'
  OBVIOUS
<1> USE DEF connVars, sendVars, rxVars, linkVars, nodeVars, history
<1>f. ASSUME UNCHANGED <<call, client, connecting, attempt, mine, asked, stopping, stopOn>>
      PROVE  ConnTypes'
  BY <1>f DEF IInv, TypeOK, ConnTypes
<1>1. ASSUME connect PROVE ConnTypes'
  BY <1>1 DEF connect, _load_keys, IInv, TypeOK, ConnTypes
<1>2. ASSUME _resolve_proxy_characteristics PROVE ConnTypes'
  BY <1>2 DEF _resolve_proxy_characteristics, Opened, AttemptFails, Fault, IInv, TypeOK,
     ConnTypes
<1>3. ASSUME request_composition_data PROVE ConnTypes'
  BY <1>3 DEF request_composition_data, ConnectEnds, IInv, TypeOK, ConnTypes, SendTypes
<1>4. ASSUME CompositionAsked PROVE ConnTypes'
  BY <1>4 DEF CompositionAsked, ConnectEnds, AttemptFails, FaultIfUp, Fault, NoFault,
     IInv, TypeOK, ConnTypes
<1>5. ASSUME AttemptClosed PROVE ConnTypes'
  BY <1>5 DEF AttemptClosed, Down, IInv, TypeOK, ConnTypes
<1>6. ASSUME NextAttempt PROVE ConnTypes'
  BY <1>6 DEF NextAttempt, ConnectEnds, IInv, TypeOK, ConnTypes
<1>7. ASSUME ConnectCancelled PROVE ConnTypes'
  BY <1>7 DEF ConnectCancelled, ConnectEnds, Fault, IInv, TypeOK, ConnTypes
<1>8. ASSUME disconnect PROVE ConnTypes'
  BY <1>8 DEF disconnect, Fault, IInv, TypeOK, ConnTypes
<1>9. ASSUME Unsubscribed PROVE ConnTypes'
  BY <1>9 DEF Unsubscribed, IInv, TypeOK, ConnTypes
<1>10. ASSUME Closed PROVE ConnTypes'
  BY <1>10 DEF Closed, Down, IInv, TypeOK, ConnTypes
<1>11. ASSUME NEW c \in Sessions, _on_ble_disconnect(c) PROVE ConnTypes'
  BY <1>11 DEF _on_ble_disconnect, IInv, TypeOK, ConnTypes
<1>12. ASSUME NEW s \in Senders, Send(s) \/ Written(s) \/ WriteFails(s) \/ SendAgain(s)
            \/ Resumed(s) \/ TimedOut(s)
      PROVE  ConnTypes'
  BY <1>12, <1>f DEF Send, _next_seqs, Written, Ends, Leaves, send_command_with_retry, WriteFails, SendAgain, NextTry,
     Resumed, TimedOut, Fault
<1>13. ASSUME NEW c \in Sessions, LinkLost(c) PROVE ConnTypes'
  BY <1>13, <1>f DEF LinkLost, Down, Fault
<1>14. ASSUME NEW o \in {0, 1}, SegmentRepeated(o) PROVE ConnTypes'
  BY <1>14, <1>f DEF SegmentRepeated, Fault
<1>15. ASSUME NEW net \in {"ours", "other"}, NEW frame \in Frames, UnsolicitedHeard(net,
            frame)
      PROVE  ConnTypes'
  BY <1>15, <1>f DEF UnsolicitedHeard, Fault
<1>16. ASSUME PDULost \/ _process_notify PROVE ConnTypes'
  BY <1>16, <1>f DEF PDULost, Fault, _process_notify
<1>17. ASSUME NEW z \in DOMAIN buffers, BufferAges(z) PROVE ConnTypes'
  BY <1>17, <1>f DEF BufferAges, Fault
<1>18. CASE UNCHANGED vars
  BY <1>18, <1>f DEF vars
<1>. QED  BY <1>1, <1>2, <1>3, <1>4, <1>5, <1>6, <1>7, <1>8, <1>9, <1>10, <1>11, <1>12,
     <1>13, <1>14, <1>15, <1>16, <1>17, <1>18 DEF Next, ConnStep, SenderStep, Radio,
     send_power, send_level, send_vendor_command, send_config_appkey_add,
     send_config_model_app_bind

\* The end of a send method clears its locals.
LEMMA LeavesTypes ==
  ASSUME TypeOK, NEW s \in Senders, NEW next \in {"idle", "done"}, Leaves(s, next)
  PROVE  /\ pc' \in [Senders -> {"idle", "asked", "writing", "backoff", "waiting", "done"}]
         /\ on' \in [Senders -> SessionOrNone] /\ tries' \in [Senders -> Tries]
         /\ number' \in [Senders -> Nat] /\ transaction' \in [Senders -> TransactionIds]
         /\ calls' \in [Senders -> Calls]
         /\ written' \in [Senders -> 0..2] /\ \A t \in Senders : written'[t] <= written[t]
BY DEF Leaves, TypeOK, SendTypes

LEMMA EndsTypes ==
  ASSUME TypeOK, NEW s \in Senders, Ends(s)
  PROVE  /\ pc' \in [Senders -> {"idle", "asked", "writing", "backoff", "waiting", "done"}]
         /\ on' \in [Senders -> SessionOrNone] /\ tries' \in [Senders -> Tries]
         /\ number' \in [Senders -> Nat] /\ transaction' \in [Senders -> TransactionIds]
         /\ calls' \in [Senders -> Calls]
         /\ written' \in [Senders -> 0..2] /\ \A t \in Senders : written'[t] <= written[t]
BY LeavesTypes DEF Ends

\* What a call that raised may be followed by.
LEMMA RetryFacts ==
  ASSUME NEW s \in Senders, NEW n, NEW next, next = send_command_with_retry(s, n)
  PROVE  /\ next \in {"idle", "done"}
         /\ next = "idle" => Retried(s) /\ n < DEFAULT_MAX_COMMAND_RETRIES
BY DEF send_command_with_retry

LEMMA FailsLeaves ==
  ASSUME NEW s \in Senders, WriteFails(s), ~MayRetry(s)
  PROVE  \E next \in {"idle", "done"} :
           /\ Leaves(s, next)
           /\ next = "idle" => Retried(s) /\ calls[s] < DEFAULT_MAX_COMMAND_RETRIES
BY RetryFacts DEF WriteFails

\* The send methods: no more attempts than they make.
LEMMA SendStepTypes == IInv /\ [Next]_vars => SendTypes'
<1> SUFFICES ASSUME IInv, [Next]_vars PROVE SendTypes'
  OBVIOUS
<1> USE DEF connVars, sendVars, rxVars, linkVars, nodeVars, history
<1>f. ASSUME UNCHANGED <<call, tid, seq, pc, on, tries, transaction, number, written, calls>>
      PROVE  SendTypes'
  BY <1>f DEF IInv, TypeOK, SendTypes, Segments, Op
<1>1. ASSUME request_composition_data PROVE SendTypes'
  BY <1>1 DEF request_composition_data, IInv, TypeOK, SendTypes, Segments, Op
<1>2. ASSUME NEW s \in Senders, Send(s) PROVE SendTypes'
  <2>1. Segments(s) \in Nat /\ \A t \in Senders : Segments(t)' = Segments(t)
    BY <1>2, CallFacts DEF Send, Segments, Op, IInv, TypeOK, ConnTypes
  <2>a. calls' \in [Senders -> Calls]
    <3>1. calls' = [calls EXCEPT ![s] = @ + 1] /\ pc[s] \in {"idle", "asked"}
      BY <1>2 DEF Send
    <3>2. calls[s] \in Calls /\ calls[s] < DEFAULT_MAX_COMMAND_RETRIES
      BY <3>1 DEF IInv, TypeOK, SendTypes, SenderStage
    <3>3. calls[s] + 1 \in Calls
      BY <3>2, RetriesCounted
    <3>. QED  BY <3>1, <3>3 DEF IInv, TypeOK, SendTypes
  <2>2. CASE client = 0 \/ ~keys
    <3>1. PICK next : /\ next = send_command_with_retry(s, calls[s] + 1)
                      /\ pc' = [pc EXCEPT ![s] = next]
      BY <1>2, <2>2 DEF Send
    <3>2. pc' \in [Senders -> {"idle", "asked", "writing", "backoff", "waiting", "done"}]
      BY <3>1, RetryFacts DEF IInv, TypeOK, SendTypes
    <3>3. UNCHANGED <<tid, seq, on, tries, transaction, number, written>>
      BY <1>2, <2>2 DEF Send
    <3>. QED  BY <2>1, <2>a, <3>2, <3>3 DEF IInv, TypeOK, SendTypes
  <2>3. CASE ~(client = 0 \/ ~keys)
    <3>1. client \in SessionOrNone
      BY DEF IInv, TypeOK, ConnTypes
    <3>2. tid' \in TransactionIds /\ transaction' \in [Senders -> TransactionIds]
      <4>1. \/ UNCHANGED <<tid, transaction>>
            \/ tid' = (tid + 1) % 256 /\ transaction' = [transaction EXCEPT ![s] = tid]
        BY <1>2, <2>3 DEF Send
      <4>2. tid \in TransactionIds /\ transaction \in [Senders -> TransactionIds]
        BY DEF IInv, TypeOK, SendTypes
      <4>. QED  BY <4>1, <4>2
    <3>3. seq' \in Nat /\ number' \in [Senders -> Nat]
      <4>1. seq' = seq + Segments(s) /\ number' = [number EXCEPT ![s] = seq]
        BY <1>2, <2>3 DEF Send, _next_seqs
      <4>2. seq \in Nat /\ number \in [Senders -> Nat]
        BY DEF IInv, TypeOK, SendTypes
      <4>. QED  BY <2>1, <4>1, <4>2
    <3>4. /\ pc' = [pc EXCEPT ![s] = "writing"] /\ on' = [on EXCEPT ![s] = client]
          /\ tries' = [tries EXCEPT ![s] = 1] /\ written' = written
      BY <1>2, <2>3 DEF Send
    <3>. QED  BY <2>1, <2>a, <3>1, <3>2, <3>3, <3>4 DEF IInv, TypeOK, SendTypes
  <2>. QED  BY <2>2, <2>3
<1>3. ASSUME NEW s \in Senders, Written(s) PROVE SendTypes'
  <2>1. \A t \in Senders : Segments(t)' = Segments(t) /\ Segments(t) \in {1, 2}
    BY <1>3, CallFacts DEF Written, Segments, Op, IInv, TypeOK, ConnTypes
  <2>2. CASE Awaits(s)
    <3>1. written[s] + 1 <= Segments(s) /\ written[s] + 1 \in 0..2 /\ number[s] + 1 \in Nat
      BY <1>3, <2>1, <2>2 DEF Written, IInv, SenderStage, TypeOK, SendTypes
    <3>. QED  BY <1>3, <2>1, <2>2, <3>1 DEF Written, IInv, TypeOK, SendTypes
  <2>3. CASE ~Awaits(s)
    BY <1>3, <2>1, <2>3, EndsTypes DEF Written, IInv, TypeOK, SendTypes
  <2>. QED  BY <2>2, <2>3
<1>4. ASSUME NEW s \in Senders, WriteFails(s) PROVE SendTypes'
  <2>1. \A t \in Senders : Segments(t)' = Segments(t) /\ Segments(t) \in {1, 2}
    BY <1>4, CallFacts DEF WriteFails, Segments, Op, IInv, TypeOK, ConnTypes
  <2>2. UNCHANGED <<tid, seq>>
    BY <1>4 DEF WriteFails
  <2>3. CASE MayRetry(s)
    BY <1>4, <2>1, <2>3 DEF WriteFails, IInv, TypeOK, SendTypes
  <2>4. CASE ~MayRetry(s)
    <3>1. PICK next \in {"idle", "done"} : Leaves(s, next)
      BY <1>4, <2>4, FailsLeaves
    <3>. QED  BY <2>1, <2>2, <3>1, LeavesTypes DEF IInv, TypeOK, SendTypes
  <2>. QED  BY <2>3, <2>4
<1>5. ASSUME NEW s \in Senders, SendAgain(s) PROVE SendTypes'
  <2>1. \A t \in Senders : Segments(t)' = Segments(t) /\ Segments(t) \in {1, 2}
    BY <1>5, CallFacts DEF SendAgain, Segments, Op, IInv, TypeOK, ConnTypes
  <2>2. CASE client = 0 \/ ~keys
    BY <1>5, <2>1, <2>2, EndsTypes DEF SendAgain, IInv, TypeOK, SendTypes
  <2>3. CASE ~(client = 0 \/ ~keys)
    <3>1. Retried(s) => tries[s] + 1 \in Tries
      BY <1>5, CallFacts DEF SendAgain, IInv, TypeOK, ConnTypes, SendTypes, SenderStage, MayRetry
    <3>. QED  BY <1>5, <2>1, <2>3, <3>1 DEF SendAgain, NextTry, IInv, TypeOK, ConnTypes,
                                            SendTypes
  <2>. QED  BY <2>2, <2>3
<1>6. ASSUME NEW s \in Senders, Resumed(s) PROVE SendTypes'
  <2>1. \A t \in Senders : Segments(t)' = Segments(t) /\ Segments(t) \in {1, 2}
    BY <1>6, CallFacts DEF Resumed, Segments, Op, IInv, TypeOK, ConnTypes
  <2>. QED  BY <1>6, <2>1, EndsTypes DEF Resumed, IInv, TypeOK, SendTypes
<1>7. ASSUME NEW s \in Senders, TimedOut(s) PROVE SendTypes'
  <2>1. \A t \in Senders : Segments(t)' = Segments(t) /\ Segments(t) \in {1, 2}
    BY <1>7, CallFacts DEF TimedOut, Segments, Op, IInv, TypeOK, ConnTypes
  <2>. QED  BY <1>7, <2>1, EndsTypes DEF TimedOut, IInv, TypeOK, SendTypes
<1>8. ASSUME _process_notify PROVE SendTypes'
  <2>1. \A t \in Senders : Segments(t)' = Segments(t)
    BY <1>8, Notified DEF Segments, Op, IInv
  <2>2. pc' \in [Senders -> {"idle", "asked", "writing", "backoff", "waiting", "done"}]
    BY <1>8, Notified DEF IInv, TypeOK, SendTypes, StatusTaken, ShownChanges, SegmentTaken
  <2>3. UNCHANGED <<tid, seq, on, tries, transaction, number, written, calls>>
    BY <1>8, Notified DEF IInv
  <2>. QED  BY <2>1, <2>2, <2>3 DEF IInv, TypeOK, SendTypes
<1>9. ASSUME connect \/ _resolve_proxy_characteristics \/ CompositionAsked \/
            AttemptClosed \/ NextAttempt \/ ConnectCancelled \/ disconnect
      PROVE  SendTypes'
  BY <1>9, <1>f DEF connect, _load_keys, _resolve_proxy_characteristics, Opened,
     AttemptFails, Fault, CompositionAsked, ConnectEnds, FaultIfUp, NoFault,
     AttemptClosed, Down, NextAttempt, ConnectCancelled, disconnect
<1>10. ASSUME Unsubscribed \/ Closed \/ PDULost PROVE SendTypes'
  BY <1>10, <1>f DEF Unsubscribed, Closed, Down, PDULost, Fault
<1>11. ASSUME NEW c \in Sessions, LinkLost(c) \/ _on_ble_disconnect(c) PROVE SendTypes'
  BY <1>11, <1>f DEF LinkLost, Down, Fault, _on_ble_disconnect
<1>12. ASSUME NEW o \in {0, 1}, SegmentRepeated(o) PROVE SendTypes'
  BY <1>12, <1>f DEF SegmentRepeated, Fault
<1>13. ASSUME NEW net \in {"ours", "other"}, NEW frame \in Frames, UnsolicitedHeard(net,
            frame)
      PROVE  SendTypes'
  BY <1>13, <1>f DEF UnsolicitedHeard, Fault
<1>14. ASSUME NEW z \in DOMAIN buffers, BufferAges(z) PROVE SendTypes'
  BY <1>14, <1>f DEF BufferAges, Fault
<1>15. CASE UNCHANGED vars
  BY <1>15, <1>f DEF vars
<1>. QED  BY <1>1, <1>2, <1>3, <1>4, <1>5, <1>6, <1>7, <1>8, <1>9, <1>10, <1>11, <1>12,
     <1>13, <1>14, <1>15 DEF Next, ConnStep, SenderStep, Radio, send_power, send_level,
     send_vendor_command, send_config_appkey_add, send_config_model_app_bind

\* The registrations are of requests, each once: what is added, and what is dropped.
Requests == {s \in Senders : Awaits(s)}

LEMMA Registered ==
  ASSUME TypeOK, SenderStage, NEW s \in Senders, pc[s] \in {"idle", "asked"}, Awaits(s)
  PROVE  /\ Append(pending, s) \in Seq(Requests) /\ IsInjective(Append(pending, s))
         /\ ToSet(Append(pending, s)) = ToSet(pending) \cup {s}
<1>1. pending \in Seq(Requests) /\ IsInjective(pending) /\ s \in Requests
  BY DEF TypeOK, ReceiveTypes, Requests
<1>2. s \notin ToSet(pending)
  BY DEF SenderStage
<1>. QED  BY <1>1, <1>2, AppendedOnce

LEMMA Unregistered ==
  ASSUME TypeOK, NEW s \in Senders, Unregister(s)
  PROVE  /\ pending' \in Seq(Requests) /\ IsInjective(pending')
         /\ ToSet(pending') = ToSet(pending) \ {s}
<1>1. pending \in Seq(Requests) /\ IsInjective(pending)
  BY DEF TypeOK, ReceiveTypes, Requests
<1>2. CASE s \notin ToSet(pending)
  BY <1>1, <1>2 DEF Unregister
<1>3. CASE s \in ToSet(pending)
  <2>1. PICK i \in DOMAIN pending : pending[i] = s /\ pending' = RemoveAt(pending, i)
    BY <1>3 DEF Unregister
  <2>. QED  BY <1>1, <2>1, Removed, RemovedOnce
<1>. QED  BY <1>2, <1>3

LEMMA Taken ==
  ASSUME TypeOK, StatusTaken
  PROVE  /\ pending' \in Seq(Requests) /\ IsInjective(pending')
         /\ ToSet(pending') \subseteq ToSet(pending)
         /\ answer' \in [Senders -> Senders \cup {None}]
<1>1. pending \in Seq(Requests) /\ IsInjective(pending) /\ Requests \subseteq Senders
  BY DEF TypeOK, ReceiveTypes, Requests
<1>2. PICK i \in DOMAIN pending, s \in Senders :
         /\ answer' = [answer EXCEPT ![pending[i]] = s]
         /\ pending' = RemoveAt(pending, i)
  BY DEF StatusTaken
<1>3. pending[i] \in Senders
  BY <1>1
<1>4. answer' \in [Senders -> Senders \cup {None}]
  BY <1>2, <1>3 DEF TypeOK, ReceiveTypes
<1>. QED  BY <1>1, <1>2, <1>4, Removed, RemovedOnce

\* Registrations, buffers and what is shown.
LEMMA ReceiveStepTypes == IInv /\ [Next]_vars => ReceiveTypes'
<1> SUFFICES ASSUME IInv, [Next]_vars PROVE ReceiveTypes'
  OBVIOUS
<1> USE DEF connVars, sendVars, rxVars, linkVars, nodeVars, history
<1>f. ASSUME UNCHANGED <<call, pending, answer, buffers, old, composition, shown, whole>>
      PROVE  ReceiveTypes'
  BY <1>f DEF IInv, TypeOK, ReceiveTypes, Awaits, Op
<1>1. ASSUME NEW s \in Senders, Send(s) PROVE ReceiveTypes'
  <2>1. call' = call /\ UNCHANGED <<answer, buffers, old, composition, whole, shown>>
    BY <1>1 DEF Send
  <2>2. pc[s] \in {"idle", "asked"}
    BY <1>1 DEF Send
  <2>3. UNCHANGED pending \/ (Awaits(s) /\ pending' = Append(pending, s))
    BY <1>1 DEF Send
  <2>4. pending' \in Seq(Requests) /\ IsInjective(pending')
    BY <2>2, <2>3, Registered DEF IInv, TypeOK, ReceiveTypes, Requests
  <2>. QED  BY <2>1, <2>4 DEF IInv, TypeOK, ReceiveTypes, Requests, Awaits, Op
<1>2. ASSUME NEW s \in Senders, Written(s) PROVE ReceiveTypes'
  <2>1. call' = call /\ UNCHANGED <<answer, buffers, old, composition, whole, shown>>
    BY <1>2 DEF Written
  <2>2. UNCHANGED pending \/ Unregister(s)
    BY <1>2 DEF Written, Ends, Leaves
  <2>3. pending' \in Seq(Requests) /\ IsInjective(pending')
    BY <2>2, Unregistered DEF IInv, TypeOK, ReceiveTypes, Requests
  <2>. QED  BY <2>1, <2>3 DEF IInv, TypeOK, ReceiveTypes, Requests, Awaits, Op
<1>3. ASSUME NEW s \in Senders, WriteFails(s) PROVE ReceiveTypes'
  <2>1. call' = call /\ UNCHANGED <<answer, buffers, old, composition, whole, shown>>
    BY <1>3 DEF WriteFails
  <2>2. UNCHANGED pending \/ Unregister(s)
    BY <1>3 DEF WriteFails, Leaves
  <2>3. pending' \in Seq(Requests) /\ IsInjective(pending')
    BY <2>2, Unregistered DEF IInv, TypeOK, ReceiveTypes, Requests
  <2>. QED  BY <2>1, <2>3 DEF IInv, TypeOK, ReceiveTypes, Requests, Awaits, Op
<1>4. ASSUME NEW s \in Senders, SendAgain(s) PROVE ReceiveTypes'
  <2>1. call' = call /\ UNCHANGED <<answer, buffers, old, composition, whole, shown>>
    BY <1>4 DEF SendAgain
  <2>2. UNCHANGED pending \/ Unregister(s)
    BY <1>4 DEF SendAgain, Ends, Leaves
  <2>3. pending' \in Seq(Requests) /\ IsInjective(pending')
    BY <2>2, Unregistered DEF IInv, TypeOK, ReceiveTypes, Requests
  <2>. QED  BY <2>1, <2>3 DEF IInv, TypeOK, ReceiveTypes, Requests, Awaits, Op
<1>5. ASSUME NEW s \in Senders, Resumed(s) PROVE ReceiveTypes'
  <2>1. call' = call /\ UNCHANGED <<answer, buffers, old, composition, whole, shown>>
    BY <1>5 DEF Resumed
  <2>2. UNCHANGED pending \/ Unregister(s)
    BY <1>5 DEF Resumed, Ends, Leaves
  <2>3. pending' \in Seq(Requests) /\ IsInjective(pending')
    BY <2>2, Unregistered DEF IInv, TypeOK, ReceiveTypes, Requests
  <2>. QED  BY <2>1, <2>3 DEF IInv, TypeOK, ReceiveTypes, Requests, Awaits, Op
<1>6. ASSUME NEW s \in Senders, TimedOut(s) PROVE ReceiveTypes'
  <2>1. call' = call /\ UNCHANGED <<answer, buffers, old, composition, whole, shown>>
    BY <1>6 DEF TimedOut
  <2>2. UNCHANGED pending \/ Unregister(s)
    BY <1>6 DEF TimedOut, Ends, Leaves
  <2>3. pending' \in Seq(Requests) /\ IsInjective(pending')
    BY <2>2, Unregistered DEF IInv, TypeOK, ReceiveTypes, Requests
  <2>. QED  BY <2>1, <2>3 DEF IInv, TypeOK, ReceiveTypes, Requests, Awaits, Op
<1>7. ASSUME _process_notify PROVE ReceiveTypes'
  <2>1. call' = call
    BY <1>7, Notified DEF IInv
  <2>2. CASE UNCHANGED <<rxVars, pc>>
    BY <2>1, <2>2 DEF IInv, TypeOK, ReceiveTypes, Awaits, Op
  <2>3. CASE StatusTaken
    <3>1. /\ pending' \in Seq(Requests) /\ IsInjective(pending')
          /\ answer' \in [Senders -> Senders \cup {None}]
      BY <2>3, Taken DEF IInv
    <3>2. UNCHANGED <<buffers, old, composition, shown, whole>>
      BY <2>3 DEF StatusTaken
    <3>. QED  BY <2>1, <3>1, <3>2 DEF IInv, TypeOK, ReceiveTypes, Requests, Awaits, Op
  <2>4. CASE ShownChanges
    BY <2>1, <2>4 DEF ShownChanges, ShownTyped, IInv, TypeOK, ReceiveTypes, Awaits, Op
  <2>5. CASE SegmentTaken
    <3>1. PICK q \in SeqNumbers, o \in {0, 1} : Completed(q, o) \/ Stored(q, o)
      BY <2>5 DEF SegmentTaken
    <3>2. UNCHANGED <<pending, answer, shown>> /\ old' = {}
      BY <2>5 DEF SegmentTaken
    <3>3. q % MESH_SEQ_ZERO \in SeqZeros
      BY SeqZeroFacts
    <3>4. /\ DOMAIN buffers' \subseteq DOMAIN buffers \cup {q % MESH_SEQ_ZERO}
          /\ composition' = composition \/ composition' = q
          /\ whole' \in [SeqNumbers -> SUBSET {0, 1}]
      <4>1. whole \in [SeqNumbers -> SUBSET {0, 1}]
        BY DEF IInv, TypeOK, ReceiveTypes
      <4>2. CASE Completed(q, o)
        BY <4>1, <4>2 DEF Completed
      <4>3. CASE Stored(q, o)
        BY <4>1, <4>3 DEF Stored
      <4>. QED  BY <3>1, <4>2, <4>3
    <3>. QED  BY <2>1, <3>2, <3>3, <3>4 DEF IInv, TypeOK, ReceiveTypes, Awaits, Op
  <2>. QED  BY <1>7, <2>2, <2>3, <2>4, <2>5, Notified DEF IInv
<1>8. ASSUME NEW z \in DOMAIN buffers, BufferAges(z) PROVE ReceiveTypes'
  BY <1>8 DEF BufferAges, Fault, IInv, TypeOK, ReceiveTypes, Awaits, Op
<1>9. ASSUME connect \/ _resolve_proxy_characteristics \/ request_composition_data \/
            CompositionAsked \/ AttemptClosed \/ NextAttempt \/ ConnectCancelled
      PROVE  ReceiveTypes'
  BY <1>9, <1>f DEF connect, _load_keys, _resolve_proxy_characteristics, Opened,
     AttemptFails, Fault, request_composition_data, ConnectEnds, FaultIfUp, NoFault,
     CompositionAsked, AttemptClosed, Down, NextAttempt, ConnectCancelled
<1>10. ASSUME disconnect \/ Unsubscribed \/ Closed \/ PDULost PROVE ReceiveTypes'
  BY <1>10, <1>f DEF disconnect, Fault, Unsubscribed, Closed, Down, PDULost
<1>11. ASSUME NEW c \in Sessions, LinkLost(c) \/ _on_ble_disconnect(c)
      PROVE  ReceiveTypes'
  BY <1>11, <1>f DEF LinkLost, Down, Fault, _on_ble_disconnect
<1>12. ASSUME NEW o \in {0, 1}, SegmentRepeated(o) PROVE ReceiveTypes'
  BY <1>12, <1>f DEF SegmentRepeated, Fault
<1>13. ASSUME NEW net \in {"ours", "other"}, NEW frame \in Frames, UnsolicitedHeard(net,
            frame)
      PROVE  ReceiveTypes'
  BY <1>13, <1>f DEF UnsolicitedHeard, Fault
<1>14. CASE UNCHANGED vars
  BY <1>14, <1>f DEF vars
<1>. QED  BY <1>1, <1>2, <1>3, <1>4, <1>5, <1>6, <1>7, <1>8, <1>9, <1>10, <1>11, <1>12,
     <1>13, <1>14 DEF Next, ConnStep, SenderStep, Radio, send_power, send_level,
     send_vendor_command, send_config_appkey_add, send_config_model_app_bind

\* A link that goes down.
LEMMA DownTypes ==
  ASSUME TypeOK, NEW c \in Sessions, Down(c)
  PROVE  /\ link' \in [Sessions -> {"none", "up", "down"}]
         /\ unreported' \subseteq Sessions /\ subscribed' \subseteq Sessions
         /\ air' = air \/ air' = <<>>
BY DEF Down, TypeOK, LinkTypes

\* The faults are counted.
LEMMA FaultsStep == IInv /\ [Next]_vars => (faults \in FaultCounts)'
<1> SUFFICES ASSUME IInv, [Next]_vars PROVE (faults \in FaultCounts)'
  OBVIOUS
<1> USE DEF connVars, sendVars, rxVars, linkVars, nodeVars, history
<1>f. ASSUME UNCHANGED <<faults>> PROVE (faults \in FaultCounts)'
  BY <1>f DEF IInv, TypeOK, LinkTypes
<1>1. ASSUME _resolve_proxy_characteristics PROVE (faults \in FaultCounts)'
  <2>1. faults \in FaultCounts
    BY DEF IInv, TypeOK, LinkTypes
  <2>2. UNCHANGED faults \/ Fault
    BY <1>1 DEF _resolve_proxy_characteristics, FaultIfUp, NoFault
  <2>. QED  BY <2>1, <2>2 DEF Fault
<1>2. ASSUME request_composition_data PROVE (faults \in FaultCounts)'
  <2>1. faults \in FaultCounts
    BY DEF IInv, TypeOK, LinkTypes
  <2>2. UNCHANGED faults \/ Fault
    BY <1>2 DEF request_composition_data, FaultIfUp, NoFault
  <2>. QED  BY <2>1, <2>2 DEF Fault
<1>3. ASSUME CompositionAsked PROVE (faults \in FaultCounts)'
  <2>1. faults \in FaultCounts
    BY DEF IInv, TypeOK, LinkTypes
  <2>2. UNCHANGED faults \/ Fault
    BY <1>3 DEF CompositionAsked, FaultIfUp, NoFault
  <2>. QED  BY <2>1, <2>2 DEF Fault
<1>4. ASSUME ConnectCancelled PROVE (faults \in FaultCounts)'
  BY <1>4 DEF ConnectCancelled, ConnectEnds, Fault, IInv, TypeOK, LinkTypes
<1>5. ASSUME disconnect PROVE (faults \in FaultCounts)'
  BY <1>5 DEF disconnect, Fault, IInv, TypeOK, LinkTypes
<1>6. ASSUME NEW s \in Senders, Written(s) PROVE (faults \in FaultCounts)'
  <2>1. faults \in FaultCounts
    BY DEF IInv, TypeOK, LinkTypes
  <2>2. UNCHANGED faults \/ Fault
    BY <1>6 DEF Written, FaultIfUp, NoFault
  <2>. QED  BY <2>1, <2>2 DEF Fault
<1>7. ASSUME NEW s \in Senders, WriteFails(s) PROVE (faults \in FaultCounts)'
  <2>1. faults \in FaultCounts
    BY DEF IInv, TypeOK, LinkTypes
  <2>2. UNCHANGED faults \/ Fault
    BY <1>7 DEF WriteFails, FaultIfUp, NoFault
  <2>. QED  BY <2>1, <2>2 DEF Fault
<1>8. ASSUME NEW s \in Senders, TimedOut(s) PROVE (faults \in FaultCounts)'
  BY <1>8 DEF TimedOut, Ends, Leaves, send_command_with_retry, Fault, IInv, TypeOK, LinkTypes
<1>9. ASSUME NEW c \in Sessions, LinkLost(c) PROVE (faults \in FaultCounts)'
  BY <1>9 DEF LinkLost, Down, Fault, IInv, TypeOK, LinkTypes
<1>10. ASSUME NEW o \in {0, 1}, SegmentRepeated(o) PROVE (faults \in FaultCounts)'
  BY <1>10 DEF SegmentRepeated, Fault, IInv, TypeOK, LinkTypes
<1>11. ASSUME NEW net \in {"ours", "other"}, NEW frame \in Frames, UnsolicitedHeard(net,
            frame)
      PROVE  (faults \in FaultCounts)'
  BY <1>11 DEF UnsolicitedHeard, Fault, IInv, TypeOK, LinkTypes
<1>12. ASSUME PDULost PROVE (faults \in FaultCounts)'
  BY <1>12 DEF PDULost, Fault, IInv, TypeOK, LinkTypes
<1>13. ASSUME _process_notify PROVE (faults \in FaultCounts)'
  BY <1>13, Notified DEF IInv, TypeOK, LinkTypes
<1>14. ASSUME NEW z \in DOMAIN buffers, BufferAges(z) PROVE (faults \in FaultCounts)'
  BY <1>14 DEF BufferAges, Fault, IInv, TypeOK, LinkTypes
<1>15. ASSUME connect \/ AttemptClosed \/ NextAttempt \/ Unsubscribed \/ Closed
      PROVE  (faults \in FaultCounts)'
  BY <1>15, <1>f DEF connect, _load_keys, AttemptClosed, Down, NextAttempt, ConnectEnds,
     Unsubscribed, Closed
<1>16. ASSUME NEW s \in Senders, Send(s) \/ SendAgain(s) \/ Resumed(s)
      PROVE  (faults \in FaultCounts)'
  BY <1>16, <1>f DEF Send, _next_seqs, SendAgain, Ends, Leaves, send_command_with_retry, NextTry, Resumed
<1>17. ASSUME NEW c \in Sessions, _on_ble_disconnect(c) PROVE (faults \in FaultCounts)'
  BY <1>17, <1>f DEF _on_ble_disconnect
<1>18. CASE UNCHANGED vars
  BY <1>18, <1>f DEF vars
<1>. QED  BY <1>1, <1>2, <1>3, <1>4, <1>5, <1>6, <1>7, <1>8, <1>9, <1>10, <1>11, <1>12,
     <1>13, <1>14, <1>15, <1>16, <1>17, <1>18 DEF Next, ConnStep, SenderStep, Radio,
     send_power, send_level, send_vendor_command, send_config_appkey_add,
     send_config_model_app_bind

\* The links.
LEMMA LinkStepTypes == IInv /\ [Next]_vars => LinkTypes'
<1> SUFFICES ASSUME IInv, [Next]_vars PROVE LinkTypes'
  OBVIOUS
<1> USE DEF connVars, sendVars, rxVars, linkVars, nodeVars, history
<1>f. ASSUME UNCHANGED <<link, unreported, subscribed>> PROVE LinkTypes'
  BY <1>f, FaultsStep DEF IInv, TypeOK, LinkTypes
<1>1. ASSUME _resolve_proxy_characteristics PROVE LinkTypes'
  BY <1>1, FaultsStep DEF _resolve_proxy_characteristics, Opened, IInv, TypeOK, LinkTypes
<1>2. ASSUME request_composition_data PROVE LinkTypes'
  BY <1>2, FaultsStep DEF request_composition_data, IInv, TypeOK, ConnTypes, LinkTypes, Sessioned
<1>3. ASSUME AttemptClosed PROVE LinkTypes'
  <2>1. mine \in Sessions /\ Down(mine) /\ faults' \in FaultCounts
    BY <1>3, FaultsStep DEF AttemptClosed, IInv, Sessioned, TypeOK, ConnTypes
  <2>. QED  BY <2>1, DownTypes DEF IInv, TypeOK, LinkTypes
<1>4. ASSUME Unsubscribed PROVE LinkTypes'
  BY <1>4, FaultsStep DEF Unsubscribed, IInv, TypeOK, LinkTypes
<1>5. ASSUME Closed PROVE LinkTypes'
  <2>1. stopOn \in Sessions /\ Down(stopOn) /\ faults' \in FaultCounts
    BY <1>5, FaultsStep DEF Closed, IInv, Sessioned, TypeOK, ConnTypes
  <2>. QED  BY <2>1, DownTypes DEF IInv, TypeOK, LinkTypes
<1>6. ASSUME NEW c \in Sessions, LinkLost(c) PROVE LinkTypes'
  <2>1. c \in Sessions /\ Down(c) /\ faults' \in FaultCounts
    BY <1>6, FaultsStep DEF LinkLost, IInv, Sessioned, TypeOK, ConnTypes
  <2>. QED  BY <2>1, DownTypes DEF IInv, TypeOK, LinkTypes
<1>7. ASSUME NEW c \in Sessions, _on_ble_disconnect(c) PROVE LinkTypes'
  BY <1>7, FaultsStep DEF _on_ble_disconnect, IInv, TypeOK, LinkTypes
<1>8. ASSUME _process_notify PROVE LinkTypes'
  BY <1>8, FaultsStep, Notified DEF IInv, TypeOK, LinkTypes
<1>9. ASSUME connect \/ CompositionAsked \/ NextAttempt \/ ConnectCancelled \/
            disconnect \/ PDULost
      PROVE  LinkTypes'
  BY <1>9, <1>f DEF connect, _load_keys, CompositionAsked, ConnectEnds, AttemptFails,
     FaultIfUp, Fault, NoFault, NextAttempt, ConnectCancelled, disconnect, PDULost
<1>10. ASSUME NEW s \in Senders, Send(s) \/ Written(s) \/ WriteFails(s) \/ SendAgain(s)
            \/ Resumed(s) \/ TimedOut(s)
      PROVE  LinkTypes'
  BY <1>10, <1>f DEF Send, _next_seqs, Written, Ends, Leaves, send_command_with_retry, WriteFails, SendAgain, NextTry,
     Resumed, TimedOut, Fault
<1>11. ASSUME NEW o \in {0, 1}, SegmentRepeated(o) PROVE LinkTypes'
  BY <1>11, <1>f DEF SegmentRepeated, Fault
<1>12. ASSUME NEW net \in {"ours", "other"}, NEW frame \in Frames, UnsolicitedHeard(net,
            frame)
      PROVE  LinkTypes'
  BY <1>12, <1>f DEF UnsolicitedHeard, Fault
<1>13. ASSUME NEW z \in DOMAIN buffers, BufferAges(z) PROVE LinkTypes'
  BY <1>13, <1>f DEF BufferAges, Fault
<1>14. CASE UNCHANGED vars
  BY <1>14, <1>f DEF vars
<1>. QED  BY <1>1, <1>2, <1>3, <1>4, <1>5, <1>6, <1>7, <1>8, <1>9, <1>10, <1>11, <1>12,
     <1>13, <1>14 DEF Next, ConnStep, SenderStep, Radio, send_power, send_level,
     send_vendor_command, send_config_appkey_add, send_config_model_app_bind

-----------------------------------------------------------------------------
(* The node and the air.                                                   *)

\* What a step does to the node and to what is on the air: nothing; the air is
\* cleared, or its first PDU is gone; a command or a request is heard; a segment is
\* repeated; or an unsolicited PDU comes.
PDUGone == air # <<>> /\ air' = Tail(air) /\ UNCHANGED <<node, applied>>
Repetition ==
  /\ node.used # None /\ UNCHANGED <<node, applied>>
  /\ \E o \in {0, 1} : air' = Append(air, CompositionSegment(node.used, o))
Unsolicited ==
  /\ \E net \in {"ours", "other"}, frame \in Frames : air' = Append(air, VendorPDU(net, frame))
  /\ DOMAIN node' = DOMAIN node /\ node'.heard = node.heard /\ node'.last = node.last
  /\ node'.level = node.level /\ node'.parts = node.parts /\ node'.used = node.used
  /\ node'.power \in Nat /\ applied' = applied
NodeStep ==
  \/ UNCHANGED nodeVars
  \/ air' = <<>> /\ UNCHANGED <<node, applied>>
  \/ PDUGone \/ Repetition \/ Unsolicited \/ RequestHeard
  \/ \E s \in Senders : pc[s] = "writing" /\ CommandHeard(s)

\* Every step is one of these.
LEMMA NodeSteps == IInv /\ [Next]_vars => NodeStep
<1> SUFFICES ASSUME IInv, [Next]_vars PROVE NodeStep
  OBVIOUS
<1> USE DEF connVars, sendVars, rxVars, linkVars, nodeVars, history
<1>f. ASSUME UNCHANGED <<nodeVars>> PROVE NodeStep
  BY <1>f DEF NodeStep
<1>1. ASSUME CompositionAsked PROVE NodeStep
  <2>1. UNCHANGED nodeVars \/ Hear(Get, asked, 0)
    BY <1>1 DEF CompositionAsked, Delivered, LostOnAir, Get
  <2>. QED  BY <2>1, GetHeard DEF IInv, NodeStep
<1>2. ASSUME AttemptClosed PROVE NodeStep
  BY <1>2 DEF AttemptClosed, Down, NodeStep
<1>3. ASSUME Closed PROVE NodeStep
  BY <1>3 DEF Closed, Down, NodeStep
<1>4. ASSUME NEW s \in Senders, Written(s) PROVE NodeStep
  <2>1. UNCHANGED nodeVars \/ Hear(Payload(s, transaction[s]), number[s], written[s])
    BY <1>4 DEF Written, Delivered, LostOnAir
  <2>2. pc[s] = "writing"
    BY <1>4 DEF Written
  <2>. QED  BY <2>1, <2>2, SenderHeard DEF IInv, NodeStep
<1>5. ASSUME NEW s \in Senders, WriteFails(s) PROVE NodeStep
  <2>1. UNCHANGED nodeVars \/ Hear(Payload(s, transaction[s]), number[s], written[s])
    BY <1>5 DEF WriteFails, Delivered, LostOnAir
  <2>2. pc[s] = "writing"
    BY <1>5 DEF WriteFails
  <2>. QED  BY <2>1, <2>2, SenderHeard DEF IInv, NodeStep
<1>6. ASSUME NEW c \in Sessions, LinkLost(c) PROVE NodeStep
  BY <1>6 DEF LinkLost, Down, Fault, NodeStep
<1>7. ASSUME NEW o \in {0, 1}, SegmentRepeated(o) PROVE NodeStep
  BY <1>7 DEF SegmentRepeated, Repetition, NodeStep
<1>8. ASSUME NEW net \in {"ours", "other"}, NEW frame \in Frames, UnsolicitedHeard(net,
            frame)
      PROVE  NodeStep
  <2>1. air' = Append(air, VendorPDU(net, frame)) /\ applied' = applied
    BY <1>8 DEF UnsolicitedHeard, VendorPDU
  <2>2. node' = node \/ node' = [node EXCEPT !.power = 57]
    BY <1>8 DEF UnsolicitedHeard
  <2>3. Unsolicited
    BY <2>1, <2>2 DEF Unsolicited, IInv, TypeOK, NodeTypes
  <2>. QED  BY <2>3 DEF NodeStep
<1>9. ASSUME PDULost PROVE NodeStep
  BY <1>9 DEF PDULost, PDUGone, NodeStep
<1>10. ASSUME _process_notify PROVE NodeStep
  <2>1. PDUGone
    BY <1>10, Notified DEF PDUGone, IInv
  <2>. QED  BY <2>1 DEF NodeStep
<1>11. ASSUME connect \/ _resolve_proxy_characteristics \/ request_composition_data \/
            NextAttempt \/ ConnectCancelled \/ disconnect \/ Unsubscribed
      PROVE  NodeStep
  BY <1>11, <1>f DEF connect, _load_keys, _resolve_proxy_characteristics, Opened,
     AttemptFails, Fault, request_composition_data, ConnectEnds, FaultIfUp, NoFault,
     NextAttempt, ConnectCancelled, disconnect, Unsubscribed
<1>12. ASSUME NEW s \in Senders, Send(s) \/ SendAgain(s) \/ Resumed(s) \/ TimedOut(s)
      PROVE  NodeStep
  BY <1>12, <1>f DEF Send, _next_seqs, SendAgain, Ends, Leaves, send_command_with_retry, NextTry, Resumed, TimedOut,
     Fault
<1>13. ASSUME NEW c \in Sessions, _on_ble_disconnect(c) PROVE NodeStep
  BY <1>13, <1>f DEF _on_ble_disconnect
<1>14. ASSUME NEW z \in DOMAIN buffers, BufferAges(z) PROVE NodeStep
  BY <1>14, <1>f DEF BufferAges, Fault
<1>15. CASE UNCHANGED vars
  BY <1>15, <1>f DEF vars
<1>. QED  BY <1>1, <1>2, <1>3, <1>4, <1>5, <1>6, <1>7, <1>8, <1>9, <1>10, <1>11, <1>12,
     <1>13, <1>14, <1>15 DEF Next, ConnStep, SenderStep, Radio, send_power, send_level,
     send_vendor_command, send_config_appkey_add, send_config_model_app_bind

\* A sender makes the call it was given.
LEMMA CallKept == IInv /\ [Next]_vars => call' = call
<1> SUFFICES ASSUME IInv, [Next]_vars PROVE call' = call
  OBVIOUS
<1> USE DEF connVars, sendVars, rxVars, linkVars, nodeVars, history
<1>f. ASSUME UNCHANGED <<call>> PROVE call' = call
  BY <1>f
<1>1. ASSUME _process_notify PROVE call' = call
  BY <1>1, Notified DEF IInv
<1>2. ASSUME connect \/ _resolve_proxy_characteristics \/ request_composition_data \/
            CompositionAsked \/ AttemptClosed \/ NextAttempt \/ ConnectCancelled
      PROVE  call' = call
  BY <1>2, <1>f DEF connect, _load_keys, _resolve_proxy_characteristics, Opened,
     AttemptFails, Fault, request_composition_data, ConnectEnds, FaultIfUp, NoFault,
     CompositionAsked, AttemptClosed, Down, NextAttempt, ConnectCancelled
<1>3. ASSUME disconnect \/ Unsubscribed \/ Closed \/ PDULost PROVE call' = call
  BY <1>3, <1>f DEF disconnect, Fault, Unsubscribed, Closed, Down, PDULost
<1>4. ASSUME NEW s \in Senders, Send(s) \/ Written(s) \/ WriteFails(s) \/ SendAgain(s)
            \/ Resumed(s) \/ TimedOut(s)
      PROVE  call' = call
  BY <1>4, <1>f DEF Send, _next_seqs, Written, Ends, Leaves, send_command_with_retry, WriteFails, SendAgain, NextTry,
     Resumed, TimedOut, Fault
<1>5. ASSUME NEW c \in Sessions, LinkLost(c) \/ _on_ble_disconnect(c)
      PROVE  call' = call
  BY <1>5, <1>f DEF LinkLost, Down, Fault, _on_ble_disconnect
<1>6. ASSUME NEW o \in {0, 1}, SegmentRepeated(o) PROVE call' = call
  BY <1>6, <1>f DEF SegmentRepeated, Fault
<1>7. ASSUME NEW net \in {"ours", "other"}, NEW frame \in Frames, UnsolicitedHeard(net,
            frame)
      PROVE  call' = call
  BY <1>7, <1>f DEF UnsolicitedHeard, Fault
<1>8. ASSUME NEW z \in DOMAIN buffers, BufferAges(z) PROVE call' = call
  BY <1>8, <1>f DEF BufferAges, Fault
<1>9. CASE UNCHANGED vars
  BY <1>9, <1>f DEF vars
<1>. QED  BY <1>1, <1>2, <1>3, <1>4, <1>5, <1>6, <1>7, <1>8, <1>9 DEF Next, ConnStep,
     SenderStep, Radio, send_power, send_level, send_vendor_command,
     send_config_appkey_add, send_config_model_app_bind

\* The types of the node.
LEMMA NodeStepTypes == IInv /\ [Next]_vars => NodeTypes'
<1> SUFFICES ASSUME IInv, [Next]_vars PROVE NodeTypes'
  OBVIOUS
<1>1. NodeTypes
  BY DEF IInv, TypeOK
<1>2. air \in Seq(ToSet(air)) /\ applied \in Seq([of : Senders, nth : Calls, tid : TransactionIds])
  BY <1>1 DEF NodeTypes
<1>3. CASE UNCHANGED nodeVars
  BY <1>1, <1>3 DEF NodeTypes, nodeVars
<1>4. CASE air' = <<>> /\ UNCHANGED <<node, applied>>
  BY <1>1, <1>4, EmptyTyped DEF NodeTypes
<1>5. CASE PDUGone
  BY <1>1, <1>2, <1>5, TailTyped DEF NodeTypes, PDUGone
<1>a. ASSUME NEW x, air' = Append(air, x) PROVE air' \in Seq(ToSet(air'))
  <2>1. Append(air, x) \in Seq(ToSet(Append(air, x)))
    BY <1>2, AppendTyped
  <2>. QED  BY <1>a, <2>1
<1>6. CASE Repetition
  BY <1>1, <1>a, <1>6 DEF NodeTypes, Repetition
<1>7. CASE Unsolicited
  BY <1>1, <1>a, <1>7 DEF NodeTypes, Unsolicited
<1>8. CASE RequestHeard
  <2>1. air' \in Seq(ToSet(air'))
    <3>1. ASSUME NEW m, NEW n, air' = air \o <<m, n>> PROVE air' \in Seq(ToSet(air'))
      <4>1. <<m, n>> \in Seq(ToSet(<<m, n>>))
        BY TwoTyped, Zenon
      <4>. QED  BY <1>2, <3>1, <4>1, ConcatTyped, Zenon
    <3>. QED  BY <1>2, <1>8, <3>1 DEF RequestHeard
  <2>. QED  BY <1>1, <1>8, <2>1 DEF NodeTypes, RequestHeard
<1>9. ASSUME NEW s \in Senders, CommandHeard(s) PROVE NodeTypes'
  <2>1. air' \in Seq(ToSet(air'))
    BY <1>2, <1>a, <1>9 DEF CommandHeard
  <2>2. applied' \in Seq([of : Senders, nth : Calls, tid : TransactionIds])
    <3>1. calls[s] \in Calls /\ transaction[s] \in TransactionIds
      BY DEF IInv, TypeOK, SendTypes
    <3>2. Call(s) \in [of : Senders, nth : Calls, tid : TransactionIds]
      BY <3>1 DEF Call
    <3>3. applied' \in {applied, Append(applied, Call(s))}
      BY <1>9 DEF CommandHeard
    <3> DEFINE S == [of : Senders, nth : Calls, tid : TransactionIds]
               c == Call(s)
    <3>4. applied \in Seq(S) /\ c \in S /\ applied' \in {applied, Append(applied, c)}
      BY <1>2, <3>2, <3>3
    <3> HIDE DEF S, c
    <3>5. Append(applied, c) \in Seq(S)
      BY <3>4, AppendTyped
    <3>6. applied' \in Seq(S)
      BY <3>4, <3>5, Zenon
    <3>. QED  BY <3>6 DEF S
  <2>3. transaction[s] \in TransactionIds
    BY DEF IInv, TypeOK, SendTypes
  <2>. QED  BY <1>1, <1>9, <2>1, <2>2, <2>3 DEF NodeTypes, CommandHeard
<1>. QED  BY <1>3, <1>4, <1>5, <1>6, <1>7, <1>8, <1>9, NodeSteps DEF NodeStep

\* The level of the node.
LEMMA LevelStep == IInv /\ [Next]_vars => LevelRange'
<1> SUFFICES ASSUME IInv, [Next]_vars PROVE LevelRange'
  OBVIOUS
<1>1. call' = call
  BY CallKept
<1>2. node'.level = node.level => LevelRange'
  BY <1>1 DEF IInv, LevelRange, LevelTrue, Op
<1>3. ASSUME NEW s \in Senders, CommandHeard(s) PROVE LevelRange'
  BY <1>1, <1>3 DEF CommandHeard, LevelRange, LevelTrue, Op
<1>. QED  BY <1>2, <1>3, NodeSteps
          DEF NodeStep, nodeVars, PDUGone, Repetition, Unsolicited, RequestHeard

\* What is on the air after a step: a suffix of what was, or all of it and at most
\* two PDUs more.
Shifted(k) == \A i \in DOMAIN air' : i + k \in DOMAIN air /\ air'[i] = air[i + k]
Joined(x) ==
  \A i \in DOMAIN air' :
    \/ i \in DOMAIN air /\ air'[i] = air[i]
    \/ i > Len(air) /\ air'[i] = x
Answers(r) ==
  \A i \in DOMAIN air' :
    \/ i \in DOMAIN air /\ air'[i] = air[i]
    \/ i > Len(air) /\ \E o \in {0, 1} : air'[i] = CompositionSegment(r, o)
Unnumbered(x) ==
  \/ \E op \in StatusOps, s \in Senders, v \in Int : StatusValue(op, v) /\ x = StatusPDU(op, s, v)
  \/ \E net \in {"ours", "other"}, frame \in Frames : x = VendorPDU(net, frame)
AirStep ==
  \/ node'.used = node.used /\ (DOMAIN air' = {} \/ Shifted(0) \/ Shifted(1))
  \/ node'.used = node.used /\ \E x : Unnumbered(x) /\ Joined(x)
  \/ \E r \in SeqNumbers : /\ node.used # None => r >= node.used
                           /\ node'.used = r /\ Answers(r)

LEMMA AirSteps == IInv /\ [Next]_vars => AirStep
<1> SUFFICES ASSUME IInv, [Next]_vars PROVE AirStep
  OBVIOUS
<1>1. /\ air \in Seq(ToSet(air)) /\ DOMAIN air = 1..Len(air) /\ Len(air) \in Nat
      /\ node.used \in SeqNumbers \cup {None}
  BY DEF IInv, TypeOK, NodeTypes
<1>2. ASSUME NEW x, air' = Append(air, x) PROVE Joined(x)
  <2>1. /\ DOMAIN air' = 1..Len(air) + 1 /\ \A i \in DOMAIN air : air'[i] = air[i]
        /\ air'[Len(air) + 1] = x
    BY <1>1, <1>2, AppendTyped
  <2>. QED  BY <1>1, <2>1 DEF Joined
<1>3. CASE UNCHANGED nodeVars
  BY <1>1, <1>3 DEF AirStep, Shifted, nodeVars
<1>4. CASE air' = <<>> /\ UNCHANGED <<node, applied>>
  BY <1>4 DEF AirStep
<1>5. CASE PDUGone
  BY <1>1, <1>5, TailTyped DEF AirStep, Shifted, PDUGone
<1>6. CASE Repetition
  <2>1. PICK o \in {0, 1} : air' = Append(air, CompositionSegment(node.used, o))
    BY <1>6 DEF Repetition
  <2>2. Answers(node.used)
    BY <1>2, <2>1 DEF Joined, Answers
  <2>3. node.used \in SeqNumbers /\ node.used >= node.used
    <3>1. node.used \in SeqNumbers
      BY <1>1, <1>6 DEF Repetition
    <3>2. \A n \in SeqNumbers : n >= n
      BY SeqZeroFacts
    <3>. QED  BY <3>1, <3>2
  <2>. QED  BY <1>6, <2>2, <2>3 DEF AirStep, Repetition
<1>7. CASE Unsolicited
  BY <1>2, <1>7 DEF AirStep, Unsolicited, Unnumbered
<1>8. CASE RequestHeard
  <2>1. CASE node'.used = node.used /\ air' = air
    BY <1>1, <2>1 DEF AirStep, Shifted
  <2>2. ASSUME NEW r \in SeqNumbers, r > node.used, node'.used = r,
               air' = air \o <<CompositionSegment(r, 0), CompositionSegment(r, 1)>>
        PROVE  AirStep
    <3> DEFINE e == <<CompositionSegment(r, 0), CompositionSegment(r, 1)>>
    <3> HIDE DEF e
    <3>1. /\ e \in Seq(ToSet(e)) /\ DOMAIN e = {1, 2}
          /\ \A i \in {1, 2} : \E o \in {0, 1} : e[i] = CompositionSegment(r, o)
      <4>1. e[1] = CompositionSegment(r, 0) /\ e[2] = CompositionSegment(r, 1)
        BY DEF e
      <4>2. e \in Seq(ToSet(e)) /\ DOMAIN e = {1, 2}
        <5>1. \A m, n : e = <<m, n>> => e \in Seq(ToSet(e)) /\ DOMAIN e = {1, 2}
          BY TwoTyped, Zenon
        <5>2. e = <<CompositionSegment(r, 0), CompositionSegment(r, 1)>>
          BY DEF e
        <5>. QED  BY <5>1, <5>2, Zenon
      <4>. QED  BY <4>1, <4>2
    <3>2. \A i \in DOMAIN air' :
            \/ i \in DOMAIN air /\ air'[i] = air[i]
            \/ i > Len(air) /\ i - Len(air) \in DOMAIN e /\ air'[i] = e[i - Len(air)]
      <4>1. air' = air \o e
        BY <2>2 DEF e
      <4>2. /\ Len(e) \in Nat
            /\ \A i \in DOMAIN (air \o e) :
                 \/ i \in DOMAIN air /\ (air \o e)[i] = air[i]
                 \/ i > Len(air) /\ i - Len(air) \in DOMAIN e /\ (air \o e)[i] = e[i - Len(air)]
        BY <1>1, <3>1, ConcatTyped
      <4>. QED  BY <4>1, <4>2
    <3>3. Answers(r)
      BY <3>1, <3>2 DEF Answers
    <3>4. node.used # None => r >= node.used
      <4>1. \A n \in SeqNumbers, m \in SeqNumbers \cup {None} : n > m /\ m # None => n >= m
        BY SeqZeroFacts
      <4>. QED  BY <1>1, <2>2, <4>1
    <3>. QED  BY <2>2, <3>3, <3>4 DEF AirStep
  <2>. QED  BY <1>8, <2>1, <2>2 DEF RequestHeard
<1>9. ASSUME NEW s \in Senders, CommandHeard(s) PROVE AirStep
  <2>1. CASE air' = air
    BY <1>1, <1>9, <2>1 DEF AirStep, Shifted, CommandHeard
  <2>2. ASSUME NEW op \in StatusOps, NEW v \in Int, StatusValue(op, v),
               air' = Append(air, StatusPDU(op, s, v))
        PROVE  AirStep
    <3>1. Unnumbered(StatusPDU(op, s, v)) /\ Joined(StatusPDU(op, s, v))
      BY <1>2, <2>2 DEF Unnumbered
    <3>2. node'.used = node.used
      BY <1>9 DEF CommandHeard
    <3>. QED  BY <3>1, <3>2 DEF AirStep
  <2>. QED  BY <1>9, <2>1, <2>2 DEF CommandHeard
<1>. QED  BY <1>3, <1>4, <1>5, <1>6, <1>7, <1>8, <1>9, NodeSteps DEF NodeStep

\* What is on the air is known; the numbers rise.
LEMMA AirStepKnown == IInv /\ [Next]_vars => AirKnown'
<1> SUFFICES ASSUME IInv, [Next]_vars, NEW i \in DOMAIN air' PROVE KnownPDU(air'[i])
  BY DEF AirKnown, KnownPDU, StatusPDU, VendorPDU, CompositionSegment
<1>1. ASSUME NEW j \in DOMAIN air, air'[i] = air[j] PROVE KnownPDU(air'[i])
  BY <1>1 DEF IInv, AirKnown
<1>2. ASSUME NEW k \in {0, 1}, Shifted(k) PROVE KnownPDU(air'[i])
  BY <1>1, <1>2 DEF Shifted
<1>3. ASSUME NEW x, Unnumbered(x), Joined(x) PROVE KnownPDU(air'[i])
  BY <1>1, <1>3 DEF Joined, Unnumbered, KnownPDU
<1>4. ASSUME NEW r \in SeqNumbers, Answers(r) PROVE KnownPDU(air'[i])
  BY <1>1, <1>4 DEF Answers, KnownPDU
<1>. QED  BY <1>2, <1>3, <1>4, AirSteps DEF AirStep

LEMMA AirStepOrder == IInv /\ [Next]_vars => AirOrder'
<1> SUFFICES ASSUME IInv, [Next]_vars PROVE AirOrder'
  OBVIOUS
<1>1. /\ AirOrder /\ node.used \in SeqNumbers \cup {None}
      /\ DOMAIN air = 1..Len(air) /\ Len(air) \in Nat
  BY DEF IInv, TypeOK, NodeTypes
<1>2. DOMAIN air' \subseteq Nat
  BY NodeStepTypes DEF NodeTypes
<1>3. ASSUME NEW k \in {0, 1}, Shifted(k), node'.used = node.used PROVE AirOrder'
  <2>1. \A i \in DOMAIN air' : i + k \in DOMAIN air /\ air'[i] = air[i + k]
    BY <1>3 DEF Shifted
  <2>2. \A i, j \in DOMAIN air' : i < j => i + k < j + k
    BY <1>2
  <2>3. AirOrder' <=>
          /\ \A i, j \in DOMAIN air' : \A q, r \in SeqNumbers : \A o, p \in {0, 1} :
               i < j /\ air'[i] = CompositionSegment(q, o) /\ air'[j] = CompositionSegment(r, p)
                 => q <= r
          /\ \A i \in DOMAIN air' : \A q \in SeqNumbers, o \in {0, 1} :
               air'[i] = CompositionSegment(q, o) => node'.used # None /\ q <= node'.used
    BY DEF AirOrder, CompositionSegment
  <2>4. \A i, j \in DOMAIN air' : \A q, r \in SeqNumbers : \A o, p \in {0, 1} :
               i < j /\ air'[i] = CompositionSegment(q, o) /\ air'[j] = CompositionSegment(r, p)
                 => q <= r
    <3> SUFFICES ASSUME NEW i \in DOMAIN air', NEW j \in DOMAIN air', i < j,
                        NEW q \in SeqNumbers, NEW r \in SeqNumbers,
                        NEW o \in {0, 1}, NEW p \in {0, 1},
                        air'[i] = CompositionSegment(q, o), air'[j] = CompositionSegment(r, p)
                 PROVE  q <= r
      OBVIOUS
    <3>1. /\ i + k \in DOMAIN air /\ j + k \in DOMAIN air /\ i + k < j + k
          /\ air[i + k] = CompositionSegment(q, o) /\ air[j + k] = CompositionSegment(r, p)
      BY <2>1, <2>2
    <3> DEFINE a == i + k
               b == j + k
    <3> HIDE DEF a, b
    <3>2. a \in DOMAIN air /\ b \in DOMAIN air /\ a < b
          /\ air[a] = CompositionSegment(q, o) /\ air[b] = CompositionSegment(r, p)
      BY <3>1 DEF a, b
    <3>. QED  BY <1>1, <3>2 DEF AirOrder
  <2>5. \A i \in DOMAIN air' : \A q \in SeqNumbers, o \in {0, 1} :
               air'[i] = CompositionSegment(q, o) => node'.used # None /\ q <= node'.used
    BY <1>1, <1>3, <2>1 DEF AirOrder
  <2>. QED  BY <2>3, <2>4, <2>5
<1>4. ASSUME NEW x, Unnumbered(x), Joined(x), node'.used = node.used PROVE AirOrder'
  <2>1. \A q, o : CompositionSegment(q, o) # x
    BY <1>4, SegmentsDiffer DEF Unnumbered
  <2>. QED  BY <1>1, <1>2, <1>4, <2>1 DEF Joined, AirOrder
<1>5. ASSUME NEW r \in SeqNumbers, node.used # None => r >= node.used, node'.used = r, Answers(r)
      PROVE  AirOrder'
  <2>1. \A q, t, o, p : CompositionSegment(q, o) = CompositionSegment(t, p) => q = t
    BY SegmentsDiffer
  <2>2. \A q \in SeqNumbers : q \in Nat
    BY SeqZeroFacts
  <2>3. \A i \in DOMAIN air : \A q \in SeqNumbers, o \in {0, 1} :
          air[i] = CompositionSegment(q, o) => q <= r
    <3> SUFFICES ASSUME NEW i \in DOMAIN air, NEW q \in SeqNumbers, NEW o \in {0, 1},
                        air[i] = CompositionSegment(q, o)
                 PROVE  q <= r
      OBVIOUS
    <3>1. node.used # None /\ q <= node.used
      BY <1>1 DEF AirOrder
    <3>2. \A a, b, c \in SeqNumbers : a <= b /\ c >= b => a <= c
      BY <2>2
    <3>. QED  BY <1>1, <1>5, <3>1, <3>2
  <2>4. \A i \in DOMAIN air' : \A q \in SeqNumbers, o \in {0, 1} :
          air'[i] = CompositionSegment(q, o) =>
            q <= r /\ (q = r \/ (i \in DOMAIN air /\ air'[i] = air[i]))
    <3> SUFFICES ASSUME NEW i \in DOMAIN air', NEW q \in SeqNumbers, NEW o \in {0, 1},
                        air'[i] = CompositionSegment(q, o)
                 PROVE  q <= r /\ (q = r \/ (i \in DOMAIN air /\ air'[i] = air[i]))
      OBVIOUS
    <3>1. CASE i \in DOMAIN air /\ air'[i] = air[i]
      BY <2>3, <3>1
    <3>2. ASSUME NEW p \in {0, 1}, air'[i] = CompositionSegment(r, p)
          PROVE  q = r /\ q <= r
      <4>1. q = r
        BY <2>1, <3>2
      <4>. QED  BY <2>2, <4>1
    <3>3. \/ i \in DOMAIN air /\ air'[i] = air[i]
          \/ \E p \in {0, 1} : air'[i] = CompositionSegment(r, p)
      BY <1>5 DEF Answers
    <3>. QED  BY <3>1, <3>2, <3>3, Zenon
  <2>5. r # None
    BY <2>2
  <2>6. \A i, j \in DOMAIN air' : \A q, t \in SeqNumbers : \A o, p \in {0, 1} :
          i < j /\ air'[i] = CompositionSegment(q, o) /\ air'[j] = CompositionSegment(t, p)
            => q <= t
    <3> SUFFICES ASSUME NEW i \in DOMAIN air', NEW j \in DOMAIN air', i < j,
                        NEW q \in SeqNumbers, NEW t \in SeqNumbers,
                        NEW o \in {0, 1}, NEW p \in {0, 1},
                        air'[i] = CompositionSegment(q, o), air'[j] = CompositionSegment(t, p)
                 PROVE  q <= t
      OBVIOUS
    <3>1. CASE j \in DOMAIN air /\ air'[j] = air[j]
      <4>1. i \in DOMAIN air /\ air'[i] = air[i]
        <5>1. ~(i > Len(air))
          BY <1>1, <1>2, <3>1
        <5>. QED  BY <1>5, <5>1 DEF Answers
      <4>. QED  BY <1>1, <3>1, <4>1 DEF AirOrder
    <3>2. CASE t = r
      BY <2>4, <3>2
    <3>. QED  BY <2>4, <3>1, <3>2
  <2>. QED  BY <1>5, <2>4, <2>5, <2>6 DEF AirOrder, CompositionSegment
<1>6. ASSUME DOMAIN air' = {} PROVE AirOrder'
  BY <1>6 DEF AirOrder
<1>. QED  BY <1>3, <1>4, <1>5, <1>6, AirSteps DEF AirStep

-----------------------------------------------------------------------------
(* The senders.                                                            *)

\* The end of a send method.
LEMMA LeavesStage ==
  ASSUME TypeOK, SenderStage, call' = call, NEW s \in Senders, NEW next \in {"idle", "done"},
         Leaves(s, next), next = "idle" => calls[s] < DEFAULT_MAX_COMMAND_RETRIES
  PROVE  SenderStage'
<1>1. ToSet(pending') = ToSet(pending) \ {s}
  <2>1. Unregister(s)
    BY DEF Leaves
  <2>. QED  BY <2>1, Unregistered
<1>2. /\ pc' = [pc EXCEPT ![s] = next] /\ written' = [written EXCEPT ![s] = 0]
      /\ on' = [on EXCEPT ![s] = 0] /\ tries' = [tries EXCEPT ![s] = 0] /\ calls' = calls
  BY DEF Leaves
<1>. QED  BY <1>1, <1>2 DEF SenderStage, Awaits, MayRetry, Retried, Op, Segments, TypeOK, SendTypes

LEMMA EndsStage ==
  ASSUME TypeOK, SenderStage, call' = call, NEW s \in Senders, Ends(s)
  PROVE  SenderStage'
<1>1. "done" # "idle"
  OBVIOUS
<1>. QED  BY <1>1, LeavesStage DEF Ends

\* Where the senders have come to.
LEMMA StageStep == IInv /\ [Next]_vars => SenderStage'
<1> SUFFICES ASSUME IInv, [Next]_vars PROVE SenderStage'
  OBVIOUS
<1> USE DEF connVars, sendVars, rxVars, linkVars, nodeVars, history
<1>f. ASSUME UNCHANGED <<call, pc, on, tries, written, pending, calls>> PROVE SenderStage'
  BY <1>f DEF IInv, SenderStage, Awaits, MayRetry, Retried, Op, Segments
<1>1. ASSUME NEW s \in Senders, Send(s) PROVE SenderStage'
  <2>1. call' = call /\ (Op(s) # "vendor" => pc[s] = "idle") /\ pc[s] \in {"idle", "asked"}
    BY <1>1 DEF Send
  <2>2. s \notin ToSet(pending) /\ written[s] = 0 /\ 0 < Segments(s)
    BY <2>1, CallFacts DEF IInv, SenderStage, TypeOK, ConnTypes
  <2>a. calls'[s] = calls[s] + 1 /\ \A t \in Senders \ {s} : calls'[t] = calls[t]
    BY <1>1 DEF Send, IInv, TypeOK, SendTypes
  <2>3. CASE client = 0 \/ ~keys
    <3>1. PICK next : /\ next = send_command_with_retry(s, calls[s] + 1)
                      /\ pc' = [pc EXCEPT ![s] = next] /\ UNCHANGED <<on, tries, written, pending>>
      BY <1>1, <2>3 DEF Send
    <3>2. /\ next \in {"idle", "done"}
          /\ next = "idle" => calls'[s] < DEFAULT_MAX_COMMAND_RETRIES
      BY <2>a, <3>1, RetryFacts
    <3>. QED  BY <2>1, <2>a, <2>2, <3>1, <3>2 DEF IInv, TypeOK, SendTypes, SenderStage, Awaits,
                                     MayRetry, Retried, Op, Segments
  <2>4. CASE ~(client = 0 \/ ~keys)
    <3>1. /\ pc' = [pc EXCEPT ![s] = "writing"] /\ on' = [on EXCEPT ![s] = client]
          /\ tries' = [tries EXCEPT ![s] = 1] /\ written' = written
      BY <1>1, <2>4 DEF Send
    <3>2. ToSet(pending') \subseteq ToSet(pending) \cup {s}
      <4>1. UNCHANGED pending \/ (Awaits(s) /\ pending' = Append(pending, s))
        BY <1>1, <2>4 DEF Send
      <4>. QED  BY <2>1, <4>1, Registered DEF IInv
    <3>. QED  BY <2>1, <2>2, <2>4, <2>a, <3>1, <3>2 DEF IInv, TypeOK, SendTypes, SenderStage, Awaits,
                                     MayRetry, Retried, Op, Segments
  <2>. QED  BY <2>3, <2>4
<1>2. ASSUME NEW s \in Senders, Written(s) PROVE SenderStage'
  <2>1. CASE Awaits(s)
    <3>1. /\ pc' = [pc EXCEPT ![s] = IF written[s] + 1 < Segments(s) THEN "backoff" ELSE "waiting"]
          /\ written' = [written EXCEPT ![s] = @ + 1]
          /\ UNCHANGED <<call, on, tries, pending, calls>>
      BY <1>2, <2>1 DEF Written
    <3>. QED  BY <2>1, <3>1 DEF IInv, TypeOK, SendTypes, SenderStage, Awaits,
                                MayRetry, Retried, Op, Segments
  <2>2. CASE ~Awaits(s)
    BY <1>2, <2>2, EndsStage DEF Written, IInv
  <2>. QED  BY <2>1, <2>2
<1>3. ASSUME NEW s \in Senders, WriteFails(s) PROVE SenderStage'
  <2>1. CASE MayRetry(s)
    <3>1. pc' = [pc EXCEPT ![s] = "backoff"] /\ UNCHANGED <<call, on, tries, written, pending, calls>>
      BY <1>3, <2>1 DEF WriteFails
    <3>2. pc[s] = "writing"
      BY <1>3 DEF WriteFails
    <3>. QED  BY <2>1, <3>1, <3>2 DEF IInv, TypeOK, SendTypes, SenderStage, Awaits, MayRetry,
                                      Retried, Op, Segments
  <2>2. CASE ~MayRetry(s)
    <3>1. PICK next \in {"idle", "done"} :
            Leaves(s, next) /\ (next = "idle" => calls[s] < DEFAULT_MAX_COMMAND_RETRIES)
      BY <1>3, <2>2, FailsLeaves
    <3>2. call' = call
      BY <1>3 DEF WriteFails
    <3>. QED  BY <3>1, <3>2, LeavesStage DEF IInv
  <2>. QED  BY <2>1, <2>2
<1>4. ASSUME NEW s \in Senders, SendAgain(s) PROVE SenderStage'
  <2>1. CASE client = 0 \/ ~keys
    BY <1>4, <2>1, EndsStage DEF SendAgain, IInv
  <2>2. CASE ~(client = 0 \/ ~keys)
    <3>1. /\ pc' = [pc EXCEPT ![s] = "writing"] /\ on' = [on EXCEPT ![s] = client]
          /\ \A t \in Senders \ {s} : tries'[t] = tries[t]
          /\ UNCHANGED <<call, written, pending, calls>> /\ pc[s] = "backoff"
      BY <1>4, <2>2 DEF SendAgain, NextTry, IInv, TypeOK, SendTypes
    <3>. QED  BY <2>2, <3>1 DEF IInv, TypeOK, SendTypes, SenderStage, Awaits, MayRetry,
                                Retried, Op, Segments
  <2>. QED  BY <2>1, <2>2
<1>5. ASSUME NEW s \in Senders, Resumed(s) PROVE SenderStage'
  BY <1>5, EndsStage DEF Resumed, IInv
<1>6. ASSUME NEW s \in Senders, TimedOut(s) PROVE SenderStage'
  BY <1>6, EndsStage DEF TimedOut, IInv
<1>7. ASSUME _process_notify PROVE SenderStage'
  <2>1. UNCHANGED <<call, on, tries, written, calls>>
    BY <1>7, Notified DEF IInv
  <2>2. /\ ToSet(pending') \subseteq ToSet(pending)
        /\ \/ UNCHANGED pc
           \/ \E s \in Senders : pc[s] = "idle" /\ pc' = [pc EXCEPT ![s] = "asked"]
    <3>1. CASE StatusTaken
      BY <3>1, Taken DEF StatusTaken, IInv
    <3>2. CASE ShownChanges
      BY <3>2 DEF ShownChanges
    <3>. QED  BY <1>7, <3>1, <3>2, Notified DEF IInv, SegmentTaken
  <2>. QED  BY <2>1, <2>2 DEF IInv, TypeOK, SendTypes, SenderStage, Awaits, MayRetry,
                              Retried, Op, Segments
<1>8. ASSUME connect \/ _resolve_proxy_characteristics \/ request_composition_data \/
            CompositionAsked \/ AttemptClosed \/ NextAttempt \/ ConnectCancelled
      PROVE  SenderStage'
  BY <1>8, <1>f DEF connect, _load_keys, _resolve_proxy_characteristics, Opened,
     AttemptFails, Fault, request_composition_data, ConnectEnds, FaultIfUp, NoFault,
     CompositionAsked, AttemptClosed, Down, NextAttempt, ConnectCancelled
<1>9. ASSUME disconnect \/ Unsubscribed \/ Closed \/ PDULost PROVE SenderStage'
  BY <1>9, <1>f DEF disconnect, Fault, Unsubscribed, Closed, Down, PDULost
<1>10. ASSUME NEW c \in Sessions, LinkLost(c) \/ _on_ble_disconnect(c)
      PROVE  SenderStage'
  BY <1>10, <1>f DEF LinkLost, Down, Fault, _on_ble_disconnect
<1>11. ASSUME NEW o \in {0, 1}, SegmentRepeated(o) PROVE SenderStage'
  BY <1>11, <1>f DEF SegmentRepeated, Fault
<1>12. ASSUME NEW net \in {"ours", "other"}, NEW frame \in Frames, UnsolicitedHeard(net,
            frame)
      PROVE  SenderStage'
  BY <1>12, <1>f DEF UnsolicitedHeard, Fault
<1>13. ASSUME NEW z \in DOMAIN buffers, BufferAges(z) PROVE SenderStage'
  BY <1>13, <1>f DEF BufferAges, Fault
<1>14. CASE UNCHANGED vars
  BY <1>14, <1>f DEF vars
<1>. QED  BY <1>1, <1>2, <1>3, <1>4, <1>5, <1>6, <1>7, <1>8, <1>9, <1>10, <1>11, <1>12,
     <1>13, <1>14 DEF Next, ConnStep, SenderStep, Radio, send_power, send_level,
     send_vendor_command, send_config_appkey_add, send_config_model_app_bind

\* A call that has begun keeps its transaction id.
Advanced ==
  \A t \in Senders :
    /\ calls[t] <= calls'[t]
    /\ calls'[t] = calls[t] /\ pc'[t] \in {"writing", "backoff"} =>
         pc[t] \in {"writing", "backoff"} /\ transaction'[t] = transaction[t]

\* In every step.
LEMMA SendersAdvance == IInv /\ [Next]_vars => Advanced
<1> SUFFICES ASSUME IInv, [Next]_vars PROVE Advanced
  OBVIOUS
<1> USE DEF connVars, sendVars, rxVars, linkVars, nodeVars, history
<1>a. /\ \A t \in Senders : calls[t] \in Nat
      /\ DOMAIN pc = Senders /\ DOMAIN transaction = Senders
  <2>1. calls \in [Senders -> Calls] /\ DOMAIN pc = Senders /\ DOMAIN transaction = Senders
    BY DEF IInv, TypeOK, SendTypes
  <2>. QED  BY <2>1, RetriesCounted
<1>f. ASSUME UNCHANGED <<pc, transaction, calls>> PROVE Advanced
  BY <1>a, <1>f DEF Advanced
\* A sender ends its call, or comes to another place in it.
<1>b. ASSUME NEW s \in Senders, NEW next \in {"idle", "done"}, Leaves(s, next) PROVE Advanced
  <2>1. /\ pc' = [pc EXCEPT ![s] = next] /\ transaction' = [transaction EXCEPT ![s] = 0]
        /\ calls' = calls
    BY <1>b DEF Leaves
  <2>. QED  BY <1>a, <2>1 DEF Advanced
<1>c. ASSUME NEW s \in Senders, NEW w, pc' = [pc EXCEPT ![s] = w], UNCHANGED <<transaction, calls>>,
             w \in {"writing", "backoff"} => pc[s] \in {"writing", "backoff"}
      PROVE  Advanced
  BY <1>a, <1>c DEF Advanced
<1>1. ASSUME NEW s \in Senders, Send(s) PROVE Advanced
  <2>1. calls'[s] = calls[s] + 1 /\ \A t \in Senders \ {s} : calls'[t] = calls[t]
    BY <1>1 DEF Send, IInv, TypeOK, SendTypes
  <2>2. \A t \in Senders \ {s} : pc'[t] = pc[t] /\ transaction'[t] = transaction[t]
    BY <1>1 DEF Send, IInv, TypeOK, SendTypes
  <2>. QED  BY <1>a, <2>1, <2>2 DEF Advanced
<1>2. ASSUME NEW s \in Senders, Written(s) PROVE Advanced
  <2>1. CASE Awaits(s)
    <3>1. /\ pc' = [pc EXCEPT ![s] = IF written[s] + 1 < Segments(s) THEN "backoff" ELSE "waiting"]
          /\ UNCHANGED <<transaction, calls>> /\ pc[s] = "writing"
      BY <1>2, <2>1 DEF Written
    <3>. QED  BY <1>c, <3>1
  <2>2. CASE ~Awaits(s)
    BY <1>2, <1>b, <2>2 DEF Written, Ends
  <2>. QED  BY <2>1, <2>2
<1>3. ASSUME NEW s \in Senders, WriteFails(s) PROVE Advanced
  <2>1. CASE MayRetry(s)
    <3>1. /\ pc' = [pc EXCEPT ![s] = "backoff"] /\ UNCHANGED <<transaction, calls>>
          /\ pc[s] = "writing"
      BY <1>3, <2>1 DEF WriteFails
    <3>. QED  BY <1>c, <3>1
  <2>2. CASE ~MayRetry(s)
    BY <1>3, <1>b, <2>2, FailsLeaves
  <2>. QED  BY <2>1, <2>2
<1>4. ASSUME NEW s \in Senders, SendAgain(s) PROVE Advanced
  <2>1. CASE client = 0 \/ ~keys
    BY <1>4, <1>b, <2>1 DEF SendAgain, Ends
  <2>2. CASE ~(client = 0 \/ ~keys)
    <3>1. /\ pc' = [pc EXCEPT ![s] = "writing"] /\ UNCHANGED <<transaction, calls>>
          /\ pc[s] = "backoff"
      BY <1>4, <2>2 DEF SendAgain, NextTry
    <3>. QED  BY <1>c, <3>1
  <2>. QED  BY <2>1, <2>2
<1>5. ASSUME NEW s \in Senders, Resumed(s) PROVE Advanced
  BY <1>5, <1>b DEF Resumed, Ends
<1>6. ASSUME NEW s \in Senders, TimedOut(s) PROVE Advanced
  BY <1>6, <1>b DEF TimedOut, Ends
<1>7. ASSUME _process_notify PROVE Advanced
  <2>1. UNCHANGED <<transaction, calls>>
    BY <1>7, Notified DEF IInv
  <2>2. \/ UNCHANGED pc
        \/ \E s \in Senders : pc[s] = "idle" /\ pc' = [pc EXCEPT ![s] = "asked"]
    BY <1>7, Notified DEF IInv, StatusTaken, ShownChanges, SegmentTaken
  <2>. QED  BY <1>c, <1>f, <2>1, <2>2
<1>8. ASSUME connect \/ _resolve_proxy_characteristics \/ request_composition_data \/
            CompositionAsked \/ AttemptClosed \/ NextAttempt \/ ConnectCancelled
      PROVE  Advanced
  BY <1>8, <1>f DEF connect, _load_keys, _resolve_proxy_characteristics, Opened,
     AttemptFails, Fault, request_composition_data, ConnectEnds, FaultIfUp, NoFault,
     CompositionAsked, AttemptClosed, Down, NextAttempt, ConnectCancelled
<1>9. ASSUME disconnect \/ Unsubscribed \/ Closed \/ PDULost PROVE Advanced
  BY <1>9, <1>f DEF disconnect, Fault, Unsubscribed, Closed, Down, PDULost
<1>10. ASSUME NEW c \in Sessions, LinkLost(c) \/ _on_ble_disconnect(c) PROVE Advanced
  BY <1>10, <1>f DEF LinkLost, Down, Fault, _on_ble_disconnect
<1>11. ASSUME NEW o \in {0, 1}, SegmentRepeated(o) PROVE Advanced
  BY <1>11, <1>f DEF SegmentRepeated, Fault
<1>12. ASSUME NEW net \in {"ours", "other"}, NEW frame \in Frames, UnsolicitedHeard(net,
            frame)
      PROVE  Advanced
  BY <1>12, <1>f DEF UnsolicitedHeard, Fault
<1>13. ASSUME NEW z \in DOMAIN buffers, BufferAges(z) PROVE Advanced
  BY <1>13, <1>f DEF BufferAges, Fault
<1>14. CASE UNCHANGED vars
  BY <1>14, <1>f DEF vars
<1>. QED  BY <1>1, <1>2, <1>3, <1>4, <1>5, <1>6, <1>7, <1>8, <1>9, <1>10, <1>11, <1>12,
     <1>13, <1>14 DEF Next, ConnStep, SenderStep, Radio, send_power, send_level,
     send_vendor_command, send_config_appkey_add, send_config_model_app_bind

\* The last command applied, and those before it.
LEMMA SentStep == IInv /\ [Next]_vars => Sent'
<1> SUFFICES ASSUME IInv, [Next]_vars PROVE Sent'
  OBVIOUS
<1> DEFINE e == applied[Len(applied)]
<1>1. Advanced
  BY SendersAdvance
<1>2. /\ applied \in Seq([of : Senders, nth : Calls, tid : TransactionIds]) /\ Len(applied) \in Nat /\ Sent
      /\ applied # <<>> => Len(applied) > 0 /\ e.of \in Senders /\ e.nth \in Nat
      /\ \A t \in Senders : calls[t] \in Nat /\ calls'[t] \in Nat
  <2>1. applied \in Seq([of : Senders, nth : Calls, tid : TransactionIds]) /\ Sent
    BY DEF IInv, TypeOK, NodeTypes
  <2>2. ASSUME applied # <<>>
        PROVE  Len(applied) > 0 /\ e \in [of : Senders, nth : Calls, tid : TransactionIds]
    <3> DEFINE S == [of : Senders, nth : Calls, tid : TransactionIds]
    <3>1. applied \in Seq(S)
      BY <2>1
    <3> HIDE DEF S
    <3>2. Len(applied) > 0 /\ Len(applied) \in DOMAIN applied
      BY <2>2, <3>1
    <3>3. applied[Len(applied)] \in S
      BY <3>1, <3>2
    <3>. QED  BY <3>2, <3>3 DEF S
  <2> HIDE DEF e
  <2>3. applied # <<>> => Len(applied) > 0 /\ e.of \in Senders /\ e.nth \in Nat
    BY <2>2, RetriesCounted
  <2>4. calls \in [Senders -> Calls] /\ calls' \in [Senders -> Calls]
    BY SendStepTypes DEF IInv, TypeOK, SendTypes
  <2>5. \A t \in Senders : calls[t] \in Nat /\ calls'[t] \in Nat
    BY <2>4, RetriesCounted
  <2>6. Len(applied) \in Nat
    BY <2>1
  <2>. QED  BY <2>1, <2>3, <2>5, <2>6
<1>3. ASSUME applied' = applied, node'.last = node.last PROVE Sent'
  <2>1. NotAppliedTwice'
    BY <1>2, <1>3 DEF Sent, NotAppliedTwice
  <2>2. ASSUME applied # <<>>
        PROVE  /\ e.nth <= calls'[e.of]
               /\ e.nth = calls'[e.of] /\ pc'[e.of] \in {"writing", "backoff"} =>
                    transaction'[e.of] = node.last
    <3>1. /\ e.nth <= calls[e.of]
          /\ e.nth = calls[e.of] /\ pc[e.of] \in {"writing", "backoff"} =>
               transaction[e.of] = node.last
      BY <1>2, <2>2 DEF Sent
    <3>2. PICK t \in Senders : t = e.of
      BY <1>2, <2>2
    <3>. QED  BY <1>1, <1>2, <2>2, <3>1, <3>2 DEF Advanced
  <2>. QED  BY <1>3, <2>1, <2>2 DEF Sent
<1>4. ASSUME NEW s \in Senders, pc[s] = "writing", CommandHeard(s) PROVE Sent'
  <2>1. CASE ~(Retried(s) /\ transaction[s] # node.last)
    BY <1>3, <1>4, <2>1 DEF CommandHeard
  <2>2. CASE Retried(s) /\ transaction[s] # node.last
    <3> DEFINE c == Call(s)
    <3>0. c.of = s /\ c.nth = calls[s]
      BY DEF Call
    <3>1. applied' = Append(applied, c) /\ node'.last = transaction[s]
      BY <1>4, <2>2 DEF CommandHeard
    <3> HIDE DEF c
    <3>2. /\ Len(applied') = Len(applied) + 1 /\ applied'[Len(applied) + 1] = c
          /\ \A i \in 1..Len(applied) : applied'[i] = applied[i]
          /\ applied' # <<>>
      <4> DEFINE S == [of : Senders, nth : Calls, tid : TransactionIds]
      <4>1. calls[s] \in Calls /\ transaction[s] \in TransactionIds
        BY DEF IInv, TypeOK, SendTypes
      <4>2. applied \in Seq(S) /\ c \in S
        BY <1>2, <4>1 DEF c, Call
      <4> HIDE DEF S
      <4>3. \A q \in Seq(S) : \A x \in S :
              /\ Len(Append(q, x)) = Len(q) + 1 /\ Append(q, x)[Len(q) + 1] = x
              /\ \A i \in 1..Len(q) : Append(q, x)[i] = q[i]
        OBVIOUS
      <4>4. \A q \in Seq(S) : \A x \in S : Append(q, x) # <<>>
        <5> SUFFICES ASSUME NEW q \in Seq(S), NEW x \in S PROVE Append(q, x) # <<>>
          OBVIOUS
        <5>1. Len(Append(q, x)) = Len(q) + 1 /\ Len(q) \in Nat
          OBVIOUS
        <5>2. Len(Append(q, x)) # 0
          BY <5>1
        <5>3. Len(<<>>) = 0
          OBVIOUS
        <5>. QED  BY <5>2, <5>3, Zenon
      <4>. QED  BY <3>1, <4>2, <4>3, <4>4, Zenon
    <3>3. Len(applied) > 0 => <<e.of, e.nth>> # <<c.of, c.nth>>
      <4> SUFFICES ASSUME Len(applied) > 0, e.of = s, e.nth = calls[s] PROVE FALSE
        BY <3>0
      <4>1. applied # <<>>
        BY <1>2
      <4>. QED  BY <1>4, <2>2, <4>1, <1>2 DEF Sent
    <3>4. NotAppliedTwice'
      <4> SUFFICES ASSUME NEW i \in 1..Len(applied') - 1
                   PROVE <<applied'[i].of, applied'[i].nth>> # <<applied'[i + 1].of, applied'[i + 1].nth>>
        BY DEF NotAppliedTwice
      <4>1. CASE i = Len(applied)
        BY <1>2, <3>2, <3>3, <4>1
      <4>2. CASE i # Len(applied)
        <5>1. i \in 1..Len(applied) - 1 /\ i \in 1..Len(applied) /\ i + 1 \in 1..Len(applied)
          BY <1>2, <3>2, <4>2
        <5>. QED  BY <1>2, <3>2, <5>1 DEF Sent, NotAppliedTwice
      <4>. QED  BY <4>1, <4>2
    <3>5. /\ calls[s] <= calls'[s]
          /\ calls'[s] = calls[s] /\ pc'[s] \in {"writing", "backoff"} =>
               transaction'[s] = node'.last
      BY <1>1, <1>4, <3>1 DEF Advanced
    <3>6. applied'[Len(applied')] = c
      BY <3>2
    <3>. QED  BY <1>2, <3>0, <3>4, <3>5, <3>6 DEF Sent
  <2>. QED  BY <2>1, <2>2
<1>. QED  BY <1>3, <1>4, NodeSteps
          DEF NodeStep, nodeVars, PDUGone, Repetition, Unsolicited, RequestHeard

-----------------------------------------------------------------------------
(* The buffers, and what is read from them.                                *)

\* Only a segment changes what was received.
ReceiveStep == UNCHANGED <<buffers, composition, whole>> \/ (PDUGone /\ SegmentTaken)

\* In every step.
LEMMA ReceiveSteps == IInv /\ [Next]_vars => ReceiveStep
<1> SUFFICES ASSUME IInv, [Next]_vars PROVE ReceiveStep
  OBVIOUS
<1> USE DEF connVars, sendVars, rxVars, linkVars, nodeVars, history
<1>f. ASSUME UNCHANGED <<buffers, composition, whole>> PROVE ReceiveStep
  BY <1>f DEF ReceiveStep
<1>1. ASSUME _process_notify PROVE ReceiveStep
  BY <1>1, Notified DEF IInv, PDUGone, ReceiveStep, StatusTaken, ShownChanges
<1>2. ASSUME connect \/ _resolve_proxy_characteristics \/ request_composition_data \/
            CompositionAsked \/ AttemptClosed \/ NextAttempt \/ ConnectCancelled
      PROVE  ReceiveStep
  BY <1>2, <1>f DEF connect, _load_keys, _resolve_proxy_characteristics, Opened,
     AttemptFails, Fault, request_composition_data, ConnectEnds, FaultIfUp, NoFault,
     CompositionAsked, AttemptClosed, Down, NextAttempt, ConnectCancelled
<1>3. ASSUME disconnect \/ Unsubscribed \/ Closed \/ PDULost PROVE ReceiveStep
  BY <1>3, <1>f DEF disconnect, Fault, Unsubscribed, Closed, Down, PDULost
<1>4. ASSUME NEW s \in Senders, Send(s) \/ Written(s) \/ WriteFails(s) \/ SendAgain(s)
            \/ Resumed(s) \/ TimedOut(s)
      PROVE  ReceiveStep
  BY <1>4, <1>f DEF Send, _next_seqs, Written, Ends, Leaves, send_command_with_retry, WriteFails, SendAgain, NextTry,
     Resumed, TimedOut, Fault
<1>5. ASSUME NEW c \in Sessions, LinkLost(c) \/ _on_ble_disconnect(c) PROVE ReceiveStep
  BY <1>5, <1>f DEF LinkLost, Down, Fault, _on_ble_disconnect
<1>6. ASSUME NEW o \in {0, 1}, SegmentRepeated(o) PROVE ReceiveStep
  BY <1>6, <1>f DEF SegmentRepeated, Fault
<1>7. ASSUME NEW net \in {"ours", "other"}, NEW frame \in Frames, UnsolicitedHeard(net,
            frame)
      PROVE  ReceiveStep
  BY <1>7, <1>f DEF UnsolicitedHeard, Fault
<1>8. ASSUME NEW z \in DOMAIN buffers, BufferAges(z) PROVE ReceiveStep
  BY <1>8, <1>f DEF BufferAges, Fault
<1>9. CASE UNCHANGED vars
  BY <1>9, <1>f DEF vars
<1>. QED  BY <1>1, <1>2, <1>3, <1>4, <1>5, <1>6, <1>7, <1>8, <1>9 DEF Next, ConnStep,
     SenderStep, Radio, send_power, send_level, send_vendor_command,
     send_config_appkey_add, send_config_model_app_bind

\* A buffer keeps what its segments say.
LEMMA BuffersStep == IInv /\ [Next]_vars => BuffersTrue'
<1> SUFFICES ASSUME IInv, [Next]_vars PROVE BuffersTrue'
  OBVIOUS
<1>0. \A b, z : BufferTrue(b, z)' <=> BufferTrue(b, z)
  BY DEF BufferTrue, SegmentOf, CompositionSegment
<1>1. BuffersTrue
  BY DEF IInv
<1>2. CASE UNCHANGED buffers
  BY <1>0, <1>1, <1>2 DEF BuffersTrue
<1>3. CASE SegmentTaken
  <2>1. PICK q \in SeqNumbers, o \in {0, 1} : Completed(q, o) \/ Stored(q, o)
    BY <1>3 DEF SegmentTaken
  <2> DEFINE z == q % MESH_SEQ_ZERO
  <2>2. CASE Completed(q, o)
    <3>1. \A y \in DOMAIN buffers' : y \in DOMAIN buffers /\ buffers'[y] = buffers[y]
      BY <2>2 DEF Completed
    <3>. QED  BY <1>0, <1>1, <3>1 DEF BuffersTrue
  <2>3. CASE Stored(q, o)
    <3>1. /\ Kept(z) \cup {o} # {0, 1}
          /\ DOMAIN buffers' = (DOMAIN buffers \cup {z}) \ old
          /\ \A y \in DOMAIN buffers' \ {z} : buffers'[y] = buffers[y]
          /\ z \notin old =>
               /\ DOMAIN buffers'[z] = {"seg_n", "segs"} /\ buffers'[z].seg_n = 1
               /\ DOMAIN buffers'[z].segs = Kept(z) \cup {o}
               /\ buffers'[z].segs[o] = SegmentOf(q, o)
               /\ \A p \in Kept(z) \ {o} : buffers'[z].segs[p] = buffers[z].segs[p]
      BY <2>3 DEF Stored
    <3>2. q % MESH_SEQ_ZERO = z
      OBVIOUS
    <3> HIDE DEF z
    <3>3. ASSUME NEW y \in DOMAIN buffers', y # z PROVE BufferTrue(buffers'[y], y)
      BY <1>1, <3>1, <3>3 DEF BuffersTrue
    <3>4. ASSUME z \in DOMAIN buffers' PROVE BufferTrue(buffers'[z], z)
      <4>1. Kept(z) \subseteq {0, 1}
        BY <1>1 DEF BuffersTrue, BufferTrue, Kept
      <4>2. ASSUME NEW p \in Kept(z) \ {o}
            PROVE  \E r \in SeqNumbers :
                     r % MESH_SEQ_ZERO = z /\ buffers'[z].segs[p] = SegmentOf(r, p)
        BY <1>1, <3>1, <3>4 DEF BuffersTrue, BufferTrue, Kept
      <4>3. z \notin old /\ Kept(z) \cup {o} \subseteq {0, 1}
        BY <3>1, <3>4, <4>1
      <4>4. \A p \in Kept(z) \cup {o} : \E r \in SeqNumbers :
              r % MESH_SEQ_ZERO = z /\ buffers'[z].segs[p] = SegmentOf(r, p)
        BY <3>1, <3>2, <4>2, <4>3
      <4>. QED  BY <3>1, <4>3, <4>4 DEF BufferTrue
    <3>. QED  BY <1>0, <3>3, <3>4 DEF BuffersTrue
  <2>. QED  BY <2>1, <2>2, <2>3
<1>. QED  BY <1>2, <1>3, ReceiveSteps DEF ReceiveStep

\* A node that has passed to numbers that do not fit sends no other.
NoneFits ==
  /\ node.used # None /\ ~Fits(node.used)
  /\ \A i \in DOMAIN air : \A q \in SeqNumbers, o \in {0, 1} :
       air[i] = CompositionSegment(q, o) => ~Fits(q)

LEMMA NoneFitsStep == IInv /\ [Next]_vars /\ NoneFits => NoneFits'
<1> SUFFICES ASSUME IInv, [Next]_vars, NoneFits PROVE NoneFits'
  OBVIOUS
<1>0. NoneFits' <=>
        /\ node'.used # None /\ ~Fits(node'.used)
        /\ \A i \in DOMAIN air' : \A q \in SeqNumbers, o \in {0, 1} :
             air'[i] = CompositionSegment(q, o) => ~Fits(q)
  BY DEF NoneFits, CompositionSegment, Fits
<1>1. \A i \in DOMAIN air : \A q \in SeqNumbers, o \in {0, 1} :
        air[i] = CompositionSegment(q, o) => ~Fits(q)
  BY DEF NoneFits
<1>2. node.used \in SeqNumbers /\ ~Fits(node.used)
  BY DEF NoneFits, IInv, TypeOK, NodeTypes
<1>3. ASSUME node'.used = node.used, DOMAIN air' = {} \/ Shifted(0) \/ Shifted(1) PROVE NoneFits'
  BY <1>0, <1>1, <1>2, <1>3 DEF Shifted, NoneFits
<1>4. ASSUME NEW x, Unnumbered(x), Joined(x), node'.used = node.used PROVE NoneFits'
  <2>1. \A q, o : CompositionSegment(q, o) # x
    BY <1>4, SegmentsDiffer DEF Unnumbered
  <2>. QED  BY <1>0, <1>1, <1>2, <1>4, <2>1 DEF Joined, NoneFits
<1>5. ASSUME NEW r \in SeqNumbers, r >= node.used, node'.used = r, Answers(r) PROVE NoneFits'
  <2>1. ~Fits(r) /\ r # None
    <3>1. \A a, b \in SeqNumbers : b >= a /\ ~Fits(a) => ~Fits(b) /\ b # None
      BY SeqZeroFacts DEF Fits, MESH_SEQ_ZERO
    <3>. QED  BY <1>2, <1>5, <3>1
  <2>2. \A q, o, p : CompositionSegment(q, o) = CompositionSegment(r, p) => q = r
    BY SegmentsDiffer
  <2>3. ASSUME NEW i \in DOMAIN air', NEW q \in SeqNumbers, NEW o \in {0, 1},
               air'[i] = CompositionSegment(q, o)
        PROVE  ~Fits(q)
    <3>1. \/ i \in DOMAIN air /\ air'[i] = air[i]
          \/ \E p \in {0, 1} : air'[i] = CompositionSegment(r, p)
      BY <1>5 DEF Answers
    <3>. QED  BY <1>1, <2>1, <2>2, <2>3, <3>1
  <2>. QED  BY <1>0, <1>5, <2>1, <2>3
<1>. QED  BY <1>3, <1>4, <1>5, AirSteps DEF AirStep, NoneFits

\* What is received while the buffers are exact, and after the node has passed.
LEMMA ExactSegment ==
  ASSUME IInv, Exact, NEW q \in SeqNumbers, NEW o \in {0, 1}, Fits(q), Stored(q, o)
  PROVE  Exact'
<1>1. q % MESH_SEQ_ZERO = q /\ \A r \in SeqNumbers : Fits(r) => r % MESH_SEQ_ZERO = r
  BY SeqZeroFacts
<1>2. /\ DOMAIN buffers' = (DOMAIN buffers \cup {q}) \ old
      /\ \A y \in DOMAIN buffers' \ {q} : buffers'[y] = buffers[y]
      /\ q \notin old =>
           /\ DOMAIN buffers'[q].segs = Kept(q) \cup {o}
           /\ buffers'[q].segs[o] = SegmentOf(q, o)
           /\ \A p \in Kept(q) \ {o} : buffers'[q].segs[p] = buffers[q].segs[p]
      /\ whole' = [r \in SeqNumbers |-> IF r % MESH_SEQ_ZERO \in old THEN {}
                                        ELSE IF r = q THEN whole[r] \cup {o} ELSE whole[r]]
  BY <1>1 DEF Stored
<1>3. /\ \A r \in SeqNumbers : Fits(r) =>
           whole[r] = IF r \in DOMAIN buffers THEN DOMAIN buffers[r].segs ELSE {}
      /\ \A z \in DOMAIN buffers : \A p \in DOMAIN buffers[z].segs :
           z \in SeqNumbers /\ buffers[z].segs[p] = SegmentOf(z, p)
  BY DEF Exact
<1>4. ASSUME NEW r \in SeqNumbers, Fits(r)
      PROVE  whole'[r] = IF r \in DOMAIN buffers' THEN DOMAIN buffers'[r].segs ELSE {}
  <2>1. whole'[r] = IF r \in old THEN {} ELSE IF r = q THEN whole[r] \cup {o} ELSE whole[r]
    BY <1>1, <1>2, <1>4
  <2>. QED  BY <1>2, <1>3, <1>4, <2>1 DEF Kept
<1>5. ASSUME NEW z \in DOMAIN buffers', NEW p \in DOMAIN buffers'[z].segs
      PROVE  z \in SeqNumbers /\ buffers'[z].segs[p] = SegmentOf(z, p)
  BY <1>2, <1>3, <1>5 DEF Kept
<1>6. \A r, p : SegmentOf(r, p)' = SegmentOf(r, p)
  BY DEF SegmentOf, CompositionSegment
<1>. QED  BY <1>4, <1>5, <1>6 DEF Exact, Fits

LEMMA PassedSegment ==
  ASSUME IInv, NEW q \in SeqNumbers, NEW o \in {0, 1}, ~Fits(q), Completed(q, o) \/ Stored(q, o),
         \A r \in SeqNumbers : Fits(r) => whole[r] # {0, 1}
  PROVE  \A r \in SeqNumbers : Fits(r) => whole'[r] # {0, 1}
<1> SUFFICES ASSUME NEW r \in SeqNumbers, Fits(r) PROVE whole'[r] # {0, 1}
  OBVIOUS
<1>1. r # q
  OBVIOUS
<1>2. whole'[r] = whole[r] \/ whole'[r] = {}
  BY <1>1 DEF Completed, Stored
<1>. QED  BY <1>2

\* A message that fits is read when it is whole.
LEMMA ReadingStep == IInv /\ [Next]_vars => Reading'
<1> SUFFICES ASSUME IInv, [Next]_vars PROVE Reading'
  OBVIOUS
<1>1. Reading /\ BuffersTrue /\ AirOrder /\ whole \in [SeqNumbers -> SUBSET {0, 1}]
  BY DEF IInv, TypeOK, ReceiveTypes
<1>2. Passed <=> NoneFits /\ \A q \in SeqNumbers : Fits(q) => whole[q] # {0, 1}
  BY DEF Passed, NoneFits
<1>3. NoneFits' /\ (\A q \in SeqNumbers : Fits(q) => whole'[q] # {0, 1}) => Passed'
  BY DEF Passed, NoneFits, Fits
<1>4. CASE UNCHANGED <<buffers, composition, whole>>
  <2>1. Exact => Exact'
    BY <1>4 DEF Exact, Fits, SegmentOf, CompositionSegment
  <2>2. Passed => Passed'
    BY <1>2, <1>3, <1>4, NoneFitsStep
  <2>. QED  BY <1>1, <1>4, <2>1, <2>2 DEF Reading, Fits
<1>5. CASE PDUGone /\ SegmentTaken
  <2>1. PICK q \in SeqNumbers, o \in {0, 1} :
          air[1] = CompositionSegment(q, o) /\ (Completed(q, o) \/ Stored(q, o))
    BY <1>5 DEF SegmentTaken
  <2>2. composition' = composition \/ (composition' = q /\ Fits(q))
    BY <2>1 DEF Completed, Stored
  <2>3. q # None
    BY SeqZeroFacts
  <2>4. composition' # None => Fits(composition')
    BY <1>1, <2>2 DEF Reading
  <2>5. ASSUME composition' = None PROVE Exact' \/ Passed'
    <3>1. composition' = composition
      BY <2>2, <2>3, <2>5
    <3>2. CASE Passed
      <4>1. ~Fits(q)
        <5>1. 1 \in DOMAIN air
          BY <1>5 DEF PDUGone, IInv, TypeOK, NodeTypes
        <5>. QED  BY <1>2, <2>1, <3>2, <5>1 DEF NoneFits
      <4>. QED  BY <1>2, <1>3, <2>1, <3>2, <4>1, PassedSegment, NoneFitsStep
    <3>3. CASE Exact /\ Fits(q)
      <4>1. ~Completed(q, o)
        <5>1. q % MESH_SEQ_ZERO = q
          BY <3>3, SeqZeroFacts
        <5>2. ASSUME NEW p \in Kept(q) PROVE buffers[q].segs[p] = SegmentOf(q, p)
          BY <3>3, <5>2 DEF Exact, Kept
        <5>3. Completed(q, o) =>
                composition' = q \/ \E p \in Kept(q) : buffers[q].segs[p] # SegmentOf(q, p)
          BY <3>3, <5>1 DEF Completed
        <5>. QED  BY <2>3, <2>5, <5>2, <5>3
      <4>. QED  BY <2>1, <3>3, <4>1, ExactSegment
    <3>4. CASE Exact /\ ~Fits(q)
      <4>1. /\ 1 \in DOMAIN air /\ air \in Seq(ToSet(air))
            /\ air' = Tail(air) /\ node' = node /\ air # <<>>
        BY <1>5 DEF PDUGone, IInv, TypeOK, NodeTypes
      <4>2. \A a, b \in SeqNumbers : a <= b /\ ~Fits(a) => ~Fits(b)
        BY SeqZeroFacts DEF Fits, MESH_SEQ_ZERO
      <4>3. node.used # None /\ ~Fits(node.used)
        <5>1. node.used \in SeqNumbers \cup {None} /\ node.used # None /\ q <= node.used
          BY <1>1, <2>1, <4>1 DEF AirOrder, IInv, TypeOK, NodeTypes
        <5>. QED  BY <3>4, <4>2, <5>1
      <4>4. ASSUME NEW i \in DOMAIN air', NEW r \in SeqNumbers, NEW p \in {0, 1},
                   air'[i] = CompositionSegment(r, p)
            PROVE  ~Fits(r)
        <5>1. i + 1 \in DOMAIN air /\ air'[i] = air[i + 1]
          BY <4>1, TailTyped
        <5>2. 1 < i + 1
          BY <4>1, <5>1
        <5> DEFINE j == i + 1
        <5>3. j \in DOMAIN air /\ 1 < j /\ air[j] = CompositionSegment(r, p)
          BY <4>4, <5>1, <5>2
        <5> HIDE DEF j
        <5>4. q <= r
          BY <1>1, <2>1, <4>1, <5>3 DEF AirOrder
        <5>. QED  BY <3>4, <4>2, <5>4
      <4>5. NoneFits'
        BY <4>1, <4>3, <4>4 DEF NoneFits, Fits, CompositionSegment
      <4>6. \A r \in SeqNumbers : Fits(r) => whole[r] # {0, 1}
        BY <1>1, <3>4 DEF Exact, BuffersTrue, BufferTrue
      <4>. QED  BY <1>3, <2>1, <3>4, <4>5, <4>6, PassedSegment
    <3>. QED  BY <1>1, <2>5, <3>1, <3>2, <3>3, <3>4 DEF Reading
  <2>. QED  BY <2>4, <2>5 DEF Reading, Fits
<1>. QED  BY <1>4, <1>5, ReceiveSteps DEF ReceiveStep

-----------------------------------------------------------------------------
(* The connections.                                                        *)

\* The clients connect() and disconnect() hold were opened.
LEMMA SessionStep == IInv /\ [Next]_vars => Sessioned'
<1> SUFFICES ASSUME IInv, [Next]_vars PROVE Sessioned'
  OBVIOUS
<1> USE DEF connVars, sendVars, rxVars, linkVars, nodeVars, history
<1>f. ASSUME UNCHANGED <<connecting, mine, client, stopping, stopOn, link, unreported,
                         subscribed, late>>
      PROVE  Sessioned'
  BY <1>f DEF IInv, Sessioned
<1>1. ASSUME connect PROVE Sessioned'
  BY <1>1 DEF connect, _load_keys, IInv, TypeOK, ConnTypes, LinkTypes, Sessioned
<1>2. ASSUME _resolve_proxy_characteristics PROVE Sessioned'
  BY <1>2 DEF _resolve_proxy_characteristics, Opened, AttemptFails, Fault, IInv, TypeOK,
     ConnTypes, LinkTypes, Sessioned
<1>3. ASSUME request_composition_data PROVE Sessioned'
  BY <1>3 DEF request_composition_data, ConnectEnds, FaultIfUp, Fault, NoFault, IInv,
     TypeOK, ConnTypes, LinkTypes, Sessioned
<1>4. ASSUME CompositionAsked PROVE Sessioned'
  BY <1>4 DEF CompositionAsked, ConnectEnds, AttemptFails, FaultIfUp, Fault, NoFault,
     IInv, TypeOK, ConnTypes, LinkTypes, Sessioned
<1>5. ASSUME AttemptClosed PROVE Sessioned'
  BY <1>5 DEF AttemptClosed, Down, IInv, TypeOK, ConnTypes, LinkTypes, Sessioned
<1>6. ASSUME NextAttempt PROVE Sessioned'
  BY <1>6 DEF NextAttempt, ConnectEnds, IInv, TypeOK, ConnTypes, LinkTypes, Sessioned
<1>7. ASSUME ConnectCancelled PROVE Sessioned'
  BY <1>7 DEF ConnectCancelled, ConnectEnds, Fault, IInv, TypeOK, ConnTypes, LinkTypes,
     Sessioned
<1>8. ASSUME disconnect PROVE Sessioned'
  BY <1>8 DEF disconnect, Fault, IInv, TypeOK, ConnTypes, LinkTypes, Sessioned
<1>9. ASSUME Unsubscribed PROVE Sessioned'
  BY <1>9 DEF Unsubscribed, IInv, TypeOK, ConnTypes, LinkTypes, Sessioned
<1>10. ASSUME Closed PROVE Sessioned'
  BY <1>10 DEF Closed, Down, IInv, TypeOK, ConnTypes, LinkTypes, Sessioned
<1>11. ASSUME NEW c \in Sessions, LinkLost(c) PROVE Sessioned'
  BY <1>11 DEF LinkLost, Down, Fault, IInv, TypeOK, ConnTypes, LinkTypes, Sessioned
<1>12. ASSUME NEW c \in Sessions, _on_ble_disconnect(c) PROVE Sessioned'
  BY <1>12 DEF _on_ble_disconnect, IInv, TypeOK, ConnTypes, LinkTypes, Sessioned
<1>13. ASSUME _process_notify PROVE Sessioned'
  BY <1>13, Notified DEF IInv, TypeOK, ConnTypes, LinkTypes, Sessioned
<1>14. ASSUME NEW s \in Senders, Send(s) \/ Written(s) \/ WriteFails(s) \/ SendAgain(s)
            \/ Resumed(s) \/ TimedOut(s)
      PROVE  Sessioned'
  BY <1>14, <1>f DEF Send, _next_seqs, Written, Ends, Leaves, send_command_with_retry, WriteFails, SendAgain, NextTry,
     Resumed, TimedOut, Fault
<1>15. ASSUME NEW o \in {0, 1}, SegmentRepeated(o) PROVE Sessioned'
  BY <1>15, <1>f DEF SegmentRepeated, Fault
<1>16. ASSUME NEW net \in {"ours", "other"}, NEW frame \in Frames, UnsolicitedHeard(net,
            frame)
      PROVE  Sessioned'
  BY <1>16, <1>f DEF UnsolicitedHeard, Fault
<1>17. ASSUME PDULost PROVE Sessioned'
  BY <1>17, <1>f DEF PDULost, Fault
<1>18. ASSUME NEW z \in DOMAIN buffers, BufferAges(z) PROVE Sessioned'
  BY <1>18, <1>f DEF BufferAges, Fault
<1>19. CASE UNCHANGED vars
  BY <1>19, <1>f DEF vars
<1>. QED  BY <1>1, <1>2, <1>3, <1>4, <1>5, <1>6, <1>7, <1>8, <1>9, <1>10, <1>11, <1>12,
     <1>13, <1>14, <1>15, <1>16, <1>17, <1>18, <1>19 DEF Next, ConnStep, SenderStep,
     Radio, send_power, send_level, send_vendor_command, send_config_appkey_add,
     send_config_model_app_bind

\* A connection is tracked.
LEMMA TrackStep == IInv /\ [Next]_vars => Tracked'
<1> SUFFICES ASSUME IInv, [Next]_vars PROVE Tracked'
  OBVIOUS
<1> USE DEF connVars, sendVars, rxVars, linkVars, nodeVars, history
<1>f. ASSUME UNCHANGED <<connecting, mine, client, stopping, stopOn, link, unreported,
                         subscribed, late>>
      PROVE  Tracked'
  BY <1>f DEF IInv, Tracked, Gone
<1>1. ASSUME connect PROVE Tracked'
  <2>1. /\ connecting = "idle" /\ connecting' = "opening" /\ (client = 0 \/ link[client] # "up")
        /\ UNCHANGED <<client, mine, link, unreported, subscribed, late>>
    BY <1>1 DEF connect, is_connected
  <2>2. client # 0 => link[client] \in {"none", "up", "down"} /\ link[client] # "none"
    BY DEF IInv, TypeOK, ConnTypes, LinkTypes, Sessioned
  <2>. QED  BY <2>1, <2>2 DEF IInv, Sessioned, Tracked, Gone
<1>2. ASSUME _resolve_proxy_characteristics PROVE Tracked'
  BY <1>2 DEF _resolve_proxy_characteristics, Opened, AttemptFails, Fault, IInv, TypeOK,
     ConnTypes, LinkTypes, Sessioned, Tracked, Gone
<1>3. ASSUME request_composition_data PROVE Tracked'
  BY <1>3 DEF request_composition_data, ConnectEnds, FaultIfUp, Fault, NoFault, IInv,
     TypeOK, ConnTypes, LinkTypes, Sessioned, Tracked, Gone
<1>4. ASSUME CompositionAsked PROVE Tracked'
  <2>1. /\ connecting = "composing" /\ mine # 0
        /\ UNCHANGED <<client, link, unreported, subscribed, late>>
    BY <1>4 DEF CompositionAsked, IInv, Sessioned
  <2>2. \/ connecting' = "idle" /\ mine' = 0
        \/ connecting' = "closing" /\ mine' = mine
    BY <1>4, <2>1 DEF CompositionAsked, ConnectEnds, AttemptFails
  <2>3. link[mine] \in {"up", "down"}
    BY <2>1 DEF IInv, TypeOK, ConnTypes, LinkTypes, Sessioned
  <2>. QED  BY <2>1, <2>2, <2>3 DEF IInv, Sessioned, Tracked, Gone
<1>5. ASSUME AttemptClosed PROVE Tracked'
  BY <1>5 DEF AttemptClosed, Down, IInv, TypeOK, ConnTypes, LinkTypes, Sessioned,
     Tracked, Gone
<1>6. ASSUME NextAttempt PROVE Tracked'
  BY <1>6 DEF NextAttempt, ConnectEnds, IInv, TypeOK, ConnTypes, LinkTypes, Sessioned,
     Tracked, Gone
<1>7. ASSUME ConnectCancelled PROVE Tracked'
  BY <1>7 DEF ConnectCancelled, ConnectEnds, Fault, IInv, TypeOK, ConnTypes, LinkTypes,
     Sessioned, Tracked, Gone
<1>8. ASSUME disconnect PROVE Tracked'
  BY <1>8 DEF disconnect, Fault, IInv, TypeOK, ConnTypes, LinkTypes, Sessioned, Tracked,
     Gone
<1>9. ASSUME Unsubscribed PROVE Tracked'
  BY <1>9 DEF Unsubscribed, IInv, TypeOK, ConnTypes, LinkTypes, Sessioned, Tracked, Gone
<1>10. ASSUME Closed PROVE Tracked'
  <2>1. /\ stopOn \in Sessions /\ client' = 0 /\ UNCHANGED <<connecting, mine>>
        /\ link' = [link EXCEPT ![stopOn] = "down"] /\ subscribed' = subscribed \ {stopOn}
        /\ unreported' = IF link[stopOn] = "up" THEN unreported \cup {stopOn} ELSE unreported
    BY <1>10 DEF Closed, Down, IInv, Sessioned, TypeOK, ConnTypes
  <2>2. ~late' => ~late /\ client \in {0, stopOn}
    BY <1>10 DEF Closed
  <2>3. mine # 0 => mine \in Sessions /\ link'[mine] = IF mine = stopOn THEN "down" ELSE link[mine]
    BY <2>1 DEF IInv, TypeOK, ConnTypes, LinkTypes
  <2>4. /\ \A c \in subscribed : c # 0 /\ link[c] = "up"
        /\ Sessioned /\ Tracked /\ (~late' => ~late)
    BY <2>2 DEF IInv, TypeOK, LinkTypes, Sessioned
  <2>6. Gone' /\ UNCHANGED <<connecting, mine>>
    BY <2>1 DEF Gone
  <2>7. ASSUME ~late', NEW c \in subscribed' PROVE c = mine
    BY <2>1, <2>2, <2>4, <2>7 DEF Tracked
  <2>8. ASSUME ~late', connecting = "subscribing"
        PROVE  mine \notin subscribed' /\ (link'[mine] = "down" => mine \in unreported')
    <3>1. mine # 0 /\ mine \notin subscribed /\ link[mine] # "none"
          /\ (link[mine] = "down" => mine \in unreported)
      BY <2>4, <2>8 DEF Sessioned, Tracked
    <3>2. link[mine] = "up" \/ link[mine] = "down"
      BY <3>1 DEF IInv, TypeOK, ConnTypes, LinkTypes
    <3>. QED  BY <2>1, <2>3, <3>1, <3>2
  <2>9. ASSUME ~late', connecting = "composing" PROVE link'[mine] # "up"
    <3>1. mine # 0 /\ (link[mine] = "up" => client = mine)
      BY <2>4, <2>9 DEF Sessioned, Tracked
    <3>. QED  BY <2>2, <2>3, <2>9, <3>1
  <2>10. ASSUME ~late', connecting = "closing", link'[mine] = "up" PROVE mine \notin subscribed'
    <3>1. mine # 0 /\ (link[mine] = "up" => client = mine \/ mine \notin subscribed)
      BY <2>4, <2>10 DEF Sessioned, Tracked
    <3>. QED  BY <2>1, <2>2, <2>3, <2>10, <3>1
  <2>11. ASSUME ~late', connecting = "backoff" PROVE mine = 0 \/ link'[mine] = "down"
    BY <2>3, <2>4, <2>11 DEF Tracked
  <2>. QED  BY <2>1, <2>6, <2>7, <2>8, <2>9, <2>10, <2>11 DEF Tracked
<1>11. ASSUME NEW c \in Sessions, LinkLost(c) PROVE Tracked'
  BY <1>11 DEF LinkLost, Down, Fault, IInv, TypeOK, ConnTypes, LinkTypes, Sessioned,
     Tracked, Gone
<1>12. ASSUME NEW c \in Sessions, _on_ble_disconnect(c) PROVE Tracked'
  BY <1>12 DEF _on_ble_disconnect, IInv, TypeOK, ConnTypes, LinkTypes, Sessioned,
     Tracked, Gone
<1>13. ASSUME _process_notify PROVE Tracked'
  <2>1. UNCHANGED <<connecting, mine, client, stopping, stopOn, link, unreported, subscribed, late>>
    BY <1>13, Notified DEF IInv
  <2>. QED  BY <2>1, <1>f
<1>14. ASSUME NEW s \in Senders, Send(s) \/ Written(s) \/ WriteFails(s) \/ SendAgain(s)
            \/ Resumed(s) \/ TimedOut(s)
      PROVE  Tracked'
  BY <1>14, <1>f DEF Send, _next_seqs, Written, Ends, Leaves, send_command_with_retry, WriteFails, SendAgain, NextTry,
     Resumed, TimedOut, Fault
<1>15. ASSUME NEW o \in {0, 1}, SegmentRepeated(o) PROVE Tracked'
  BY <1>15, <1>f DEF SegmentRepeated, Fault
<1>16. ASSUME NEW net \in {"ours", "other"}, NEW frame \in Frames, UnsolicitedHeard(net,
            frame)
      PROVE  Tracked'
  BY <1>16, <1>f DEF UnsolicitedHeard, Fault
<1>17. ASSUME PDULost PROVE Tracked'
  BY <1>17, <1>f DEF PDULost, Fault
<1>18. ASSUME NEW z \in DOMAIN buffers, BufferAges(z) PROVE Tracked'
  BY <1>18, <1>f DEF BufferAges, Fault
<1>19. CASE UNCHANGED vars
  BY <1>19, <1>f DEF vars
<1>. QED  BY <1>1, <1>2, <1>3, <1>4, <1>5, <1>6, <1>7, <1>8, <1>9, <1>10, <1>11, <1>12,
     <1>13, <1>14, <1>15, <1>16, <1>17, <1>18, <1>19 DEF Next, ConnStep, SenderStep,
     Radio, send_power, send_level, send_vendor_command, send_config_appkey_add,
     send_config_model_app_bind

-----------------------------------------------------------------------------
(* The flags.                                                              *)

\* Those of the client, and of the histories.
Raised ==
  keys \in BOOLEAN /\ lossy \in BOOLEAN /\ unanswered \in BOOLEAN /\ late \in BOOLEAN

\* After every step.
LEMMA RaisedStep == IInv /\ [Next]_vars => Raised'
<1> SUFFICES ASSUME IInv, [Next]_vars PROVE Raised'
  OBVIOUS
<1> USE DEF connVars, sendVars, rxVars, linkVars, nodeVars, history
<1>f. ASSUME UNCHANGED <<keys, lossy, unanswered, late>> PROVE Raised'
  BY <1>f DEF IInv, TypeOK, FlagTypes, Raised
<1>1. ASSUME connect PROVE Raised'
  BY <1>1 DEF connect, _load_keys, IInv, TypeOK, FlagTypes, Raised
<1>2. ASSUME CompositionAsked PROVE Raised'
  <2>1. lossy' = lossy \/ lossy' = TRUE
    BY <1>2 DEF CompositionAsked, Delivered, LostOnAir, Hear
  <2>2. keys' = keys /\ late' = late
    BY <1>2 DEF CompositionAsked
  <2>3. unanswered' \in BOOLEAN
    BY <1>2 DEF CompositionAsked, Ends, Leaves, send_command_with_retry, IInv, TypeOK, FlagTypes
  <2>. QED  BY <2>1, <2>2, <2>3 DEF IInv, TypeOK, FlagTypes, Raised
<1>3. ASSUME AttemptClosed PROVE Raised'
  BY <1>3 DEF AttemptClosed, Down, IInv, TypeOK, FlagTypes, Raised
<1>4. ASSUME disconnect PROVE Raised'
  BY <1>4 DEF disconnect, Fault, IInv, TypeOK, FlagTypes, Raised
<1>5. ASSUME Closed PROVE Raised'
  BY <1>5 DEF Closed, Down, IInv, TypeOK, FlagTypes, Raised
<1>6. ASSUME NEW s \in Senders, Written(s) PROVE Raised'
  <2>1. lossy' = lossy \/ lossy' = TRUE
    BY <1>6 DEF Written, Delivered, LostOnAir, Hear
  <2>2. keys' = keys /\ late' = late
    BY <1>6 DEF Written
  <2>3. unanswered' \in BOOLEAN
    BY <1>6 DEF Written, Ends, Leaves, send_command_with_retry, IInv, TypeOK, FlagTypes
  <2>. QED  BY <2>1, <2>2, <2>3 DEF IInv, TypeOK, FlagTypes, Raised
<1>7. ASSUME NEW s \in Senders, WriteFails(s) PROVE Raised'
  <2>1. lossy' = lossy \/ lossy' = TRUE
    BY <1>7 DEF WriteFails, Delivered, LostOnAir, Hear
  <2>2. keys' = keys /\ late' = late
    BY <1>7 DEF WriteFails
  <2>3. unanswered' \in BOOLEAN
    BY <1>7 DEF WriteFails, Ends, Leaves, send_command_with_retry, IInv, TypeOK, FlagTypes
  <2>. QED  BY <2>1, <2>2, <2>3 DEF IInv, TypeOK, FlagTypes, Raised
<1>8. ASSUME NEW s \in Senders, SendAgain(s) PROVE Raised'
  BY <1>8 DEF SendAgain, Ends, Leaves, send_command_with_retry, NextTry, IInv, TypeOK, FlagTypes, Raised
<1>9. ASSUME NEW s \in Senders, Resumed(s) PROVE Raised'
  BY <1>9 DEF Resumed, Ends, Leaves, send_command_with_retry, IInv, TypeOK, FlagTypes, Raised
<1>10. ASSUME NEW s \in Senders, TimedOut(s) PROVE Raised'
  BY <1>10 DEF TimedOut, Ends, Leaves, send_command_with_retry, Fault, IInv, TypeOK, FlagTypes, Raised
<1>11. ASSUME NEW c \in Sessions, LinkLost(c) PROVE Raised'
  BY <1>11 DEF LinkLost, Down, Fault, IInv, TypeOK, FlagTypes, Raised
<1>12. ASSUME NEW c \in Sessions, _on_ble_disconnect(c) PROVE Raised'
  BY <1>12 DEF _on_ble_disconnect, IInv, TypeOK, FlagTypes, Raised
<1>13. ASSUME PDULost PROVE Raised'
  BY <1>13 DEF PDULost, Fault, IInv, TypeOK, FlagTypes, Raised
<1>14. ASSUME _process_notify PROVE Raised'
  <2>1. lossy' \in BOOLEAN
    BY <1>14 DEF _process_notify, IInv, TypeOK, FlagTypes
  <2>2. UNCHANGED <<keys, unanswered, late>>
    BY <1>14, Notified DEF IInv
  <2>. QED  BY <2>1, <2>2 DEF IInv, TypeOK, FlagTypes, Raised
<1>15. ASSUME _resolve_proxy_characteristics \/ request_composition_data \/ NextAttempt
            \/ ConnectCancelled \/ Unsubscribed
      PROVE  Raised'
  BY <1>15, <1>f DEF _resolve_proxy_characteristics, Opened, AttemptFails, Fault,
     request_composition_data, ConnectEnds, FaultIfUp, NoFault, NextAttempt,
     ConnectCancelled, Unsubscribed
<1>16. ASSUME NEW s \in Senders, Send(s) PROVE Raised'
  BY <1>16, <1>f DEF Send, _next_seqs
<1>17. ASSUME NEW o \in {0, 1}, SegmentRepeated(o) PROVE Raised'
  BY <1>17, <1>f DEF SegmentRepeated, Fault
<1>18. ASSUME NEW net \in {"ours", "other"}, NEW frame \in Frames, UnsolicitedHeard(net,
            frame)
      PROVE  Raised'
  BY <1>18, <1>f DEF UnsolicitedHeard, Fault
<1>19. ASSUME NEW z \in DOMAIN buffers, BufferAges(z) PROVE Raised'
  BY <1>19, <1>f DEF BufferAges, Fault
<1>20. CASE UNCHANGED vars
  BY <1>20, <1>f DEF vars
<1>. QED  BY <1>1, <1>2, <1>3, <1>4, <1>5, <1>6, <1>7, <1>8, <1>9, <1>10, <1>11, <1>12,
     <1>13, <1>14, <1>15, <1>16, <1>17, <1>18, <1>19, <1>20 DEF Next, ConnStep,
     SenderStep, Radio, send_power, send_level, send_vendor_command,
     send_config_appkey_add, send_config_model_app_bind

\* The switch that is shown: every update leaves it on or off.
Lit(x) == x.is_on \in BOOLEAN

LEMMA UpdatesLit ==
  ASSUME TypeOK, NEW v
  PROVE  Lit(_on_onoff_update(v)) /\ Lit(_on_level_update(v)) /\ Lit(_on_vendor_update(v))
<1>1. ShownTyped(shown) /\ Lit(shown)
  BY DEF TypeOK, ReceiveTypes, FlagTypes, ShownTyped, Lit
<1>2. ASSUME NEW w, NEW b \in BOOLEAN
      PROVE  /\ Lit([shown EXCEPT !.is_on = b]) /\ Lit([shown EXCEPT !.brightness = w, !.is_on = b])
             /\ Lit([shown EXCEPT !.power_w = w])
  <2>1. /\ [shown EXCEPT !.is_on = b].is_on = b
        /\ [shown EXCEPT !.brightness = w, !.is_on = b].is_on = b
        /\ [shown EXCEPT !.power_w = w].is_on = shown.is_on
    BY <1>1 DEF ShownTyped
  <2>. QED  BY <1>1, <2>1 DEF Lit
<1>3. Lit(_on_onoff_update(v))
  <2> DEFINE b == v = 1
  <2>1. b \in BOOLEAN
    OBVIOUS
  <2>2. _on_onoff_update(v) = [shown EXCEPT !.is_on = b]
    BY DEF _on_onoff_update
  <2> HIDE DEF b
  <2>. QED  BY <1>2, <2>1, <2>2
<1>4. Lit(_on_level_update(v))
  <2> DEFINE w == Brightness(v)
             b == w > 0
  <2>1. b \in BOOLEAN
    OBVIOUS
  <2>2. _on_level_update(v) = [shown EXCEPT !.brightness = w, !.is_on = b]
    BY DEF _on_level_update
  <2> HIDE DEF w, b
  <2>. QED  BY <1>2, <2>1, <2>2
<1>5. Lit(_on_vendor_update(v))
  <2>1. \/ _on_vendor_update(v) = shown
        \/ \E w : _on_vendor_update(v) = [shown EXCEPT !.power_w = w]
    BY DEF _on_vendor_update
  <2>. QED  BY <1>1, <1>2, <2>1
<1>. QED  BY <1>3, <1>4, <1>5

LEMMA DispatchLit ==
  ASSUME TypeOK, NEW p, _dispatch_access_payload_unlocked(p)
  PROVE  Lit(shown')
<1>1. \/ shown' = shown
      \/ \E v : shown' = _on_onoff_update(v)
      \/ \E v : shown' = _on_level_update(v)
      \/ \E v : shown' = _on_vendor_update(v)
  <2>1. \/ shown' = shown
        \/ shown' = CASE p.op = "onoff_status"     -> _on_onoff_update(p.val)
                     [] p.op = "level_status"     -> _on_level_update(p.val)
                     [] p.op = "lightness_status" -> _on_level_update(p.val - 32768)
                     [] p.op = "vendor_data"      -> _on_vendor_update(parse_tuya_vendor_frame(p))
                     [] OTHER                     -> shown
    BY DEF _dispatch_access_payload_unlocked, parse_access_opcode
  <2>2. CASE p.op = "onoff_status"
    BY <2>1, <2>2
  <2>3. CASE p.op = "level_status"
    BY <2>1, <2>3
  <2>4. CASE p.op = "lightness_status"
    BY <2>1, <2>4
  <2>5. CASE p.op = "vendor_data"
    BY <2>1, <2>5
  <2>6. CASE p.op \notin {"onoff_status", "level_status", "lightness_status", "vendor_data"}
    BY <2>1, <2>6
  <2>. QED  BY <2>2, <2>3, <2>4, <2>5, <2>6
<1>. QED  BY <1>1, UpdatesLit DEF TypeOK, FlagTypes, Lit

\* After every step.
LEMMA LitStep == IInv /\ [Next]_vars => Lit(shown')
<1> SUFFICES ASSUME IInv, [Next]_vars PROVE Lit(shown')
  OBVIOUS
<1> USE DEF connVars, sendVars, rxVars, linkVars, nodeVars, history
<1>f. ASSUME UNCHANGED <<shown>> PROVE Lit(shown')
  BY <1>f DEF IInv, TypeOK, FlagTypes, Lit
<1>1. ASSUME _process_notify PROVE Lit(shown')
  <2>1. shown' = shown \/ \E p : _dispatch_access_payload_unlocked(p)
    BY <1>1 DEF _process_notify, _handle_segment
  <2>. QED  BY <2>1, DispatchLit DEF IInv, TypeOK, FlagTypes, Lit
<1>2. ASSUME connect \/ _resolve_proxy_characteristics \/ request_composition_data \/
            CompositionAsked \/ AttemptClosed \/ NextAttempt \/ ConnectCancelled
      PROVE  Lit(shown')
  BY <1>2, <1>f DEF connect, _load_keys, _resolve_proxy_characteristics, Opened,
     AttemptFails, Fault, request_composition_data, ConnectEnds, FaultIfUp, NoFault,
     CompositionAsked, AttemptClosed, Down, NextAttempt, ConnectCancelled
<1>3. ASSUME disconnect \/ Unsubscribed \/ Closed \/ PDULost PROVE Lit(shown')
  BY <1>3, <1>f DEF disconnect, Fault, Unsubscribed, Closed, Down, PDULost
<1>4. ASSUME NEW s \in Senders, Send(s) \/ Written(s) \/ WriteFails(s) \/ SendAgain(s)
            \/ Resumed(s) \/ TimedOut(s)
      PROVE  Lit(shown')
  BY <1>4, <1>f DEF Send, _next_seqs, Written, Ends, Leaves, send_command_with_retry, WriteFails, SendAgain, NextTry,
     Resumed, TimedOut, Fault
<1>5. ASSUME NEW c \in Sessions, LinkLost(c) \/ _on_ble_disconnect(c) PROVE Lit(shown')
  BY <1>5, <1>f DEF LinkLost, Down, Fault, _on_ble_disconnect
<1>6. ASSUME NEW o \in {0, 1}, SegmentRepeated(o) PROVE Lit(shown')
  BY <1>6, <1>f DEF SegmentRepeated, Fault
<1>7. ASSUME NEW net \in {"ours", "other"}, NEW frame \in Frames, UnsolicitedHeard(net,
            frame)
      PROVE  Lit(shown')
  BY <1>7, <1>f DEF UnsolicitedHeard, Fault
<1>8. ASSUME NEW z \in DOMAIN buffers, BufferAges(z) PROVE Lit(shown')
  BY <1>8, <1>f DEF BufferAges, Fault
<1>9. CASE UNCHANGED vars
  BY <1>9, <1>f DEF vars
<1>. QED  BY <1>1, <1>2, <1>3, <1>4, <1>5, <1>6, <1>7, <1>8, <1>9 DEF Next, ConnStep,
     SenderStep, Radio, send_power, send_level, send_vendor_command,
     send_config_appkey_add, send_config_model_app_bind

\* So does the node that hears a command.
LEMMA HeardOn ==
  ASSUME NodeTypes, node.on \in BOOLEAN, NEW p, NEW q, NEW o
  PROVE  Heard(p, q, o).on \in BOOLEAN /\ "on" \in DOMAIN Heard(p, q, o)
<1> DEFINE new == p.tid # node.last
           one == p.val = 1
           high == p.val > (IF p.op = "level" THEN -32768 ELSE 0)
           set == IF p.op = "power" /\ new THEN [node EXCEPT !.on = one]
                  ELSE IF p.op \in {"level", "lightness"} /\ new
                  THEN [node EXCEPT !.level = p.val, !.on = high]
                  ELSE node
<1>1. one \in BOOLEAN /\ high \in BOOLEAN
  OBVIOUS
<1> HIDE DEF new, one, high
<1>2. DOMAIN set = DOMAIN node /\ set.on \in BOOLEAN
  <2>1. CASE set = [node EXCEPT !.on = one]
    <3>1. [node EXCEPT !.on = one].on = one
      BY DEF NodeTypes
    <3> HIDE DEF set
    <3>. QED  BY <1>1, <2>1, <3>1
  <2>2. CASE set = [node EXCEPT !.level = p.val, !.on = high]
    <3>1. [node EXCEPT !.level = p.val, !.on = high].on = high
      BY DEF NodeTypes
    <3> HIDE DEF set
    <3>. QED  BY <1>1, <2>2, <3>1
  <2>3. CASE set = node
    <3> HIDE DEF set
    <3>. QED  BY <2>3
  <2>4. \/ set = [node EXCEPT !.on = one] \/ set = [node EXCEPT !.level = p.val, !.on = high]
        \/ set = node
    BY Zenon
  <2>. QED  BY <2>1, <2>2, <2>3, <2>4
<1> DEFINE n == Heard(p, q, o)
<1>3. n = [set EXCEPT !.heard = q,
                      !.last = IF p.op \in SetOps THEN p.tid ELSE @,
                      !.parts = IF p.op = "appkey" THEN @ \cup {<<p.of, o>>} ELSE @]
  BY DEF Heard, new, one, high
<1> HIDE DEF set, n
<1>4. n.on = set.on /\ DOMAIN n = DOMAIN set
  BY <1>3
<1>5. n.on \in BOOLEAN
  BY <1>2, <1>4
<1>. QED  BY <1>2, <1>4, <1>5 DEF NodeTypes, n

LEMMA HearOn ==
  ASSUME TypeOK, NEW p, NEW q, NEW o, Hear(p, q, o)
  PROVE  node'.on \in BOOLEAN
<1> DEFINE n == Heard(p, q, o)
<1>1. node.on \in BOOLEAN /\ n.on \in BOOLEAN /\ "on" \in DOMAIN n
  BY HeardOn DEF TypeOK, FlagTypes
<1>2. node' = node \/ node' = n \/ \E r : node' = [n EXCEPT !.used = r]
  BY DEF Hear, nodeVars
<1> HIDE DEF n
<1>3. \A r : [n EXCEPT !.used = r].on = n.on
  BY <1>1
<1>. QED  BY <1>1, <1>2, <1>3

\* After every step.
LEMMA OnStep == IInv /\ [Next]_vars => node'.on \in BOOLEAN
<1> SUFFICES ASSUME IInv, [Next]_vars PROVE node'.on \in BOOLEAN
  OBVIOUS
<1> USE DEF connVars, sendVars, rxVars, linkVars, nodeVars, history
<1>f. ASSUME UNCHANGED <<node>> PROVE node'.on \in BOOLEAN
  BY <1>f DEF IInv, TypeOK, FlagTypes
<1>1. ASSUME CompositionAsked PROVE node'.on \in BOOLEAN
  <2>1. node' = node \/ \E p, q, o : Hear(p, q, o)
    BY <1>1 DEF CompositionAsked, Delivered, LostOnAir
  <2>. QED  BY <2>1, HearOn DEF IInv, TypeOK, FlagTypes
<1>2. ASSUME NEW s \in Senders, Written(s) PROVE node'.on \in BOOLEAN
  <2>1. node' = node \/ \E p, q, o : Hear(p, q, o)
    BY <1>2 DEF Written, Delivered, LostOnAir
  <2>. QED  BY <2>1, HearOn DEF IInv, TypeOK, FlagTypes
<1>3. ASSUME NEW s \in Senders, WriteFails(s) PROVE node'.on \in BOOLEAN
  <2>1. node' = node \/ \E p, q, o : Hear(p, q, o)
    BY <1>3 DEF WriteFails, Delivered, LostOnAir
  <2>. QED  BY <2>1, HearOn DEF IInv, TypeOK, FlagTypes
<1>4. ASSUME NEW net \in {"ours", "other"}, NEW frame \in Frames, UnsolicitedHeard(net,
            frame)
      PROVE  node'.on \in BOOLEAN
  <2>1. node' = node \/ node' = [node EXCEPT !.power = 57]
    BY <1>4 DEF UnsolicitedHeard
  <2>2. [node EXCEPT !.power = 57].on = node.on
    BY DEF IInv, TypeOK, NodeTypes
  <2>. QED  BY <2>1, <2>2 DEF IInv, TypeOK, FlagTypes
<1>5. ASSUME _process_notify PROVE node'.on \in BOOLEAN
  BY <1>5, Notified DEF IInv, TypeOK, FlagTypes
<1>6. ASSUME connect \/ _resolve_proxy_characteristics \/ request_composition_data \/
            AttemptClosed \/ NextAttempt \/ ConnectCancelled \/ disconnect
      PROVE  node'.on \in BOOLEAN
  BY <1>6, <1>f DEF connect, _load_keys, _resolve_proxy_characteristics, Opened,
     AttemptFails, Fault, request_composition_data, ConnectEnds, FaultIfUp, NoFault,
     AttemptClosed, Down, NextAttempt, ConnectCancelled, disconnect
<1>7. ASSUME Unsubscribed \/ Closed \/ PDULost PROVE node'.on \in BOOLEAN
  BY <1>7, <1>f DEF Unsubscribed, Closed, Down, PDULost, Fault
<1>8. ASSUME NEW s \in Senders, Send(s) \/ SendAgain(s) \/ Resumed(s) \/ TimedOut(s)
      PROVE  node'.on \in BOOLEAN
  BY <1>8, <1>f DEF Send, _next_seqs, SendAgain, Ends, Leaves, send_command_with_retry, NextTry, Resumed, TimedOut, Fault
<1>9. ASSUME NEW c \in Sessions, LinkLost(c) \/ _on_ble_disconnect(c)
      PROVE  node'.on \in BOOLEAN
  BY <1>9, <1>f DEF LinkLost, Down, Fault, _on_ble_disconnect
<1>10. ASSUME NEW o \in {0, 1}, SegmentRepeated(o) PROVE node'.on \in BOOLEAN
  BY <1>10, <1>f DEF SegmentRepeated, Fault
<1>11. ASSUME NEW z \in DOMAIN buffers, BufferAges(z) PROVE node'.on \in BOOLEAN
  BY <1>11, <1>f DEF BufferAges, Fault
<1>12. CASE UNCHANGED vars
  BY <1>12, <1>f DEF vars
<1>. QED  BY <1>1, <1>2, <1>3, <1>4, <1>5, <1>6, <1>7, <1>8, <1>9, <1>10, <1>11, <1>12
     DEF Next, ConnStep, SenderStep, Radio, send_power, send_level, send_vendor_command,
     send_config_appkey_add, send_config_model_app_bind

-----------------------------------------------------------------------------
(* The theorems.                                                           *)

\* The device starts idle, the air empty and nothing received.
LEMMA InitInvariant == Init => IInv
<1> SUFFICES ASSUME Init PROVE IInv
  OBVIOUS
<1>1. ConnTypes
  BY DEF Init, ConnTypes
<1>2. SendTypes /\ SenderStage
  <2>1. \A s \in Senders : Segments(s) \in Nat
    <3>1. call \in Programs
      BY DEF Init
    <3>2. \A s \in Senders : Segments(s) \in {1, 2}
      BY <3>1, CallFacts
    <3>. QED  BY <3>2
  <2>2. /\ calls = [t \in Senders |-> 0] /\ 0 \in Calls
        /\ \A t \in Senders : calls[t] < DEFAULT_MAX_COMMAND_RETRIES
    BY RetriesCounted DEF Init
  <2>. QED  BY <2>1, <2>2 DEF Init, SendTypes, SenderStage, ToSet
<1>3. ReceiveTypes
  <2>1. pending = <<>> /\ <<>> \in Seq({s \in Senders : Awaits(s)}) /\ IsInjective(<<>>)
    BY DEF Init, IsInjective
  <2>2. DOMAIN buffers = {} /\ old = {}
    BY DEF Init
  <2>. QED  BY <2>1, <2>2 DEF Init, ReceiveTypes
<1>4. LinkTypes
  BY DEF Init, LinkTypes
<1>5. NodeTypes
  BY EmptyTyped DEF Init, NodeTypes
<1>6. FlagTypes
  BY DEF Init, FlagTypes
<1>7. AirKnown /\ AirOrder
  BY EmptyTyped DEF Init, AirKnown, AirOrder
<1>8. LevelRange
  BY DEF Init, LevelRange, LevelTrue
<1>9. BuffersTrue /\ Reading
  <2>1. DOMAIN buffers = {} /\ composition = None /\ whole = [q \in SeqNumbers |-> {}]
    BY DEF Init
  <2>. QED  BY <2>1 DEF BuffersTrue, Reading, Exact
<1>10. Sent
  <2>1. applied = <<>> /\ Len(applied) = 0
    BY DEF Init
  <2>. QED  BY <2>1 DEF Sent, NotAppliedTwice
<1>11. Sessioned /\ Tracked
  BY DEF Init, Sessioned, Tracked, Gone
<1>. QED  BY <1>1, <1>2, <1>3, <1>4, <1>5, <1>6, <1>7, <1>8, <1>9, <1>10, <1>11
          DEF IInv, TypeOK

\* Every step keeps it.
LEMMA NextInvariant == IInv /\ [Next]_vars => IInv'
<1> SUFFICES ASSUME IInv, [Next]_vars PROVE IInv'
  OBVIOUS
<1>1. FlagTypes'
  BY RaisedStep, LitStep, OnStep DEF FlagTypes, Raised, Lit
<1>2. TypeOK'
  BY <1>1, ConnStepTypes, SendStepTypes, ReceiveStepTypes, LinkStepTypes, NodeStepTypes
     DEF TypeOK
<1>. QED  BY <1>2, StageStep, AirStepKnown, LevelStep, AirStepOrder, BuffersStep, ReadingStep,
             SentStep, SessionStep, TrackStep DEF IInv

\* The inductive invariant.
THEOREM Invariant == Spec => []IInv
BY InitInvariant, NextInvariant, PTL DEF Spec

\* The types (sig_mesh_device*.py, coordinator.py): connect() and the send methods stay
\* within their attempts, a request is registered once, a buffer has a 13-bit key, and
\* the brightness shown is one byte, whatever level the node answers with.
THEOREM TypeCorrect == Spec => []TypeOK
<1>1. IInv => TypeOK
  BY DEF IInv
<1>. QED  BY <1>1, Invariant, PTL

\* While disconnections are reported before the next connection is set up
\* (_on_ble_disconnect), _client is the connection there is.
THEOREM TrackedClient == Spec => []ClientTracked
<1>1. IInv => ClientTracked
  <2> SUFFICES ASSUME IInv, ~late
               PROVE  /\ client # 0 /\ link[client] = "down" => client \in unreported
                      /\ \A c \in subscribed : link[c] = "up" /\ ~(connecting # "idle" /\ mine = c)
                                                 => client = c
    BY DEF ClientTracked
  <2>1. \A c \in subscribed : c \in Sessions /\ (c = client \/ c = mine)
    BY DEF IInv, TypeOK, LinkTypes, Tracked
  <2>2. connecting = "idle" => mine = 0
    BY DEF IInv, Sessioned
  <2>. QED  BY <2>1, <2>2 DEF IInv, Tracked
<1>. QED  BY <1>1, Invariant, PTL

\* A composition whose segments have all arrived is read exactly when its number fits
\* 13 bits (_handle_segment, reassemble_and_decrypt_segments).
THEOREM ReadWhole == Spec => []WholeIsRead
<1>1. IInv => WholeIsRead
  <2> SUFFICES ASSUME IInv, NEW q \in SeqNumbers
               PROVE  /\ whole[q] = {0, 1} /\ q < MESH_SEQ_ZERO => composition # None
                      /\ composition = q => q < MESH_SEQ_ZERO
    BY DEF WholeIsRead
  <2>1. ASSUME whole[q] = {0, 1}, Fits(q), composition = None PROVE FALSE
    <3>1. CASE Exact
      <4>1. q \in DOMAIN buffers /\ DOMAIN buffers[q].segs = {0, 1}
        BY <2>1, <3>1 DEF Exact
      <4>. QED  BY <4>1 DEF IInv, BuffersTrue, BufferTrue
    <3>2. CASE Passed
      BY <2>1, <3>2 DEF Passed
    <3>. QED  BY <2>1, <3>1, <3>2 DEF IInv, Reading
  <2>2. composition = q => Fits(q)
    <3>1. q # None
      BY SeqZeroFacts
    <3>. QED  BY <3>1 DEF IInv, Reading
  <2>. QED  BY <2>1, <2>2 DEF Fits
<1>. QED  BY <1>1, Invariant, PTL

\* A write that is retried keeps its transaction id (send_power, send_level), so that the
\* node never applies one call of the method twice in a row, however often
\* send_command_with_retry calls it again.
THEOREM AppliedOnce == Spec => []NotAppliedTwice
<1>1. IInv => NotAppliedTwice
  BY DEF IInv, Sent
<1>. QED  BY <1>1, Invariant, PTL

-----------------------------------------------------------------------------
(* Requests and their statuses.                                            *)

\* The status of a request, where it is on the air, and the order of registration.
StatusOf(s) == StatusPDU(Status[Op(s)], s, 0)
At(s, i) == i \in DOMAIN air /\ air[i] = StatusOf(s)
Before(s, t) == \E a \in DOMAIN pending : \E b \in DOMAIN pending :
                  a < b /\ pending[a] = s /\ pending[b] = t

\* A writer's client was opened; a bind is one PDU, whose number is taken; the node has
\* heard of a request what it has written; what answers requests on the air is their
\* statuses; and only requests are answered.
WriterOpened == \A s \in Senders : pc[s] = "writing" => link[on[s]] # "none"
NumberTaken ==
  \A s \in Senders : Op(s) = "bind" => pc[s] # "backoff" /\ (pc[s] = "writing" => number[s] < seq)
PartsWritten ==
  \A s \in Requests : pc[s] \in {"idle", "writing", "backoff"} =>
    \A o \in {0, 1} : <<s, o>> \in node.parts => o < written[s]
StatusesKnown ==
  \A i \in DOMAIN air : \A op \in {"appkey_status", "bind_status"}, s \in Senders, v \in Int :
    air[i] = StatusPDU(op, s, v) => s \in Requests /\ air[i] = StatusOf(s)
OthersWait == \A s \in Senders : ~Awaits(s) => answer[s] = None
Prepared == WriterOpened /\ NumberTaken /\ PartsWritten /\ StatusesKnown /\ OthersWait

\* While nothing disturbs the requests: writers write to the current client; a request
\* is registered until its own status resolves it, which is on the air at most once and
\* only when the request waits for it; a bind is being written or its status is on the
\* air; and binds are written, and their statuses come, in the order of registration.
WritersHere == \A s \in Senders : pc[s] = "writing" => on[s] = client
OwnStatus ==
  \A s \in Requests :
    /\ answer[s] \in {None, s}
    /\ answer[s] # None => pc[s] \in {"waiting", "done"} /\ s \notin ToSet(pending)
    /\ pc[s] \in {"writing", "backoff"} => s \in ToSet(pending)
    /\ \A i \in Int : At(s, i) =>
         /\ pc[s] = "waiting" /\ s \in ToSet(pending)
         /\ \A j \in Int : At(s, j) => i = j
BindsUnderWay ==
  \A s \in ToSet(pending) : Op(s) = "bind" => pc[s] = "writing" \/ \E i \in Int : At(s, i)
BindsInOrder ==
  \A s \in Requests, t \in Requests : Op(s) = "bind" /\ Op(t) = "bind" /\ Before(s, t) =>
    /\ pc[s] = "writing" /\ pc[t] = "writing" => number[s] < number[t]
    /\ \A j \in Int : At(t, j) => \E i \in Int : i < j /\ At(s, i)
InOrder == WritersHere /\ OwnStatus /\ BindsUnderWay /\ BindsInOrder

Answering == IInv /\ Prepared /\ (Undisturbed => InOrder)

\* A request awaits one of two statuses.
LEMMA RequestFacts ==
  ASSUME call \in Programs, NEW s \in Requests
  PROVE  /\ s \in Senders /\ Awaits(s) /\ Op(s) \in {"appkey", "bind"} /\ ~Retried(s)
         /\ Status[Op(s)] \in {"appkey_status", "bind_status"}
         /\ Status[Op(s)] = "bind_status" <=> Op(s) = "bind"
         /\ Segments(s) = IF Op(s) = "appkey" THEN 2 ELSE 1
<1>1. s \in Senders /\ Awaits(s) /\ Op(s) \in {"appkey", "bind"}
  BY DEF Requests, Awaits
<1>2. Status["appkey"] = "appkey_status" /\ Status["bind"] = "bind_status"
  BY DEF Status
<1>. QED  BY <1>1, <1>2 DEF Retried, SetOps, Segments

\* The statuses of requests after a step: where they were, or k places further on.
AtNext(s, i) == i \in DOMAIN air' /\ air'[i] = StatusOf(s)
AirMoves(k) == \A s \in Requests, i \in Int : AtNext(s, i) <=> i >= 1 /\ At(s, i + k)

LEMMA AirKept ==
  ASSUME TypeOK, air' = air
  PROVE  AirMoves(0)
<1>1. DOMAIN air = 1..Len(air) /\ Len(air) \in Nat
  BY DEF TypeOK, NodeTypes
<1>. QED  BY <1>1 DEF AirMoves, AtNext, At

\* A PDU that is nobody's status joins the air.
LEMMA AirJoined ==
  ASSUME TypeOK, NEW x, air' = Append(air, x), \A s \in Requests : x # StatusOf(s)
  PROVE  AirMoves(0)
<1>1. /\ DOMAIN air = 1..Len(air) /\ Len(air) \in Nat /\ DOMAIN air' = 1..Len(air) + 1
      /\ \A i \in DOMAIN air : air'[i] = air[i]
      /\ air'[Len(air) + 1] = x
  BY AppendTyped DEF TypeOK, NodeTypes
<1> SUFFICES ASSUME NEW s \in Requests, NEW i \in Int
             PROVE  AtNext(s, i) <=> i >= 1 /\ At(s, i + 0)
  BY DEF AirMoves
<1>2. i + 0 = i
  OBVIOUS
<1>3. CASE i \in DOMAIN air
  BY <1>1, <1>2, <1>3 DEF AtNext, At
<1>4. CASE i = Len(air) + 1
  BY <1>1, <1>2, <1>4 DEF AtNext, At
<1>5. CASE i \notin DOMAIN air /\ i # Len(air) + 1
  BY <1>1, <1>2, <1>5 DEF AtNext, At
<1>. QED  BY <1>3, <1>4, <1>5

\* Segments and vendor frames are nobody's status.
LEMMA NobodysStatus ==
  ASSUME TypeOK
  PROVE  /\ \A s \in Requests : \A q, o : CompositionSegment(q, o) # StatusOf(s)
         /\ \A s \in Requests : \A net, frame : VendorPDU(net, frame) # StatusOf(s)
         /\ \A s \in Requests : \A op, t, v : op \notin {"appkey_status", "bind_status"}
                                                 => StatusPDU(op, t, v) # StatusOf(s)
<1> SUFFICES ASSUME NEW s \in Requests
             PROVE  /\ \A q, o : CompositionSegment(q, o) # StatusOf(s)
                    /\ \A net, frame : VendorPDU(net, frame) # StatusOf(s)
                    /\ \A op, t, v : op \notin {"appkey_status", "bind_status"}
                                       => StatusPDU(op, t, v) # StatusOf(s)
  OBVIOUS
<1>1. Status[Op(s)] \in {"appkey_status", "bind_status"}
  BY RequestFacts DEF TypeOK, ConnTypes
<1>2. \A q, o : CompositionSegment(q, o) # StatusOf(s)
  BY SegmentsDiffer DEF StatusOf
<1>3. \A net, frame : VendorPDU(net, frame) # StatusOf(s)
  BY <1>1, StatusesDiffer DEF StatusOf
<1>4. \A op, t, v : op \notin {"appkey_status", "bind_status"} => StatusPDU(op, t, v) # StatusOf(s)
  BY <1>1, StatusesDiffer DEF StatusOf
<1>. QED  BY <1>2, <1>3, <1>4

\* Two PDUs join the air.
LEMMA TwoJoined ==
  ASSUME TypeOK, NEW m, NEW n, air' = air \o <<m, n>>
  PROVE  /\ DOMAIN air = 1..Len(air) /\ Len(air) \in Nat /\ DOMAIN air' = 1..Len(air) + 2
         /\ \A i \in DOMAIN air' :
              \/ i \in DOMAIN air /\ air'[i] = air[i]
              \/ i > Len(air) /\ air'[i] \in {m, n}
<1>1. /\ DOMAIN air = 1..Len(air) /\ Len(air) \in Nat /\ air \in Seq(ToSet(air))
  BY DEF TypeOK, NodeTypes
<1> DEFINE e == <<m, n>>
<1>2. e[1] = m /\ e[2] = n /\ Len(e) = 2
  OBVIOUS
<1> HIDE DEF e
<1>3. e \in Seq(ToSet(e)) /\ DOMAIN e = {1, 2}
  <2>1. \A x, y : e = <<x, y>> => e \in Seq(ToSet(e)) /\ DOMAIN e = {1, 2}
    BY TwoTyped, Zenon
  <2>2. e = <<m, n>>
    BY DEF e
  <2>. QED  BY <2>1, <2>2, Zenon
<1>4. /\ DOMAIN (air \o e) = 1..Len(air) + Len(e)
      /\ \A i \in DOMAIN (air \o e) :
           \/ i \in DOMAIN air /\ (air \o e)[i] = air[i]
           \/ /\ i > Len(air) /\ i - Len(air) \in DOMAIN e
              /\ (air \o e)[i] = e[i - Len(air)]
  BY <1>1, <1>3, ConcatTyped
<1>5. air' = air \o e
  BY DEF e
<1>6. \A k \in DOMAIN e : e[k] = m \/ e[k] = n
  BY <1>2, <1>3
<1>. QED  BY <1>1, <1>2, <1>4, <1>5, <1>6

\* The node hears the Composition Data Get.
LEMMA AirAnswered ==
  ASSUME TypeOK, RequestHeard
  PROVE  AirMoves(0)
<1>1. CASE air' = air
  BY <1>1, AirKept
<1>2. ASSUME NEW r, air' = air \o <<CompositionSegment(r, 0), CompositionSegment(r, 1)>>
      PROVE  AirMoves(0)
  <2>1. /\ DOMAIN air = 1..Len(air) /\ Len(air) \in Nat /\ DOMAIN air' = 1..Len(air) + 2
        /\ \A i \in DOMAIN air' :
             \/ i \in DOMAIN air /\ air'[i] = air[i]
             \/ /\ i > Len(air)
                /\ air'[i] \in {CompositionSegment(r, 0), CompositionSegment(r, 1)}
    BY <1>2, TwoJoined
  <2> SUFFICES ASSUME NEW s \in Requests, NEW i \in Int
               PROVE  AtNext(s, i) <=> i >= 1 /\ At(s, i + 0)
    BY DEF AirMoves
  <2>2. i + 0 = i
    OBVIOUS
  <2>3. CASE i \in DOMAIN air
    <3>1. i >= 1 /\ ~(i > Len(air)) /\ i \in DOMAIN air'
      BY <2>1, <2>3
    <3>2. air'[i] = air[i]
      BY <2>1, <3>1
    <3>. QED  BY <2>2, <2>3, <3>1, <3>2 DEF AtNext, At
  <2>4. CASE i \notin DOMAIN air
    <3>1. \A o : CompositionSegment(r, o) # StatusOf(s)
      BY NobodysStatus
    <3>. QED  BY <2>1, <2>2, <2>4, <3>1 DEF AtNext, At
  <2>. QED  BY <2>3, <2>4
<1>. QED  BY <1>1, <1>2 DEF RequestHeard

\* What a step that no sender takes, and that processes no notification, leaves to the
\* requests: what is sent and registered, and their statuses; and in time a client is
\* replaced only when it is down.
SendersRest ==
  /\ UNCHANGED <<call, pc, on, number, written, pending, answer, unanswered>>
  /\ seq' \in Nat /\ seq <= seq' /\ node'.parts = node.parts
  /\ (lossy => lossy') /\ (late => late')
ClientRests ==
  /\ \A c \in Sessions : link[c] # "none" => link'[c] # "none" /\ (link'[c] = "up" => link[c] = "up")
  /\ ~late' => client' = client \/ client = 0 \/ link'[client] # "up"
OldStatuses ==
  \A i \in DOMAIN air' : \A op \in {"appkey_status", "bind_status"}, s \in Senders, v \in Int :
    air'[i] = StatusPDU(op, s, v) => \E j \in DOMAIN air : air'[i] = air[j]
StatusesRest == (~lossy' => AirMoves(0)) /\ OldStatuses
Elsewhere == SendersRest /\ ClientRests /\ StatusesRest

\* The air.
LEMMA AirElsewhere ==
  ASSUME TypeOK
  PROVE  /\ air' = air => StatusesRest
         /\ Repetition \/ Unsolicited \/ RequestHeard => StatusesRest
         /\ \A c \in Sessions : Down(c) => StatusesRest
         /\ PDULost => StatusesRest
<1>1. ASSUME air' = air PROVE StatusesRest
  BY <1>1, AirKept DEF StatusesRest, OldStatuses
<1>2. ASSUME NEW x, air' = Append(air, x),
             \A op \in {"appkey_status", "bind_status"}, s \in Senders, v \in Int :
               x # StatusPDU(op, s, v)
      PROVE  OldStatuses
  <2>1. /\ DOMAIN air = 1..Len(air) /\ Len(air) \in Nat /\ DOMAIN air' = 1..Len(air) + 1
        /\ \A i \in DOMAIN air : air'[i] = air[i]
        /\ air'[Len(air) + 1] = x
    BY <1>2, AppendTyped DEF TypeOK, NodeTypes
  <2>2. \A i \in DOMAIN air' : i \in DOMAIN air \/ i = Len(air) + 1
    BY <2>1
  <2>. QED  BY <1>2, <2>1, <2>2 DEF OldStatuses
<1>3. ASSUME Repetition PROVE StatusesRest
  <2>1. PICK o \in {0, 1} : air' = Append(air, CompositionSegment(node.used, o))
    BY <1>3 DEF Repetition
  <2>2. AirMoves(0)
    BY <2>1, AirJoined, NobodysStatus
  <2>3. OldStatuses
    BY <1>2, <2>1, SegmentsDiffer
  <2>. QED  BY <2>2, <2>3 DEF StatusesRest
<1>4. ASSUME Unsolicited PROVE StatusesRest
  <2>1. PICK net \in {"ours", "other"}, frame \in Frames : air' = Append(air, VendorPDU(net, frame))
    BY <1>4 DEF Unsolicited
  <2>2. AirMoves(0)
    BY <2>1, AirJoined, NobodysStatus
  <2>3. OldStatuses
    BY <1>2, <2>1, StatusesDiffer
  <2>. QED  BY <2>2, <2>3 DEF StatusesRest
<1>5. ASSUME RequestHeard PROVE StatusesRest
  <2>1. AirMoves(0)
    BY <1>5, AirAnswered
  <2>2. CASE air' = air
    BY <2>2, <1>1
  <2>3. ASSUME NEW r, air' = air \o <<CompositionSegment(r, 0), CompositionSegment(r, 1)>>
        PROVE  OldStatuses
    <3>1. \A i \in DOMAIN air' :
            \/ i \in DOMAIN air /\ air'[i] = air[i]
            \/ air'[i] \in {CompositionSegment(r, 0), CompositionSegment(r, 1)}
      BY <2>3, TwoJoined
    <3>. QED  BY <3>1, SegmentsDiffer DEF OldStatuses
  <2>. QED  BY <1>5, <2>1, <2>2, <2>3 DEF RequestHeard, StatusesRest
<1>6. ASSUME NEW c \in Sessions, Down(c) PROVE StatusesRest
  <2>1. CASE link[c] # "up"
    BY <1>1, <1>6, <2>1 DEF Down
  <2>2. CASE link[c] = "up"
    <3>1. air' = <<>> /\ (air # <<>> => lossy')
      BY <1>6, <2>2 DEF Down
    <3>2. OldStatuses
      BY <3>1 DEF OldStatuses
    <3>3. ~lossy' => air' = air
      BY <3>1
    <3>. QED  BY <3>2, <3>3, AirKept DEF StatusesRest
  <2>. QED  BY <2>1, <2>2
<1>7. ASSUME PDULost PROVE StatusesRest
  <2>1. lossy' /\ air # <<>> /\ air' = Tail(air)
    BY <1>7 DEF PDULost
  <2>2. \A i \in DOMAIN air' : i + 1 \in DOMAIN air /\ air'[i] = air[i + 1]
    BY <2>1, TailTyped DEF TypeOK, NodeTypes
  <2>. QED  BY <2>1, <2>2 DEF StatusesRest, OldStatuses
<1>. QED  BY <1>1, <1>3, <1>4, <1>5, <1>6, <1>7

\* Every other step.
SendersOr(A) == A \/ _process_notify
  \/ \E s \in Senders : Send(s) \/ Written(s) \/ WriteFails(s) \/ SendAgain(s) \/ Resumed(s)
                        \/ TimedOut(s)

LEMMA ElsewhereSteps == IInv /\ [Next]_vars => SendersOr(Elsewhere)
<1> SUFFICES ASSUME IInv, [Next]_vars PROVE SendersOr(Elsewhere)
  OBVIOUS
<1> USE DEF connVars, sendVars, rxVars, linkVars, nodeVars, history
<1>t. TypeOK /\ seq \in Nat
  BY DEF IInv, TypeOK, SendTypes
<1>r. ASSUME UNCHANGED <<call, seq, pc, on, number, written, pending, answer, unanswered>>,
             node'.parts = node.parts, lossy => lossy', late => late'
      PROVE  SendersRest
  BY <1>r, <1>t DEF SendersRest
<1>c. ASSUME UNCHANGED <<client, link>> PROVE ClientRests
  BY <1>c DEF ClientRests
<1>d. ASSUME NEW c \in Sessions, Down(c), ~late' => client' = client \/ client \in {0, c}
      PROVE  ClientRests
  BY <1>d DEF Down, ClientRests, IInv, TypeOK, LinkTypes
<1>1. ASSUME _resolve_proxy_characteristics PROVE Elsewhere
  <2>1. SendersRest /\ StatusesRest
    BY <1>1, <1>r, <1>t, AirElsewhere DEF _resolve_proxy_characteristics
  <2>2. ClientRests
    BY <1>1 DEF _resolve_proxy_characteristics, Opened, ClientRests, IInv, TypeOK, LinkTypes
  <2>. QED  BY <2>1, <2>2 DEF Elsewhere
<1>2. ASSUME request_composition_data PROVE Elsewhere
  <2>1. UNCHANGED <<call, pc, on, number, written, pending, answer, unanswered, node, lossy, late, air, link>>
        /\ connecting = "subscribing"
    BY <1>2 DEF request_composition_data
  <2>2. seq' = seq \/ seq' = seq + 1
    BY <1>2 DEF request_composition_data
  <2>3. SendersRest /\ StatusesRest
    BY <1>t, <2>1, <2>2, AirElsewhere DEF SendersRest
  <2>4. ClientRests
    BY <2>1 DEF ClientRests, IInv, Tracked, Gone
  <2>. QED  BY <2>3, <2>4 DEF Elsewhere
<1>3. ASSUME CompositionAsked PROVE Elsewhere
  <2>1. UNCHANGED <<call, seq, pc, on, number, written, pending, answer, unanswered, client, link, late>>
    BY <1>3 DEF CompositionAsked
  <2>2. \/ Hear(Get, asked, 0)
        \/ lossy' = TRUE /\ UNCHANGED nodeVars
    BY <1>3 DEF CompositionAsked, Delivered, LostOnAir, Get
  <2>3. \/ lossy' = TRUE /\ UNCHANGED nodeVars
        \/ UNCHANGED lossy /\ RequestHeard
    BY <1>t, <2>2, GetHeard
  <2>4. node'.parts = node.parts /\ (lossy => lossy')
    BY <2>3 DEF RequestHeard
  <2>5. StatusesRest
    BY <1>t, <2>3, AirElsewhere
  <2>. QED  BY <1>r, <1>c, <2>1, <2>4, <2>5 DEF Elsewhere
<1>4. ASSUME AttemptClosed PROVE Elsewhere
  <2>1. /\ UNCHANGED <<call, seq, pc, on, number, written, pending, answer, unanswered, client, node, late>>
        /\ mine \in Sessions /\ Down(mine)
    BY <1>4 DEF AttemptClosed, IInv, Sessioned, TypeOK, ConnTypes
  <2>2. lossy => lossy'
    BY <2>1 DEF Down
  <2>3. SendersRest
    BY <1>r, <2>1, <2>2
  <2>4. ClientRests
    BY <1>d, <2>1
  <2>5. StatusesRest
    BY <1>t, <2>1, AirElsewhere
  <2>. QED  BY <2>3, <2>4, <2>5 DEF Elsewhere
<1>5. ASSUME Closed PROVE Elsewhere
  <2>1. /\ UNCHANGED <<call, seq, pc, on, number, written, pending, answer, unanswered, node>>
        /\ stopOn \in Sessions /\ Down(stopOn)
        /\ late' = (late \/ client \notin {0, stopOn})
    BY <1>5 DEF Closed, IInv, Sessioned, TypeOK, ConnTypes
  <2>2. (lossy => lossy') /\ (late => late') /\ (~late' => client \in {0, stopOn})
    BY <2>1 DEF Down
  <2>3. SendersRest
    BY <1>r, <2>1, <2>2
  <2>4. ClientRests
    BY <1>d, <2>1, <2>2
  <2>5. StatusesRest
    BY <1>t, <2>1, AirElsewhere
  <2>. QED  BY <2>3, <2>4, <2>5 DEF Elsewhere
<1>6. ASSUME NEW c \in Sessions, LinkLost(c) PROVE Elsewhere
  <2>1. /\ UNCHANGED <<call, seq, pc, on, number, written, pending, answer, unanswered, client, node, late>>
        /\ Down(c)
    BY <1>6 DEF LinkLost
  <2>2. lossy => lossy'
    BY <2>1 DEF Down
  <2>3. SendersRest
    BY <1>r, <2>1, <2>2
  <2>4. ClientRests
    BY <1>d, <2>1
  <2>5. StatusesRest
    BY <1>t, <2>1, AirElsewhere
  <2>. QED  BY <2>3, <2>4, <2>5 DEF Elsewhere
<1>7. ASSUME NEW c \in Sessions, _on_ble_disconnect(c) PROVE Elsewhere
  <2>1. /\ UNCHANGED <<call, seq, pc, on, number, written, pending, answer, unanswered, node,
                       lossy, air, link>>
        /\ c \in unreported
        /\ late' = (late \/ client \notin {0, c} \/ (connecting = "subscribing" /\ mine = c))
    BY <1>7 DEF _on_ble_disconnect
  <2>2. link[c] = "down"
    BY <2>1 DEF IInv, Sessioned
  <2>3. (late => late') /\ (~late' => client \in {0, c})
    BY <2>1
  <2>4. ClientRests
    BY <2>1, <2>2, <2>3 DEF ClientRests
  <2>. QED  BY <1>r, <1>t, <2>1, <2>3, <2>4, AirElsewhere DEF Elsewhere
<1>8. ASSUME NEW o \in {0, 1}, SegmentRepeated(o) PROVE Elsewhere
  <2>1. /\ UNCHANGED <<call, seq, pc, on, number, written, pending, answer, unanswered, node,
                       lossy, late, client, link>>
        /\ Repetition
    BY <1>8 DEF SegmentRepeated, Repetition
  <2>. QED  BY <1>r, <1>c, <1>t, <2>1, AirElsewhere DEF Elsewhere
<1>9. ASSUME NEW net \in {"ours", "other"}, NEW frame \in Frames, UnsolicitedHeard(net, frame)
      PROVE  Elsewhere
  <2>1. UNCHANGED <<call, seq, pc, on, number, written, pending, answer, unanswered,
                    lossy, late, client, link>>
    BY <1>9 DEF UnsolicitedHeard
  <2>2. air' = Append(air, VendorPDU(net, frame)) /\ applied' = applied
    BY <1>9 DEF UnsolicitedHeard, VendorPDU
  <2>3. node' = node \/ node' = [node EXCEPT !.power = 57]
    BY <1>9 DEF UnsolicitedHeard
  <2>4. Unsolicited
    BY <2>2, <2>3 DEF Unsolicited, IInv, TypeOK, NodeTypes
  <2>5. node'.parts = node.parts
    BY <2>4 DEF Unsolicited
  <2>6. StatusesRest
    BY <1>t, <2>4, AirElsewhere
  <2>. QED  BY <1>r, <1>c, <2>1, <2>5, <2>6 DEF Elsewhere
<1>10. ASSUME PDULost PROVE Elsewhere
  <2>1. /\ UNCHANGED <<call, seq, pc, on, number, written, pending, answer, unanswered, node,
                       late, client, link>>
        /\ lossy'
    BY <1>10 DEF PDULost
  <2>. QED  BY <1>r, <1>c, <1>t, <1>10, <2>1, AirElsewhere DEF Elsewhere
<1>f. ASSUME UNCHANGED <<call, seq, pc, on, number, written, pending, answer, unanswered, node,
                         lossy, late, air, client, link>>
      PROVE  Elsewhere
  BY <1>f, <1>r, <1>c, <1>t, AirElsewhere DEF Elsewhere
<1>11. ASSUME connect \/ NextAttempt \/ ConnectCancelled \/ disconnect \/ Unsubscribed
       PROVE  Elsewhere
  BY <1>11, <1>f DEF connect, NextAttempt, ConnectCancelled, disconnect, Unsubscribed
<1>12. ASSUME NEW z \in DOMAIN buffers, BufferAges(z) PROVE Elsewhere
  BY <1>12, <1>f DEF BufferAges
<1>13. CASE UNCHANGED vars
  BY <1>13, <1>f DEF vars, SendersOr
<1>. QED  BY <1>1, <1>2, <1>3, <1>4, <1>5, <1>6, <1>7, <1>8, <1>9, <1>10, <1>11, <1>12, <1>13
          DEF SendersOr, Next, ConnStep, SenderStep, Radio, send_power, send_level,
              send_vendor_command, send_config_appkey_add, send_config_model_app_bind

\* A sender's PDU that the node hears puts the status of a request on the air: of a bind
\* at once, of an AppKey Add not before its second segment.
SenderAnswered(s) ==
  /\ node'.parts = IF Op(s) = "appkey" THEN node.parts \cup {<<s, written[s]>>} ELSE node.parts
  /\ \/ Op(s) # "bind" /\ air' = air
     \/ /\ ~Awaits(s)
        /\ \E op \in StatusOps \ {"appkey_status", "bind_status"} :
             \E v : air' = Append(air, StatusPDU(op, s, v))
     \/ Awaits(s) /\ written[s] + 1 = Segments(s) /\ air' = Append(air, StatusOf(s))

LEMMA SenderAir ==
  ASSUME IInv, Prepared, NEW s \in Senders, pc[s] = "writing",
         Hear(Payload(s, transaction[s]), number[s], written[s])
  PROVE  \/ lossy' = TRUE /\ UNCHANGED nodeVars
         \/ UNCHANGED lossy /\ SenderAnswered(s)
<1> DEFINE p == Payload(s, transaction[s])
           n == Heard(p, number[s], written[s])
<1>1. p.op = Op(s) /\ p.of = s
  BY PayloadFacts DEF IInv, TypeOK, ConnTypes
<1>2. /\ Op(s) \in {"power", "level", "lightness", "vendor", "appkey", "bind"}
      /\ Awaits(s) <=> Op(s) \in {"appkey", "bind"}
      /\ Segments(s) = IF Op(s) = "appkey" THEN 2 ELSE 1
  BY CallFacts DEF IInv, TypeOK, ConnTypes, Segments
<1>3. Awaits(s) => written[s] \in {0, 1} /\ written[s] < Segments(s)
  BY <1>2 DEF IInv, TypeOK, SendTypes, SenderStage
<1> HIDE DEF p, n
<1>4. n.parts = IF p.op = "appkey" THEN node.parts \cup {<<p.of, written[s]>>} ELSE node.parts
  <2>1. NodeTypes
    BY DEF IInv, TypeOK
  <2>2. Heard(p, number[s], written[s]).parts
          = IF p.op = "appkey" THEN node.parts \cup {<<p.of, written[s]>>} ELSE node.parts
    <3> DEFINE q == number[s]
               o == written[s]
    <3> HIDE DEF q, o
    <3>1. Heard(p, q, o).parts = IF p.op = "appkey" THEN node.parts \cup {<<p.of, o>>} ELSE node.parts
      BY <2>1, PartsHeard
    <3>. QED  BY <3>1, Zenon DEF q, o
  <2>3. n = Heard(p, number[s], written[s])
    BY DEF n
  <2>. QED  BY <2>2, <2>3, Zenon
<1>5. CASE number[s] <= node.heard
  BY <1>5 DEF Hear
<1>6. CASE ~(number[s] <= node.heard)
  <2>1. UNCHANGED lossy /\ node' = n /\ air' = air \o Replies(p, n)
    <3>1. p.op # "composition"
      BY <1>1, <1>2
    <3>. QED  BY <1>6, <3>1 DEF Hear, n, p
  <2>2. node'.parts = IF Op(s) = "appkey" THEN node.parts \cup {<<s, written[s]>>} ELSE node.parts
    BY <1>1, <1>4, <2>1
  <2>3. ASSUME Replies(p, n) = <<>> PROVE air' = air
    BY <2>1, <2>3, ConcatFew DEF IInv, TypeOK, NodeTypes
  <2>4. ASSUME NEW op, NEW v, Replies(p, n) = <<Reply(p, op, v)>>
        PROVE  air' = Append(air, StatusPDU(op, s, v))
    <3>1. Reply(p, op, v) = StatusPDU(op, s, v)
      BY <1>1 DEF Reply, StatusPDU
    <3>. QED  BY <2>1, <2>4, <3>1, ConcatFew DEF IInv, TypeOK, NodeTypes
  <2>5. CASE Op(s) = "bind"
    <3>1. Replies(p, n) = <<Reply(p, "bind_status", 0)>> /\ Status[Op(s)] = "bind_status"
      BY <1>1, <2>5 DEF Replies, Status
    <3>2. air' = Append(air, StatusOf(s))
      BY <2>4, <3>1 DEF StatusOf
    <3>. QED  BY <1>2, <1>3, <2>1, <2>2, <2>5, <3>2 DEF SenderAnswered
  <2>6. CASE Op(s) = "appkey"
    <3>1. /\ Replies(p, n) = IF {<<s, 0>>, <<s, 1>>} \subseteq n.parts
                             THEN <<Reply(p, "appkey_status", 0)>> ELSE <<>>
          /\ Status[Op(s)] = "appkey_status"
      BY <1>1, <2>6 DEF Replies, Status
    <3>2. CASE ~({<<s, 0>>, <<s, 1>>} \subseteq n.parts)
      BY <2>1, <2>2, <2>3, <2>6, <3>1, <3>2 DEF SenderAnswered
    <3>3. CASE {<<s, 0>>, <<s, 1>>} \subseteq n.parts
      <4>1. air' = Append(air, StatusOf(s))
        BY <2>4, <3>1, <3>3 DEF StatusOf
      <4>2. ASSUME written[s] = 0 PROVE FALSE
        <5>1. <<s, 1>> \in node.parts
          BY <1>1, <1>4, <2>6, <3>3, <4>2
        <5>2. s \in Requests /\ 1 \in {0, 1}
          BY <1>2, <2>6 DEF Requests
        <5>3. 1 < written[s]
          BY <5>1, <5>2 DEF Prepared, PartsWritten
        <5>. QED  BY <4>2, <5>3
      <4>. QED  BY <1>2, <1>3, <2>1, <2>2, <2>6, <4>1, <4>2 DEF SenderAnswered
    <3>. QED  BY <3>2, <3>3
  <2>7. CASE Op(s) = "vendor"
    BY <1>1, <2>1, <2>2, <2>3, <2>7 DEF Replies, SenderAnswered
  <2>8. CASE Op(s) \in {"power", "level", "lightness"}
    <3>1. \E op \in StatusOps \ {"appkey_status", "bind_status"} :
            \E v : Replies(p, n) = <<Reply(p, op, v)>>
      <4>1. Op(s) = "power" => Replies(p, n) = <<Reply(p, "onoff_status", IF n.on THEN 1 ELSE 0)>>
        BY <1>1 DEF Replies
      <4>2. Op(s) = "level" => Replies(p, n) = <<Reply(p, "level_status", n.level)>>
        BY <1>1 DEF Replies
      <4>3. Op(s) = "lightness" => Replies(p, n) = <<Reply(p, "lightness_status", n.level)>>
        BY <1>1 DEF Replies
      <4>. QED  BY <2>8, <4>1, <4>2, <4>3 DEF StatusOps
    <3>. QED  BY <1>2, <2>1, <2>2, <2>4, <2>8, <3>1 DEF SenderAnswered
  <2>. QED  BY <1>2, <2>5, <2>6, <2>7, <2>8
<1>. QED  BY <1>5, <1>6

\* A sender that does not await a status moves no status of a request.
LEMMA OthersAnswered ==
  ASSUME TypeOK, NEW s \in Senders, ~Awaits(s), SenderAnswered(s)
  PROVE  AirMoves(0) /\ node'.parts = node.parts
<1>1. Op(s) # "appkey"
  BY DEF Awaits
<1>2. CASE air' = air
  BY <1>1, <1>2, AirKept DEF SenderAnswered
<1>3. ASSUME NEW op \in StatusOps \ {"appkey_status", "bind_status"}, NEW v,
             air' = Append(air, StatusPDU(op, s, v))
      PROVE  AirMoves(0)
  BY <1>3, AirJoined, NobodysStatus
<1>. QED  BY <1>1, <1>2, <1>3 DEF SenderAnswered

\* The status of a request joins the air.
StatusJoins(s) ==
  \E n \in Int :
    /\ \A t \in Requests, i \in Int : AtNext(t, i) <=> At(t, i) \/ (t = s /\ i = n)
    /\ \A t \in Requests, i \in Int : At(t, i) => i < n

LEMMA StatusJoined ==
  ASSUME TypeOK, NEW s \in Requests, air' = Append(air, StatusOf(s))
  PROVE  StatusJoins(s)
<1>1. /\ DOMAIN air = 1..Len(air) /\ Len(air) \in Nat /\ DOMAIN air' = 1..Len(air) + 1
      /\ \A i \in DOMAIN air : air'[i] = air[i]
      /\ air'[Len(air) + 1] = StatusOf(s)
  BY AppendTyped DEF TypeOK, NodeTypes
<1>2. \A t \in Requests : StatusOf(t) = StatusOf(s) => t = s
  BY StatusesDiffer DEF StatusOf
<1> DEFINE n == Len(air) + 1
<1>3. \A t \in Requests, i \in Int : At(t, i) => i < n
  BY <1>1 DEF At
<1>4. ASSUME NEW t \in Requests, NEW i \in Int
      PROVE  AtNext(t, i) <=> At(t, i) \/ (t = s /\ i = n)
  <2>1. CASE i \in DOMAIN air
    BY <1>1, <2>1 DEF AtNext, At
  <2>2. CASE i = n
    BY <1>1, <1>2, <2>2 DEF AtNext, At
  <2>3. CASE i \notin DOMAIN air /\ i # n
    BY <1>1, <2>3 DEF AtNext, At
  <2>. QED  BY <2>1, <2>2, <2>3
<1>5. n \in Int
  BY <1>1
<1> HIDE DEF n
<1>. QED  BY <1>3, <1>4, <1>5 DEF StatusJoins

\* A write ends: the node hears it over a link that is up, or a PDU is lost.
LEMMA WriteEnds ==
  ASSUME IInv, Prepared, NEW s \in Senders, Written(s) \/ WriteFails(s)
  PROVE  /\ pc[s] = "writing" /\ ~WritesBefore(on[s], number[s])
         /\ UNCHANGED <<call, client, link, late, seq, answer>>
         /\ \/ lossy' = TRUE /\ UNCHANGED nodeVars
            \/ link[on[s]] = "up" /\ UNCHANGED lossy /\ SenderAnswered(s)
<1>1. /\ pc[s] = "writing" /\ ~WritesBefore(on[s], number[s])
      /\ UNCHANGED <<call, client, link, late, seq, answer>>
  BY DEF Written, WriteFails, connVars, linkVars
<1>2. \/ Delivered(on[s], Payload(s, transaction[s]), number[s], written[s])
      \/ LostOnAir
  BY DEF Written, WriteFails
<1>. QED  BY <1>1, <1>2, SenderAir DEF Delivered, LostOnAir

\* A sender's step says when it is done with a request; no other sender moves.
Still(s) == \A t \in Senders \ {s} :
  pc'[t] = pc[t] /\ on'[t] = on[t] /\ number'[t] = number[t] /\ written'[t] = written[t]

LEMMA LeavesFacts ==
  ASSUME IInv, NEW s \in Senders, NEW next \in {"idle", "done"}, Leaves(s, next)
  PROVE  /\ Still(s) /\ pc'[s] = next
         /\ unanswered => unanswered'
         /\ Awaits(s) /\ answer[s] = None => unanswered'
         /\ s \notin ToSet(pending) => pending' = pending
BY DEF Leaves, Unregister, Still, IInv, TypeOK, SendTypes

LEMMA EndsFacts ==
  ASSUME IInv, NEW s \in Senders, Ends(s)
  PROVE  /\ Still(s) /\ pc'[s] = "done"
         /\ unanswered => unanswered'
         /\ Awaits(s) /\ answer[s] = None => unanswered'
         /\ s \notin ToSet(pending) => pending' = pending
BY LeavesFacts DEF Ends

\* Nobody retries a method that waits for a status.
LEMMA AwaitsOnce ==
  ASSUME IInv, NEW s \in Senders, Awaits(s)
  PROVE  ~Retried(s)
BY DEF Awaits, Retried, SetOps

LEMMA SendFacts ==
  ASSUME IInv, NEW s \in Senders, Send(s)
  PROVE  /\ Still(s) /\ written' = written /\ pc[s] \in {"idle", "asked"}
         /\ UNCHANGED <<call, client, answer, link, node, air, lossy, late, unanswered>>
         /\ seq' \in Nat /\ seq <= seq'
         /\ Op(s) # "vendor" => pc[s] = "idle"
         /\ \/ pc'[s] \in {"idle", "done"} /\ UNCHANGED pending /\ (Awaits(s) => pc'[s] = "done")
            \/ /\ pc'[s] = "writing" /\ on'[s] = client /\ client # 0
               /\ number'[s] = seq /\ seq < seq'
               /\ pending' = IF Awaits(s) THEN Append(pending, s) ELSE pending
<1>1. /\ UNCHANGED <<call, client, answer, link, node, air, lossy, late, unanswered>>
      /\ pc[s] = IF Op(s) = "vendor" THEN "asked" ELSE "idle"
  BY DEF Send, connVars, linkVars, nodeVars, history
<1>2. Segments(s) \in Nat /\ Segments(s) >= 1 /\ seq \in Nat
  BY CallFacts DEF IInv, TypeOK, ConnTypes, SendTypes
<1>3. CASE client = 0 \/ ~keys
  <2>1. PICK next : /\ next = send_command_with_retry(s, calls[s] + 1)
                    /\ pc' = [pc EXCEPT ![s] = next]
                    /\ UNCHANGED <<seq, on, number, written, pending>>
    BY <1>3 DEF Send
  <2>2. next \in {"idle", "done"} /\ (Awaits(s) => next = "done")
    BY <2>1, RetryFacts, AwaitsOnce
  <2>. QED  BY <1>1, <1>2, <2>1, <2>2 DEF Still, IInv, TypeOK, SendTypes
<1>4. CASE ~(client = 0 \/ ~keys)
  <2>1. /\ pc' = [pc EXCEPT ![s] = "writing"] /\ on' = [on EXCEPT ![s] = client]
        /\ number' = [number EXCEPT ![s] = seq] /\ seq' = seq + Segments(s)
        /\ pending' = IF Awaits(s) THEN Append(pending, s) ELSE pending
        /\ UNCHANGED written
    BY <1>4 DEF Send, _next_seqs
  <2>2. Still(s) /\ pc'[s] = "writing" /\ on'[s] = client /\ number'[s] = seq
    BY <2>1 DEF Still, IInv, TypeOK, SendTypes
  <2>3. seq' \in Nat /\ seq <= seq' /\ seq < seq'
    BY <1>2, <2>1
  <2>. QED  BY <1>1, <1>4, <2>1, <2>2, <2>3
<1>. QED  BY <1>3, <1>4

LEMMA WrittenFacts ==
  ASSUME IInv, NEW s \in Senders, Written(s)
  PROVE  /\ Still(s) /\ (unanswered => unanswered') /\ pc'[s] \in {"backoff", "waiting", "done"}
         /\ Awaits(s) => /\ pc'[s] = IF written[s] + 1 < Segments(s) THEN "backoff" ELSE "waiting"
                         /\ written'[s] = written[s] + 1
                         /\ UNCHANGED <<pending, unanswered>>
         /\ ~Awaits(s) => Ends(s)
<1>1. CASE Awaits(s)
  <2>1. /\ pc' = [pc EXCEPT ![s] = IF written[s] + 1 < Segments(s) THEN "backoff" ELSE "waiting"]
        /\ written' = [written EXCEPT ![s] = @ + 1] /\ number' = [number EXCEPT ![s] = @ + 1]
        /\ UNCHANGED <<on, pending, unanswered>>
    BY <1>1 DEF Written
  <2>. QED  BY <1>1, <2>1 DEF Still, IInv, TypeOK, SendTypes
<1>2. CASE ~Awaits(s)
  <2>1. Ends(s)
    BY <1>2 DEF Written
  <2>. QED  BY <1>2, <2>1, EndsFacts
<1>. QED  BY <1>1, <1>2

LEMMA FailsFacts ==
  ASSUME IInv, NEW s \in Senders, WriteFails(s)
  PROVE  /\ Still(s) /\ (unanswered => unanswered') /\ pc'[s] \in {"backoff", "idle", "done"}
         /\ Awaits(s) => Ends(s)
         /\ ~Awaits(s) => UNCHANGED pending
<1>1. Awaits(s) => ~MayRetry(s)
  BY DEF Awaits, MayRetry, Retried, SetOps
<1>2. CASE MayRetry(s)
  <2>1. /\ pc' = [pc EXCEPT ![s] = "backoff"]
        /\ UNCHANGED <<on, number, written, pending, unanswered>>
    BY <1>2 DEF WriteFails
  <2>. QED  BY <1>1, <1>2, <2>1 DEF Still, IInv, TypeOK, SendTypes
<1>3. CASE ~MayRetry(s)
  <2>1. PICK next \in {"idle", "done"} : Leaves(s, next) /\ (next = "idle" => Retried(s))
    BY <1>3, FailsLeaves
  <2>2. ~Awaits(s) => s \notin ToSet(pending)
    BY DEF IInv, TypeOK, ReceiveTypes, ToSet
  <2>3. Awaits(s) => Ends(s)
    BY <2>1, AwaitsOnce DEF Ends
  <2>. QED  BY <2>1, <2>2, <2>3, LeavesFacts
<1>. QED  BY <1>2, <1>3

LEMMA AgainFacts ==
  ASSUME IInv, NEW s \in Senders, SendAgain(s)
  PROVE  /\ Still(s) /\ (unanswered => unanswered') /\ pc[s] = "backoff"
         /\ UNCHANGED <<call, client, answer, link, node, air, lossy, late>>
         /\ seq' \in Nat /\ seq <= seq'
         /\ \/ Ends(s)
            \/ /\ pc'[s] = "writing" /\ on'[s] = client /\ client # 0
               /\ UNCHANGED <<written, pending, unanswered>>
               /\ Awaits(s) => number'[s] = number[s]
<1>1. /\ UNCHANGED <<call, client, answer, link, node, air, lossy, late>> /\ pc[s] = "backoff"
      /\ seq' = IF Retried(s) THEN seq + 1 ELSE seq
  BY DEF SendAgain, connVars, linkVars, nodeVars
<1>2. seq' \in Nat /\ seq <= seq'
  BY <1>1 DEF IInv, TypeOK, SendTypes
<1>3. CASE client = 0 \/ ~keys
  <2>1. Ends(s)
    BY <1>3 DEF SendAgain
  <2>. QED  BY <1>1, <1>2, <2>1, EndsFacts
<1>4. CASE ~(client = 0 \/ ~keys)
  <2>1. /\ pc' = [pc EXCEPT ![s] = "writing"] /\ on' = [on EXCEPT ![s] = client]
        /\ UNCHANGED <<written, pending, unanswered>>
        /\ number' = [number EXCEPT ![s] = seq] \/ number' = number
        /\ Awaits(s) => number' = number
    BY <1>4 DEF SendAgain, NextTry, Awaits, Retried, SetOps
  <2>. QED  BY <1>1, <1>2, <1>4, <2>1 DEF Still, IInv, TypeOK, SendTypes
<1>. QED  BY <1>3, <1>4

LEMMA LeaveFacts ==
  ASSUME IInv, NEW s \in Senders, Resumed(s) \/ TimedOut(s)
  PROVE  /\ Ends(s) /\ pc[s] = "waiting"
         /\ UNCHANGED <<call, client, answer, link, node, air, lossy, late, seq>>
         /\ TimedOut(s) => answer[s] = None
BY DEF Resumed, TimedOut, connVars, linkVars, nodeVars

\* A notification changes neither what a request sends nor the links; the rest of the
\* air is as it was.
LEMMA NoticeFacts ==
  ASSUME IInv, _process_notify
  PROVE  /\ UNCHANGED <<call, client, link, late, seq, on, number, written, node, unanswered>>
         /\ \A t \in Senders : pc'[t] = pc[t] \/ (Op(t) = "vendor" /\ pc[t] = "idle" /\ pc'[t] = "asked")
         /\ lossy => lossy'
         /\ OldStatuses
<1>1. /\ UNCHANGED <<call, client, link, late, seq, on, number, written, node, unanswered>>
      /\ air # <<>> /\ air \in Seq(ToSet(air)) /\ air' = Tail(air)
      /\ UNCHANGED <<rxVars, pc>> \/ StatusTaken \/ ShownChanges \/ SegmentTaken
  BY Notified DEF IInv, connVars, linkVars
<1>2. \A t \in Senders : pc'[t] = pc[t] \/ (Op(t) = "vendor" /\ pc[t] = "idle" /\ pc'[t] = "asked")
  BY <1>1 DEF StatusTaken, ShownChanges, SegmentTaken, IInv, TypeOK, SendTypes
<1>3. lossy => lossy'
  BY DEF _process_notify
<1>4. OldStatuses
  BY <1>1, TailTyped DEF OldStatuses
<1>. QED  BY <1>1, <1>2, <1>3, <1>4

\* The statuses on the air stay those of requests.
LEMMA KnownStep ==
  ASSUME IInv, Prepared, call' = call
  PROVE  /\ OldStatuses => StatusesKnown'
         /\ \A s \in Senders : SenderAnswered(s) => StatusesKnown'
<1>1. /\ \A s \in Requests : StatusOf(s)' = StatusOf(s)
      /\ Requests' = Requests
  BY DEF StatusOf, StatusPDU, Op, Requests, Awaits, make_proxy_pdu, encrypt_network_pdu,
         make_access_unsegmented, mesh_aes_ccm_encrypt, MeshKeys
<1>2. \A op, s, v : StatusPDU(op, s, v)' = StatusPDU(op, s, v)
  BY DEF StatusPDU
<1>a. air \in Seq(ToSet(air)) /\ DOMAIN air = 1..Len(air) /\ Len(air) \in Nat
  BY DEF IInv, TypeOK, NodeTypes
<1>3. ASSUME OldStatuses PROVE StatusesKnown'
  <2> SUFFICES ASSUME NEW i \in DOMAIN air', NEW op \in {"appkey_status", "bind_status"},
                      NEW s \in Senders, NEW v \in Int, air'[i] = StatusPDU(op, s, v)
               PROVE  s \in Requests /\ air'[i] = StatusOf(s)
    BY <1>1, <1>2 DEF StatusesKnown
  <2>1. PICK j \in DOMAIN air : air'[i] = air[j]
    BY <1>3 DEF OldStatuses
  <2>. QED  BY <2>1 DEF Prepared, StatusesKnown
<1>4. ASSUME NEW s \in Senders, SenderAnswered(s) PROVE StatusesKnown'
  <2> SUFFICES ASSUME NEW i \in DOMAIN air', NEW op \in {"appkey_status", "bind_status"},
                      NEW t \in Senders, NEW v \in Int, air'[i] = StatusPDU(op, t, v)
               PROVE  t \in Requests /\ air'[i] = StatusOf(t)
    BY <1>1, <1>2 DEF StatusesKnown
  <2>1. ASSUME NEW j \in DOMAIN air, air'[i] = air[j] PROVE t \in Requests /\ air'[i] = StatusOf(t)
    BY <2>1 DEF Prepared, StatusesKnown
  <2>2. ASSUME NEW x, air' = Append(air, x) PROVE air'[i] = x \/ \E j \in DOMAIN air : air'[i] = air[j]
    <3>1. /\ DOMAIN air = 1..Len(air) /\ Len(air) \in Nat /\ DOMAIN air' = 1..Len(air) + 1
          /\ \A j \in DOMAIN air : air'[j] = air[j]
          /\ air'[Len(air) + 1] = x
      BY <1>a, <2>2, AppendTyped
    <3>2. i \in DOMAIN air \/ i = Len(air) + 1
      BY <3>1
    <3>. QED  BY <3>1, <3>2
  <2>3. CASE air' = air
    BY <2>1, <2>3
  <2>4. ASSUME NEW op2 \in StatusOps \ {"appkey_status", "bind_status"}, NEW w,
               air' = Append(air, StatusPDU(op2, s, w))
        PROVE  t \in Requests /\ air'[i] = StatusOf(t)
    <3>1. air'[i] # StatusPDU(op2, s, w)
      BY StatusesDiffer
    <3>. QED  BY <2>1, <2>2, <2>4, <3>1
  <2>5. CASE Awaits(s) /\ air' = Append(air, StatusOf(s))
    <3>1. s \in Requests
      BY <2>5 DEF Requests
    <3>2. air'[i] = StatusOf(s) => t = s
      <4>1. air'[i] = StatusOf(s) => StatusPDU(op, t, v) = StatusPDU(Status[Op(s)], s, 0)
        BY DEF StatusOf
      <4>2. StatusPDU(op, t, v) = StatusPDU(Status[Op(s)], s, 0) => t = s
        BY StatusesDiffer
      <4>. QED  BY <4>1, <4>2
    <3>. QED  BY <2>1, <2>2, <2>5, <3>1, <3>2
  <2>. QED  BY <1>4, <2>3, <2>4, <2>5 DEF SenderAnswered
<1>. QED  BY <1>3, <1>4

\* A status resolves the future of a request.
LEMMA OthersUnanswered == IInv /\ Prepared /\ _process_notify => OthersWait'
<1> SUFFICES ASSUME IInv, Prepared, _process_notify PROVE OthersWait'
  OBVIOUS
<1>1. call' = call
  BY NoticeFacts
<1>2. /\ answer \in [Senders -> Senders \cup {None}]
      /\ \A i \in DOMAIN pending : pending[i] \in Senders /\ Awaits(pending[i])
  <2>1. answer \in [Senders -> Senders \cup {None}] /\ pending \in Seq(Requests)
    BY DEF IInv, TypeOK, ReceiveTypes, Requests
  <2>2. \A i \in DOMAIN pending : pending[i] \in Requests
    BY <2>1
  <2>. QED  BY <2>1, <2>2 DEF Requests
<1>3. \/ answer' = answer
      \/ \E i \in DOMAIN pending, s \in Senders : answer' = [answer EXCEPT ![pending[i]] = s]
  <2>1. UNCHANGED <<rxVars, pc>> \/ StatusTaken \/ ShownChanges \/ SegmentTaken
    BY Notified DEF IInv
  <2>. QED  BY <2>1 DEF StatusTaken, ShownChanges, SegmentTaken, rxVars
<1>4. \A s \in Senders : ~Awaits(s) => answer'[s] = answer[s]
  BY <1>2, <1>3
<1>. QED  BY <1>1, <1>4 DEF Prepared, OthersWait, Awaits, Op

LEMMA PreparedStep == IInv /\ Prepared /\ [Next]_vars => Prepared'
<1> SUFFICES ASSUME IInv, Prepared, [Next]_vars PROVE Prepared'
  OBVIOUS
<1>c. call' = call
  BY CallKept
<1>r. Requests' = Requests /\ Requests \subseteq Senders
  BY <1>c DEF Requests, Awaits, Op
<1>o. \A s : Op(s)' = Op(s)
  BY <1>c DEF Op
<1>t. /\ on \in [Senders -> SessionOrNone] /\ number \in [Senders -> Nat] /\ seq \in Nat
      /\ \A s \in Senders : pc[s] = "writing" => on[s] \in Sessions
      /\ \A s \in Requests : written[s] \in 0..2
  BY <1>r DEF IInv, TypeOK, SendTypes, SenderStage
\* The parts the node has of others are not changed by a sender.
<1>p. ASSUME NEW s \in Senders, Still(s),
             UNCHANGED node \/ node'.parts = node.parts \/ SenderAnswered(s),
             s \in Requests /\ pc'[s] \in {"idle", "writing", "backoff"} =>
               \A o \in {0, 1} : <<s, o>> \in node'.parts => o < written'[s]
      PROVE  PartsWritten'
  <2> SUFFICES ASSUME NEW t \in Requests, pc'[t] \in {"idle", "writing", "backoff"},
                      NEW o \in {0, 1}, <<t, o>> \in node'.parts
               PROVE  o < written'[t]
    BY <1>r DEF PartsWritten
  <2>1. CASE t = s
    BY <1>p, <2>1
  <2>2. CASE t # s
    <3>1. pc'[t] = pc[t] /\ written'[t] = written[t]
      BY <1>p, <1>r, <2>2 DEF Still
    <3>2. <<t, o>> \in node.parts
      BY <1>p, <2>2 DEF SenderAnswered
    <3>. QED  BY <3>1, <3>2 DEF Prepared, PartsWritten
  <2>. QED  BY <2>1, <2>2
\* Nor are the numbers and clients of others.
<1>n. ASSUME NEW s \in Senders, Still(s), seq' \in Nat, seq <= seq', link' = link,
             Op(s) = "bind" => pc'[s] # "backoff",
             pc'[s] = "writing" => link[on'[s]] # "none" /\ (Op(s) = "bind" => number'[s] < seq')
      PROVE  WriterOpened' /\ NumberTaken'
  <2>1. ASSUME NEW t \in Senders, pc'[t] = "writing"
        PROVE  link'[on'[t]] # "none"
    BY <1>n, <2>1 DEF Still, Prepared, WriterOpened
  <2>2. ASSUME NEW t \in Senders, Op(t) = "bind"
        PROVE  pc'[t] # "backoff" /\ (pc'[t] = "writing" => number'[t] < seq')
    <3>1. CASE t = s
      BY <1>n, <2>2, <3>1
    <3>2. CASE t # s
      <4>1. pc'[t] = pc[t] /\ number'[t] = number[t] /\ number[t] \in Nat
        BY <1>n, <1>t, <3>2 DEF Still
      <4>2. pc[t] # "backoff" /\ (pc[t] = "writing" => number[t] < seq)
        BY <2>2 DEF Prepared, NumberTaken
      <4>. QED  BY <1>n, <1>t, <4>1, <4>2
    <3>. QED  BY <3>1, <3>2
  <2>. QED  BY <1>o, <2>1, <2>2 DEF WriterOpened, NumberTaken
<1>w. UNCHANGED answer => OthersWait'
  BY <1>o DEF Prepared, OthersWait, Awaits
<1>1. CASE Elsewhere
  <2>1. /\ UNCHANGED <<pc, on, number, written>> /\ seq' \in Nat /\ seq <= seq'
        /\ node'.parts = node.parts
        /\ \A c \in Sessions : link[c] # "none" => link'[c] # "none"
    BY <1>1 DEF Elsewhere, SendersRest, ClientRests
  <2>2. StatusesKnown'
    BY <1>1, <1>c, KnownStep DEF Elsewhere, StatusesRest
  <2>3. WriterOpened'
    BY <1>t, <2>1 DEF Prepared, WriterOpened
  <2>4. NumberTaken'
    BY <1>o, <1>t, <2>1 DEF Prepared, NumberTaken
  <2>5. PartsWritten'
    BY <1>r, <2>1 DEF Prepared, PartsWritten
  <2>. QED  BY <1>1, <1>w, <2>2, <2>3, <2>4, <2>5 DEF Prepared, Elsewhere, SendersRest
<1>2. CASE _process_notify
  <2>1. /\ UNCHANGED <<link, seq, on, number, written, node>> /\ OldStatuses
        /\ \A t \in Senders : pc'[t] = pc[t] \/ (Op(t) = "vendor" /\ pc'[t] = "asked")
    BY <1>2, NoticeFacts
  <2>2. StatusesKnown'
    BY <1>c, <2>1, KnownStep
  <2>3. WriterOpened'
    BY <2>1 DEF Prepared, WriterOpened
  <2>4. NumberTaken' /\ PartsWritten'
    BY <1>o, <1>r, <2>1 DEF Prepared, NumberTaken, PartsWritten
  <2>5. OthersWait'
    BY <1>2, OthersUnanswered
  <2>. QED  BY <2>2, <2>3, <2>4, <2>5 DEF Prepared
<1>k. UNCHANGED air => StatusesKnown'
  BY <1>c, KnownStep DEF OldStatuses
<1>z. client # 0 => link[client] # "none"
  BY DEF IInv, Sessioned
<1>3. ASSUME NEW s \in Senders, Send(s) PROVE Prepared'
  <2>1. /\ Still(s) /\ written' = written /\ UNCHANGED <<answer, link, node, air>>
        /\ seq' \in Nat /\ seq <= seq'
        /\ Op(s) # "vendor" => pc[s] = "idle"
        /\ \/ pc'[s] \in {"idle", "done"}
           \/ pc'[s] = "writing" /\ on'[s] = client /\ client # 0 /\ number'[s] = seq /\ seq < seq'
    BY <1>3, SendFacts
  <2>2. WriterOpened' /\ NumberTaken'
    BY <1>n, <1>z, <2>1
  <2>3. PartsWritten'
    <3>1. s \in Requests => Op(s) # "vendor"
      BY DEF Requests, Awaits
    <3>2. s \in Requests => \A o \in {0, 1} : <<s, o>> \in node'.parts => o < written'[s]
      BY <2>1, <3>1 DEF Prepared, PartsWritten
    <3>. QED  BY <1>p, <2>1, <3>2
  <2>. QED  BY <1>k, <1>w, <2>1, <2>2, <2>3 DEF Prepared
<1>4. ASSUME NEW s \in Senders, Written(s) \/ WriteFails(s) PROVE Prepared'
  <2>1. Still(s) /\ pc'[s] \in {"backoff", "waiting", "idle", "done"}
    BY <1>4, WrittenFacts, FailsFacts
  <2>2. /\ UNCHANGED <<answer, link, seq>> /\ pc[s] = "writing"
        /\ UNCHANGED nodeVars \/ SenderAnswered(s)
    BY <1>4, WriteEnds
  <2>3. WriterOpened' /\ NumberTaken'
    <3>1. seq' \in Nat /\ seq <= seq'
      BY <1>t, <2>2
    <3>2. Op(s) = "bind" => pc'[s] # "backoff"
      <4>1. Op(s) = "bind" => Awaits(s) /\ ~(written[s] + 1 < Segments(s))
        BY <1>t DEF Requests, Awaits, Segments
      <4>. QED  BY <1>4, <4>1, WrittenFacts, FailsFacts, EndsFacts
    <3>. QED  BY <1>n, <2>1, <2>2, <3>1, <3>2
  <2>4. ASSUME s \in Requests, pc'[s] \in {"idle", "writing", "backoff"},
               NEW o \in {0, 1}, <<s, o>> \in node'.parts
        PROVE  o < written'[s]
    <3>1. Awaits(s) /\ pc'[s] = "backoff"
      BY <1>4, <2>4, WrittenFacts, FailsFacts, EndsFacts DEF Requests
    <3>2. Written(s) /\ written'[s] = written[s] + 1
      BY <1>4, <3>1, WrittenFacts, FailsFacts, EndsFacts
    <3>3. <<s, o>> \in node.parts \/ o = written[s]
      BY <2>2, <2>4 DEF SenderAnswered, nodeVars
    <3>4. <<s, o>> \in node.parts => o < written[s]
      BY <2>2, <2>4 DEF Prepared, PartsWritten
    <3>. QED  BY <1>t, <2>4, <3>2, <3>3, <3>4
  <2>5. PartsWritten'
    BY <1>p, <2>1, <2>2, <2>4 DEF nodeVars
  <2>6. StatusesKnown'
    BY <1>c, <1>k, <2>2, KnownStep DEF nodeVars
  <2>. QED  BY <1>w, <2>2, <2>3, <2>5, <2>6 DEF Prepared
<1>5. ASSUME NEW s \in Senders, SendAgain(s) PROVE Prepared'
  <2>1. /\ Still(s) /\ pc[s] = "backoff" /\ UNCHANGED <<answer, link, node, air>>
        /\ seq' \in Nat /\ seq <= seq'
        /\ \/ pc'[s] = "done"
           \/ /\ pc'[s] = "writing" /\ on'[s] = client /\ client # 0 /\ UNCHANGED written
    BY <1>5, AgainFacts, EndsFacts
  <2>2. Op(s) # "bind"
    BY <2>1 DEF Prepared, NumberTaken
  <2>3. WriterOpened' /\ NumberTaken'
    BY <1>n, <1>z, <2>1, <2>2
  <2>4. s \in Requests /\ pc'[s] \in {"idle", "writing", "backoff"}
          => \A o \in {0, 1} : <<s, o>> \in node'.parts => o < written'[s]
    BY <2>1 DEF Prepared, PartsWritten
  <2>5. PartsWritten'
    BY <1>p, <2>1, <2>4
  <2>. QED  BY <1>k, <1>w, <2>1, <2>3, <2>5 DEF Prepared
<1>6. ASSUME NEW s \in Senders, Resumed(s) \/ TimedOut(s) PROVE Prepared'
  <2>1. Still(s) /\ pc'[s] = "done" /\ UNCHANGED <<answer, link, node, air, seq>>
    BY <1>6, LeaveFacts, EndsFacts
  <2>2. seq' \in Nat /\ seq <= seq'
    BY <1>t, <2>1
  <2>3. WriterOpened' /\ NumberTaken'
    BY <1>n, <2>1, <2>2
  <2>4. PartsWritten'
    BY <1>p, <2>1
  <2>. QED  BY <1>k, <1>w, <2>1, <2>3, <2>4 DEF Prepared
<1>. QED  BY <1>1, <1>2, <1>3, <1>4, <1>5, <1>6, ElsewhereSteps DEF SendersOr

\* What a step does to the requests: it leaves all alone, registers one, ends one that is
\* no longer registered, comes to the next segment of an AppKey Add, delivers the last
\* PDU of one, whose status joins the air, or resolves one with its status.
SameBut(S) == \A t \in Requests \ S : pc'[t] = pc[t] /\ number'[t] = number[t]
Quiet ==
  /\ SameBut({}) /\ UNCHANGED <<pending, answer>>
  /\ AirMoves(0) \/ (AirMoves(1) /\ \A t \in Requests : ~At(t, 1))
Registers(s) ==
  /\ pc[s] = "idle" /\ pc'[s] = "writing" /\ number'[s] = seq
  /\ pending' = Append(pending, s) /\ answer' = answer /\ AirMoves(0)
Finishes(s) ==
  /\ pc'[s] = "done" /\ s \notin ToSet(pending)
  /\ UNCHANGED <<pending, answer>> /\ AirMoves(0)
Pauses(s) ==
  /\ Op(s) = "appkey" /\ pc[s] \in {"writing", "backoff"}
  /\ pc'[s] \in {"writing", "backoff", "waiting"}
  /\ UNCHANGED <<pending, answer>> /\ AirMoves(0)
Delivers(s) ==
  /\ pc[s] = "writing" /\ pc'[s] = "waiting"
  /\ \A t \in Requests : pc[t] = "writing" => ~(number[t] < number[s])
  /\ UNCHANGED <<pending, answer>> /\ StatusJoins(s)
Takes(s) ==
  /\ At(s, 1) /\ SameBut({}) /\ answer' = [answer EXCEPT ![s] = s]
  /\ \E m \in DOMAIN pending : pending[m] = s /\ pending' = RemoveAt(pending, m)
  /\ AirMoves(1)
RequestStep ==
  \/ Quiet
  \/ \E s \in Requests :
       \/ SameBut({s}) /\ (Registers(s) \/ Finishes(s) \/ Pauses(s) \/ Delivers(s))
       \/ Takes(s)

\* The parts of the invariant in the next state.
NextBefore(s, t) == \E a \in DOMAIN pending' : \E b \in DOMAIN pending' :
                      a < b /\ pending'[a] = s /\ pending'[b] = t
LEMMA NextParts ==
  ASSUME call' = call,
         \A s \in Requests :
           /\ answer'[s] \in {None, s}
           /\ answer'[s] # None => pc'[s] \in {"waiting", "done"} /\ s \notin ToSet(pending')
           /\ pc'[s] \in {"writing", "backoff"} => s \in ToSet(pending')
           /\ \A i \in Int : AtNext(s, i) =>
                /\ pc'[s] = "waiting" /\ s \in ToSet(pending')
                /\ \A j \in Int : AtNext(s, j) => i = j,
         \A s \in ToSet(pending') :
           Op(s) = "bind" => pc'[s] = "writing" \/ \E i \in Int : AtNext(s, i),
         \A s \in Requests, t \in Requests :
           Op(s) = "bind" /\ Op(t) = "bind" /\ NextBefore(s, t) =>
             /\ pc'[s] = "writing" /\ pc'[t] = "writing" => number'[s] < number'[t]
             /\ \A j \in Int : AtNext(t, j) => \E i \in Int : i < j /\ AtNext(s, i)
  PROVE  OwnStatus' /\ BindsUnderWay' /\ BindsInOrder'
<1>1. Requests' = Requests /\ \A s : Op(s)' = Op(s)
  BY DEF Requests, Awaits, Op
<1>2. \A s, i : At(s, i)' <=> AtNext(s, i)
  BY <1>1 DEF At, AtNext, StatusOf, StatusPDU
<1>3. \A s, t : Before(s, t)' <=> NextBefore(s, t)
  BY DEF Before, NextBefore
<1>4. OwnStatus'
  BY <1>1, <1>2 DEF OwnStatus
<1>5. BindsUnderWay'
  BY <1>1, <1>2 DEF BindsUnderWay
<1>6. BindsInOrder'
  BY <1>1, <1>2, <1>3 DEF BindsInOrder
<1>. QED  BY <1>4, <1>5, <1>6

\* Registered requests are in the order of registration; on the air places count from 1.
LEMMA OrderFacts ==
  ASSUME TypeOK
  PROVE  /\ \A s, t : Before(s, t) => s \in ToSet(pending) /\ t \in ToSet(pending)
         /\ ToSet(pending) \subseteq Requests
         /\ \A s, i : At(s, i) => i \in Int /\ i >= 1
         /\ \A s \in Requests, t \in Requests, i \in Int : At(s, i) /\ At(t, i) => s = t
         /\ \A s \in Requests : number[s] \in Nat
         /\ UNCHANGED pending => \A s, t : NextBefore(s, t) <=> Before(s, t)
<1>1. pending \in Seq(Requests) /\ Requests \subseteq Senders
  BY DEF TypeOK, ReceiveTypes, Requests
<1>2. \A s, t : Before(s, t) => s \in ToSet(pending) /\ t \in ToSet(pending)
  BY DEF Before, ToSet
<1>3. ToSet(pending) \subseteq Requests
  BY <1>1 DEF ToSet
<1>4. \A s, i : At(s, i) => i \in Int /\ i >= 1
  BY DEF At, TypeOK, NodeTypes
<1>5. ASSUME NEW s \in Requests, NEW t \in Requests, NEW i \in Int, At(s, i), At(t, i)
      PROVE  s = t
  <2>1. StatusPDU(Status[Op(s)], s, 0) = StatusPDU(Status[Op(t)], t, 0)
    BY <1>5 DEF At, StatusOf
  <2>. QED  BY <2>1, StatusesDiffer
<1>6. \A s \in Requests : number[s] \in Nat
  BY <1>1 DEF TypeOK, SendTypes
<1>7. UNCHANGED pending => \A s, t : NextBefore(s, t) <=> Before(s, t)
  BY DEF Before, NextBefore
<1>. QED  BY <1>2, <1>3, <1>4, <1>5, <1>6, <1>7

\* Each keeps the order.
Orderly == OwnStatus /\ BindsUnderWay /\ BindsInOrder

LEMMA QuietKeeps ==
  ASSUME TypeOK, Orderly, call' = call, Quiet
  PROVE  Orderly'
<1>1. PICK k \in {0, 1} : /\ \A s \in Requests, i \in Int : AtNext(s, i) <=> i >= 1 /\ At(s, i + k)
                          /\ \A s \in Requests, i \in Int : At(s, i) => i >= 1 + k
  <2>1. \A s, i : At(s, i) => i \in Int /\ i >= 1
    BY OrderFacts
  <2>2. CASE AirMoves(0)
    BY <2>1, <2>2 DEF AirMoves
  <2>3. CASE AirMoves(1) /\ \A t \in Requests : ~At(t, 1)
    <3>1. \A s \in Requests, i \in Int : At(s, i) => i >= 2
      <4> SUFFICES ASSUME NEW s \in Requests, NEW i \in Int, At(s, i) PROVE i >= 2
        OBVIOUS
      <4>1. i # 1 /\ i >= 1
        BY <2>1, <2>3
      <4>. QED  BY <4>1
    <3>. QED  BY <2>3, <3>1 DEF AirMoves
  <2>. QED  BY <2>2, <2>3 DEF Quiet
<1>2. /\ \A s \in Requests : pc'[s] = pc[s] /\ number'[s] = number[s]
      /\ pending' = pending /\ answer' = answer
  BY DEF Quiet, SameBut
<1>3. \A s \in Requests, i \in Int : At(s, i) => AtNext(s, i - k)
  <2> SUFFICES ASSUME NEW s \in Requests, NEW i \in Int, At(s, i) PROVE AtNext(s, i - k)
    OBVIOUS
  <2>1. i - k \in Int /\ i - k >= 1 /\ (i - k) + k = i
    BY <1>1
  <2>. QED  BY <1>1, <2>1
<1>4. \A s \in Requests, i \in Int : AtNext(s, i) => At(s, i + k)
  BY <1>1
<1>5. ASSUME NEW s \in Requests
      PROVE  /\ answer'[s] \in {None, s}
             /\ answer'[s] # None => pc'[s] \in {"waiting", "done"} /\ s \notin ToSet(pending')
             /\ pc'[s] \in {"writing", "backoff"} => s \in ToSet(pending')
             /\ \A i \in Int : AtNext(s, i) =>
                  /\ pc'[s] = "waiting" /\ s \in ToSet(pending')
                  /\ \A j \in Int : AtNext(s, j) => i = j
  <2>1. ASSUME NEW i \in Int, AtNext(s, i)
        PROVE  /\ pc'[s] = "waiting" /\ s \in ToSet(pending')
               /\ \A j \in Int : AtNext(s, j) => i = j
    <3>1. At(s, i + k) /\ i + k \in Int
      BY <1>4, <2>1
    <3>2. ASSUME NEW j \in Int, AtNext(s, j) PROVE i = j
      <4>1. At(s, j + k) /\ j + k \in Int
        BY <1>4, <3>2
      <4>2. i + k = j + k
        BY <3>1, <4>1 DEF Orderly, OwnStatus
      <4>. QED  BY <4>2
    <3>. QED  BY <1>2, <3>1, <3>2 DEF Orderly, OwnStatus
  <2>. QED  BY <1>2, <2>1 DEF Orderly, OwnStatus
<1>6. ASSUME NEW s \in ToSet(pending'), Op(s) = "bind"
      PROVE  pc'[s] = "writing" \/ \E i \in Int : AtNext(s, i)
  <2>1. s \in Requests /\ s \in ToSet(pending)
    BY <1>2, <1>6, OrderFacts
  <2>2. CASE pc[s] = "writing"
    BY <1>2, <2>1, <2>2
  <2>3. ASSUME NEW i \in Int, At(s, i) PROVE \E j \in Int : AtNext(s, j)
    BY <1>1, <1>3, <2>1, <2>3
  <2>. QED  BY <1>6, <2>1, <2>2, <2>3 DEF Orderly, BindsUnderWay
<1>7. ASSUME NEW s \in Requests, NEW t \in Requests,
             Op(s) = "bind", Op(t) = "bind", NextBefore(s, t)
      PROVE  /\ pc'[s] = "writing" /\ pc'[t] = "writing" => number'[s] < number'[t]
             /\ \A j \in Int : AtNext(t, j) => \E i \in Int : i < j /\ AtNext(s, i)
  <2>1. Before(s, t)
    BY <1>2, <1>7, OrderFacts
  <2>2. ASSUME NEW j \in Int, AtNext(t, j) PROVE \E i \in Int : i < j /\ AtNext(s, i)
    <3>1. At(t, j + k) /\ j + k \in Int
      BY <1>4, <2>2
    <3>2. PICK i \in Int : i < j + k /\ At(s, i)
      BY <1>7, <2>1, <3>1 DEF Orderly, BindsInOrder
    <3>3. i - k \in Int /\ i - k < j /\ AtNext(s, i - k)
      BY <1>3, <3>2
    <3>. QED  BY <3>3
  <2>. QED  BY <1>2, <1>7, <2>1, <2>2 DEF Orderly, BindsInOrder
<1>. QED  BY <1>5, <1>6, <1>7, NextParts DEF Orderly

\* With the statuses where they were.
LEMMA PlacesKept ==
  ASSUME TypeOK, AirMoves(0)
  PROVE  \A s \in Requests, i \in Int : AtNext(s, i) <=> At(s, i)
<1>1. \A s, i : At(s, i) => i \in Int /\ i >= 1
  BY OrderFacts
<1>2. ASSUME NEW s \in Requests, NEW i \in Int PROVE AtNext(s, i) <=> At(s, i)
  <2>1. i + 0 = i
    OBVIOUS
  <2>. QED  BY <1>1, <2>1 DEF AirMoves
<1>. QED  BY <1>2

LEMMA RegistersKeeps ==
  ASSUME IInv, Prepared, Orderly, call' = call, NEW s \in Requests, SameBut({s}), Registers(s)
  PROVE  Orderly'
<1>t. TypeOK /\ SenderStage /\ s \in Senders /\ Awaits(s)
  BY DEF IInv, Requests
<1>1. \A t \in Requests, i \in Int : AtNext(t, i) <=> At(t, i)
  BY <1>t, PlacesKept DEF Registers
<1>2. /\ pc[s] = "idle" /\ pc'[s] = "writing" /\ number'[s] = seq
      /\ answer' = answer /\ pending' = Append(pending, s)
      /\ \A t \in Requests \ {s} : pc'[t] = pc[t] /\ number'[t] = number[t]
  BY DEF Registers, SameBut
<1>3. ToSet(pending') = ToSet(pending) \cup {s} /\ s \notin ToSet(pending)
  BY <1>t, <1>2, Registered DEF SenderStage
<1>4. \A t, u : NextBefore(t, u) => Before(t, u) \/ (u = s /\ t \in ToSet(pending))
  <2>1. pending \in Seq(ToSet(pending)) /\ DOMAIN pending = 1..Len(pending) /\ Len(pending) \in Nat
    <3>1. pending \in Seq(Requests)
      BY <1>t DEF TypeOK, ReceiveTypes, Requests
    <3>. QED  BY <3>1, OwnElements
  <2>2. /\ DOMAIN pending' = 1..Len(pending) + 1
        /\ \A i \in DOMAIN pending : pending'[i] = pending[i]
        /\ pending'[Len(pending) + 1] = s
    BY <1>2, <2>1, AppendTyped
  <2> SUFFICES ASSUME NEW t, NEW u, NEW a \in DOMAIN pending', NEW b \in DOMAIN pending',
                      a < b, pending'[a] = t, pending'[b] = u
               PROVE  Before(t, u) \/ (u = s /\ t \in ToSet(pending))
    BY DEF NextBefore
  <2>3. a \in DOMAIN pending
    BY <2>1, <2>2
  <2>4. CASE b \in DOMAIN pending
    BY <2>2, <2>3, <2>4 DEF Before
  <2>5. CASE b = Len(pending) + 1
    BY <2>2, <2>3, <2>5 DEF ToSet
  <2>. QED  BY <2>1, <2>2, <2>4, <2>5
<1>5. \A i \in Int : ~At(s, i)
  BY <1>2 DEF Orderly, OwnStatus
<1>6. ASSUME NEW t \in Requests
      PROVE  /\ answer'[t] \in {None, t}
             /\ answer'[t] # None => pc'[t] \in {"waiting", "done"} /\ t \notin ToSet(pending')
             /\ pc'[t] \in {"writing", "backoff"} => t \in ToSet(pending')
             /\ \A i \in Int : AtNext(t, i) =>
                  /\ pc'[t] = "waiting" /\ t \in ToSet(pending')
                  /\ \A j \in Int : AtNext(t, j) => i = j
  <2>1. CASE t = s
    BY <1>1, <1>2, <1>3, <1>5, <2>1 DEF Orderly, OwnStatus
  <2>2. CASE t # s
    BY <1>1, <1>2, <1>3, <2>2 DEF Orderly, OwnStatus
  <2>. QED  BY <2>1, <2>2
<1>7. ASSUME NEW t \in ToSet(pending'), Op(t) = "bind"
      PROVE  pc'[t] = "writing" \/ \E i \in Int : AtNext(t, i)
  <2>1. CASE t = s
    BY <1>2, <2>1
  <2>2. CASE t # s
    <3>1. t \in ToSet(pending) /\ t \in Requests
      BY <1>t, <1>3, <2>2, OrderFacts
    <3>. QED  BY <1>1, <1>2, <1>7, <2>2, <3>1 DEF Orderly, BindsUnderWay
  <2>. QED  BY <2>1, <2>2
<1>8. ASSUME NEW t \in Requests, NEW u \in Requests,
             Op(t) = "bind", Op(u) = "bind", NextBefore(t, u)
      PROVE  /\ pc'[t] = "writing" /\ pc'[u] = "writing" => number'[t] < number'[u]
             /\ \A j \in Int : AtNext(u, j) => \E i \in Int : i < j /\ AtNext(t, i)
  <2>1. CASE Before(t, u)
    <3>1. t # s /\ u # s
      BY <1>t, <1>3, <2>1, OrderFacts
    <3>. QED  BY <1>1, <1>2, <1>8, <2>1, <3>1 DEF Orderly, BindsInOrder
  <2>2. CASE u = s /\ t \in ToSet(pending)
    <3>1. t # s /\ t \in Senders
      BY <1>3, <2>2 DEF Requests
    <3>2. pc[t] = "writing" => number[t] < seq
      BY <1>8, <3>1 DEF Prepared, NumberTaken
    <3>. QED  BY <1>1, <1>2, <1>5, <2>2, <3>1, <3>2
  <2>. QED  BY <1>4, <1>8, <2>1, <2>2
<1>. QED  BY <1>6, <1>7, <1>8, NextParts DEF Orderly

LEMMA FinishesKeeps ==
  ASSUME IInv, Orderly, call' = call, NEW s \in Requests, SameBut({s}), Finishes(s)
  PROVE  Orderly'
<1>t. TypeOK
  BY DEF IInv
<1>1. \A t \in Requests, i \in Int : AtNext(t, i) <=> At(t, i)
  BY <1>t, PlacesKept DEF Finishes
<1>2. /\ pc'[s] = "done" /\ s \notin ToSet(pending) /\ answer' = answer /\ pending' = pending
      /\ \A t \in Requests \ {s} : pc'[t] = pc[t] /\ number'[t] = number[t]
  BY DEF Finishes, SameBut
<1>3. ASSUME NEW t \in Requests
      PROVE  /\ answer'[t] \in {None, t}
             /\ answer'[t] # None => pc'[t] \in {"waiting", "done"} /\ t \notin ToSet(pending')
             /\ pc'[t] \in {"writing", "backoff"} => t \in ToSet(pending')
             /\ \A i \in Int : AtNext(t, i) =>
                  /\ pc'[t] = "waiting" /\ t \in ToSet(pending')
                  /\ \A j \in Int : AtNext(t, j) => i = j
  <2>1. CASE t = s
    BY <1>1, <1>2, <2>1 DEF Orderly, OwnStatus
  <2>2. CASE t # s
    BY <1>1, <1>2, <2>2 DEF Orderly, OwnStatus
  <2>. QED  BY <2>1, <2>2
<1>4. ASSUME NEW t \in ToSet(pending'), Op(t) = "bind"
      PROVE  pc'[t] = "writing" \/ \E i \in Int : AtNext(t, i)
  <2>1. t # s /\ t \in Requests
    BY <1>t, <1>2, OrderFacts
  <2>. QED  BY <1>1, <1>2, <1>4, <2>1 DEF Orderly, BindsUnderWay
<1>5. ASSUME NEW t \in Requests, NEW u \in Requests,
             Op(t) = "bind", Op(u) = "bind", NextBefore(t, u)
      PROVE  /\ pc'[t] = "writing" /\ pc'[u] = "writing" => number'[t] < number'[u]
             /\ \A j \in Int : AtNext(u, j) => \E i \in Int : i < j /\ AtNext(t, i)
  <2>1. Before(t, u)
    BY <1>t, <1>2, <1>5, OrderFacts
  <2>2. t # s /\ u # s
    BY <1>t, <1>2, <2>1, OrderFacts
  <2>. QED  BY <1>1, <1>2, <1>5, <2>1, <2>2 DEF Orderly, BindsInOrder
<1>. QED  BY <1>3, <1>4, <1>5, NextParts DEF Orderly

LEMMA PausesKeeps ==
  ASSUME IInv, Orderly, call' = call, NEW s \in Requests, SameBut({s}), Pauses(s)
  PROVE  Orderly'
<1>t. TypeOK
  BY DEF IInv
<1>1. \A t \in Requests, i \in Int : AtNext(t, i) <=> At(t, i)
  BY <1>t, PlacesKept DEF Pauses
<1>2. /\ pc[s] \in {"writing", "backoff"} /\ pc'[s] \in {"writing", "backoff", "waiting"}
      /\ Op(s) = "appkey" /\ answer' = answer /\ pending' = pending
      /\ \A t \in Requests \ {s} : pc'[t] = pc[t] /\ number'[t] = number[t]
  BY DEF Pauses, SameBut
<1>3. ASSUME NEW t \in Requests
      PROVE  /\ answer'[t] \in {None, t}
             /\ answer'[t] # None => pc'[t] \in {"waiting", "done"} /\ t \notin ToSet(pending')
             /\ pc'[t] \in {"writing", "backoff"} => t \in ToSet(pending')
             /\ \A i \in Int : AtNext(t, i) =>
                  /\ pc'[t] = "waiting" /\ t \in ToSet(pending')
                  /\ \A j \in Int : AtNext(t, j) => i = j
  <2>1. CASE t = s
    <3>1. answer[s] = None /\ s \in ToSet(pending) /\ \A i \in Int : ~At(s, i)
      BY <1>2 DEF Orderly, OwnStatus
    <3>. QED  BY <1>1, <1>2, <2>1, <3>1
  <2>2. CASE t # s
    BY <1>1, <1>2, <2>2 DEF Orderly, OwnStatus
  <2>. QED  BY <2>1, <2>2
<1>4. ASSUME NEW t \in ToSet(pending'), Op(t) = "bind"
      PROVE  pc'[t] = "writing" \/ \E i \in Int : AtNext(t, i)
  <2>1. t # s /\ t \in Requests
    BY <1>t, <1>2, <1>4, OrderFacts
  <2>. QED  BY <1>1, <1>2, <1>4, <2>1 DEF Orderly, BindsUnderWay
<1>5. ASSUME NEW t \in Requests, NEW u \in Requests,
             Op(t) = "bind", Op(u) = "bind", NextBefore(t, u)
      PROVE  /\ pc'[t] = "writing" /\ pc'[u] = "writing" => number'[t] < number'[u]
             /\ \A j \in Int : AtNext(u, j) => \E i \in Int : i < j /\ AtNext(t, i)
  <2>1. Before(t, u) /\ t # s /\ u # s
    BY <1>t, <1>2, <1>5, OrderFacts
  <2>. QED  BY <1>1, <1>2, <1>5, <2>1 DEF Orderly, BindsInOrder
<1>. QED  BY <1>3, <1>4, <1>5, NextParts DEF Orderly

LEMMA DeliversKeeps ==
  ASSUME IInv, Orderly, call' = call, NEW s \in Requests, SameBut({s}), Delivers(s)
  PROVE  Orderly'
<1>t. TypeOK
  BY DEF IInv
<1>1. PICK n \in Int : /\ \A t \in Requests, i \in Int : AtNext(t, i) <=> At(t, i) \/ (t = s /\ i = n)
                       /\ \A t \in Requests, i \in Int : At(t, i) => i < n
  BY DEF Delivers, StatusJoins
<1>2. /\ pc[s] = "writing" /\ pc'[s] = "waiting" /\ answer' = answer /\ pending' = pending
      /\ \A t \in Requests : pc[t] = "writing" => ~(number[t] < number[s])
      /\ \A t \in Requests \ {s} : pc'[t] = pc[t] /\ number'[t] = number[t]
  BY DEF Delivers, SameBut
<1>3. answer[s] = None /\ s \in ToSet(pending) /\ \A i \in Int : ~At(s, i)
  BY <1>2 DEF Orderly, OwnStatus
<1>4. ASSUME NEW t \in Requests
      PROVE  /\ answer'[t] \in {None, t}
             /\ answer'[t] # None => pc'[t] \in {"waiting", "done"} /\ t \notin ToSet(pending')
             /\ pc'[t] \in {"writing", "backoff"} => t \in ToSet(pending')
             /\ \A i \in Int : AtNext(t, i) =>
                  /\ pc'[t] = "waiting" /\ t \in ToSet(pending')
                  /\ \A j \in Int : AtNext(t, j) => i = j
  <2>1. CASE t = s
    BY <1>1, <1>2, <1>3, <2>1
  <2>2. CASE t # s
    BY <1>1, <1>2, <2>2 DEF Orderly, OwnStatus
  <2>. QED  BY <2>1, <2>2
<1>5. ASSUME NEW t \in ToSet(pending'), Op(t) = "bind"
      PROVE  pc'[t] = "writing" \/ \E i \in Int : AtNext(t, i)
  <2>1. CASE t = s
    BY <1>1, <2>1
  <2>2. CASE t # s
    <3>1. t \in Requests
      BY <1>t, <1>2, OrderFacts
    <3>. QED  BY <1>1, <1>2, <1>5, <2>2, <3>1 DEF Orderly, BindsUnderWay
  <2>. QED  BY <2>1, <2>2
<1>6. ASSUME NEW t \in Requests, NEW u \in Requests,
             Op(t) = "bind", Op(u) = "bind", NextBefore(t, u)
      PROVE  /\ pc'[t] = "writing" /\ pc'[u] = "writing" => number'[t] < number'[u]
             /\ \A j \in Int : AtNext(u, j) => \E i \in Int : i < j /\ AtNext(t, i)
  <2>1. Before(t, u) /\ t \in ToSet(pending)
    BY <1>t, <1>2, <1>6, OrderFacts
  <2>2. pc[t] = "writing" /\ pc[u] = "writing" => number[t] < number[u]
    BY <1>6, <2>1 DEF Orderly, BindsInOrder
  <2>3. ASSUME NEW j \in Int, At(u, j) PROVE \E i \in Int : i < j /\ AtNext(t, i)
    BY <1>1, <1>6, <2>1, <2>3 DEF Orderly, BindsInOrder
  <2>4. ASSUME u = s PROVE \E i \in Int : i < n /\ AtNext(t, i)
    <3>1. pc[t] # "writing"
      BY <1>2, <2>2, <2>4
    <3>2. PICK i \in Int : At(t, i)
      BY <1>6, <2>1, <3>1 DEF Orderly, BindsUnderWay
    <3>. QED  BY <1>1, <3>2
  <2>5. \A j \in Int : AtNext(u, j) => \E i \in Int : i < j /\ AtNext(t, i)
    BY <1>1, <2>3, <2>4
  <2>6. pc'[t] = "writing" /\ pc'[u] = "writing" => number'[t] < number'[u]
    BY <1>2, <2>2
  <2>. QED  BY <2>5, <2>6
<1>. QED  BY <1>4, <1>5, <1>6, NextParts DEF Orderly

LEMMA TakesKeeps ==
  ASSUME IInv, Orderly, call' = call, NEW s \in Requests, Takes(s)
  PROVE  Orderly'
<1>t. TypeOK /\ pending \in Seq(Requests) /\ IsInjective(pending) /\ s \in Senders
      /\ answer \in [Senders -> Senders \cup {None}] /\ Requests \subseteq Senders
  BY DEF IInv, TypeOK, ReceiveTypes, Requests
<1>1. PICK m \in DOMAIN pending : pending[m] = s /\ pending' = RemoveAt(pending, m)
  BY DEF Takes
<1>2. ToSet(pending') = ToSet(pending) \ {s}
  BY <1>t, <1>1, RemovedOnce
<1>3. /\ At(s, 1) /\ answer'[s] = s /\ \A t \in Requests \ {s} : answer'[t] = answer[t]
      /\ \A t \in Requests : pc'[t] = pc[t] /\ number'[t] = number[t]
      /\ \A t \in Requests, i \in Int : AtNext(t, i) <=> i >= 1 /\ At(t, i + 1)
  BY <1>t DEF Takes, SameBut, AirMoves
<1>4. pc[s] = "waiting" /\ \A i \in Int : At(s, i) => i = 1
  BY <1>3 DEF Orderly, OwnStatus
<1>5. \A i \in Int : ~AtNext(s, i)
  <2> SUFFICES ASSUME NEW i \in Int, AtNext(s, i) PROVE FALSE
    OBVIOUS
  <2>1. i >= 1 /\ At(s, i + 1) /\ i + 1 \in Int
    BY <1>3
  <2>2. i + 1 = 1
    BY <1>4, <2>1
  <2>. QED  BY <2>1, <2>2
<1>6. \A t \in Requests \ {s}, i \in Int : At(t, i) => i >= 2 /\ i - 1 \in Int /\ AtNext(t, i - 1)
  <2> SUFFICES ASSUME NEW t \in Requests \ {s}, NEW i \in Int, At(t, i)
               PROVE  i >= 2 /\ i - 1 \in Int /\ AtNext(t, i - 1)
    OBVIOUS
  <2>1. i >= 1 /\ i # 1
    BY <1>t, <1>3, OrderFacts
  <2>2. i - 1 \in Int /\ i - 1 >= 1 /\ (i - 1) + 1 = i
    BY <2>1
  <2>. QED  BY <1>3, <2>2
<1>7. \A t, u : NextBefore(t, u) => Before(t, u) /\ t # s /\ u # s
  <2>1. DOMAIN pending = 1..Len(pending) /\ Len(pending) \in Nat
    BY <1>t
  <2>2. /\ DOMAIN pending' = 1..Len(pending) - 1
        /\ \A j \in 1..Len(pending) - 1 : pending'[j] = IF j < m THEN pending[j] ELSE pending[j + 1]
    BY <1>t, <1>1, Removed
  <2> SUFFICES ASSUME NEW a \in DOMAIN pending', NEW b \in DOMAIN pending', a < b
               PROVE  Before(pending'[a], pending'[b]) /\ pending'[a] # s /\ pending'[b] # s
    BY DEF NextBefore
  <2>3. pending'[a] # s /\ pending'[b] # s
    <3>1. pending'[a] \in ToSet(pending') /\ pending'[b] \in ToSet(pending')
      BY DEF ToSet
    <3>. QED  BY <1>2, <3>1
  <2> DEFINE x == IF a < m THEN a ELSE a + 1
             y == IF b < m THEN b ELSE b + 1
  <2>4. /\ x \in DOMAIN pending /\ y \in DOMAIN pending /\ x < y
        /\ pending'[a] = pending[x] /\ pending'[b] = pending[y]
    BY <2>1, <2>2
  <2>. QED  BY <2>3, <2>4 DEF Before
<1>8. ASSUME NEW t \in Requests
      PROVE  /\ answer'[t] \in {None, t}
             /\ answer'[t] # None => pc'[t] \in {"waiting", "done"} /\ t \notin ToSet(pending')
             /\ pc'[t] \in {"writing", "backoff"} => t \in ToSet(pending')
             /\ \A i \in Int : AtNext(t, i) =>
                  /\ pc'[t] = "waiting" /\ t \in ToSet(pending')
                  /\ \A j \in Int : AtNext(t, j) => i = j
  <2>1. CASE t = s
    BY <1>2, <1>3, <1>4, <1>5, <2>1
  <2>2. CASE t # s
    <3>1. ASSUME NEW i \in Int, AtNext(t, i)
          PROVE  /\ pc'[t] = "waiting" /\ t \in ToSet(pending')
                 /\ \A j \in Int : AtNext(t, j) => i = j
      <4>1. At(t, i + 1) /\ i + 1 \in Int
        BY <1>3, <3>1
      <4>2. ASSUME NEW j \in Int, AtNext(t, j) PROVE i = j
        <5>1. At(t, j + 1) /\ j + 1 \in Int
          BY <1>3, <4>2
        <5>2. i + 1 = j + 1
          BY <4>1, <5>1 DEF Orderly, OwnStatus
        <5>. QED  BY <5>2
      <4>. QED  BY <1>2, <1>3, <2>2, <4>1, <4>2 DEF Orderly, OwnStatus
    <3>. QED  BY <1>2, <1>3, <2>2, <3>1 DEF Orderly, OwnStatus
  <2>. QED  BY <2>1, <2>2
<1>9. ASSUME NEW t \in ToSet(pending'), Op(t) = "bind"
      PROVE  pc'[t] = "writing" \/ \E i \in Int : AtNext(t, i)
  <2>1. t \in Requests \ {s} /\ t \in ToSet(pending)
    BY <1>t, <1>2, OrderFacts
  <2>2. ASSUME NEW i \in Int, At(t, i) PROVE \E j \in Int : AtNext(t, j)
    BY <1>6, <2>1, <2>2
  <2>. QED  BY <1>3, <1>9, <2>1, <2>2 DEF Orderly, BindsUnderWay
<1>10. ASSUME NEW t \in Requests, NEW u \in Requests,
              Op(t) = "bind", Op(u) = "bind", NextBefore(t, u)
       PROVE  /\ pc'[t] = "writing" /\ pc'[u] = "writing" => number'[t] < number'[u]
              /\ \A j \in Int : AtNext(u, j) => \E i \in Int : i < j /\ AtNext(t, i)
  <2>1. Before(t, u) /\ t # s
    BY <1>7, <1>10
  <2>2. ASSUME NEW j \in Int, AtNext(u, j) PROVE \E i \in Int : i < j /\ AtNext(t, i)
    <3>1. At(u, j + 1) /\ j + 1 \in Int
      BY <1>3, <2>2
    <3>2. PICK i \in Int : i < j + 1 /\ At(t, i)
      BY <1>10, <2>1, <3>1 DEF Orderly, BindsInOrder
    <3>3. i - 1 \in Int /\ i - 1 < j /\ AtNext(t, i - 1)
      BY <1>6, <2>1, <3>2
    <3>. QED  BY <3>3
  <2>. QED  BY <1>3, <1>10, <2>1, <2>2 DEF Orderly, BindsInOrder
<1>. QED  BY <1>8, <1>9, <1>10, NextParts DEF Orderly

LEMMA RequestStepKeeps ==
  ASSUME IInv, Prepared, Orderly, call' = call, RequestStep
  PROVE  Orderly'
<1>1. TypeOK
  BY DEF IInv
<1>. QED  BY <1>1, QuietKeeps, RegistersKeeps, FinishesKeeps, PausesKeeps, DeliversKeeps, TakesKeeps
          DEF RequestStep

\* What disturbed the requests once does so for good, but for a writer on a link that
\* is not up; its write, when it ends, is lost.
LEMMA CalmStep == IInv /\ Prepared /\ [Next]_vars /\ Undisturbed' => Undisturbed
<1> SUFFICES ASSUME IInv, Prepared, [Next]_vars, Undisturbed' PROVE Undisturbed
  OBVIOUS
<1>1. call' = call
  BY CallKept
<1>2. \A s, t \in Senders : Op(s) = "appkey" /\ Op(t) = "appkey" => s = t
  BY <1>1 DEF Undisturbed, Op
<1>3. ~lossy' /\ ~unanswered' /\ ~late' /\ \A s \in Senders : pc'[s] = "writing" => link'[on'[s]] = "up"
  BY DEF Undisturbed
<1> SUFFICES /\ ~lossy /\ ~unanswered /\ ~late
             /\ \A s \in Senders : pc[s] = "writing" => link[on[s]] = "up"
  BY <1>2 DEF Undisturbed
<1>4. \A s \in Senders : pc[s] = "writing" => on[s] \in Sessions /\ link[on[s]] # "none"
  BY DEF IInv, TypeOK, SendTypes, SenderStage, Prepared, WriterOpened
<1>5. CASE Elsewhere
  <2>1. /\ ~lossy /\ ~unanswered /\ ~late /\ UNCHANGED <<pc, on>>
        /\ \A c \in Sessions : link[c] # "none" => (link'[c] = "up" => link[c] = "up")
    BY <1>3, <1>5 DEF Elsewhere, SendersRest, ClientRests
  <2>. QED  BY <1>3, <1>4, <2>1
<1>6. CASE _process_notify
  <2>1. /\ UNCHANGED <<link, late, on, unanswered>> /\ (lossy => lossy')
        /\ \A s \in Senders : pc[s] = "writing" => pc'[s] = "writing"
    BY <1>6, NoticeFacts
  <2>. QED  BY <1>3, <2>1
\* A sender that steps is not writing, or its link is up.
<1>s. ASSUME NEW s \in Senders, Still(s), link' = link, pc[s] # "writing" \/ link[on[s]] = "up"
      PROVE  \A t \in Senders : pc[t] = "writing" => link[on[t]] = "up"
  BY <1>3, <1>s DEF Still
<1>7. ASSUME NEW s \in Senders, Send(s)
      PROVE  /\ ~lossy /\ ~unanswered /\ ~late
             /\ \A t \in Senders : pc[t] = "writing" => link[on[t]] = "up"
  <2>1. Still(s) /\ pc[s] \in {"idle", "asked"} /\ UNCHANGED <<link, lossy, late, unanswered>>
    BY <1>7, SendFacts
  <2>. QED  BY <1>3, <1>s, <2>1
<1>8. ASSUME NEW s \in Senders, Written(s) \/ WriteFails(s)
      PROVE  /\ ~lossy /\ ~unanswered /\ ~late
             /\ \A t \in Senders : pc[t] = "writing" => link[on[t]] = "up"
  <2>1. Still(s) /\ (unanswered => unanswered')
    BY <1>8, WrittenFacts, FailsFacts
  <2>2. UNCHANGED <<link, late, lossy>> /\ link[on[s]] = "up"
    BY <1>3, <1>8, WriteEnds
  <2>. QED  BY <1>3, <1>s, <2>1, <2>2
<1>9. ASSUME NEW s \in Senders, SendAgain(s)
      PROVE  /\ ~lossy /\ ~unanswered /\ ~late
             /\ \A t \in Senders : pc[t] = "writing" => link[on[t]] = "up"
  <2>1. /\ Still(s) /\ (unanswered => unanswered') /\ pc[s] = "backoff"
        /\ UNCHANGED <<link, lossy, late>>
    BY <1>9, AgainFacts
  <2>. QED  BY <1>3, <1>s, <2>1
<1>10. ASSUME NEW s \in Senders, Resumed(s) \/ TimedOut(s)
       PROVE  /\ ~lossy /\ ~unanswered /\ ~late
              /\ \A t \in Senders : pc[t] = "writing" => link[on[t]] = "up"
  <2>1. /\ Still(s) /\ (unanswered => unanswered') /\ pc[s] = "waiting"
        /\ UNCHANGED <<link, lossy, late>>
    BY <1>10, LeaveFacts, EndsFacts
  <2>. QED  BY <1>3, <1>s, <2>1
<1>. QED  BY <1>5, <1>6, <1>7, <1>8, <1>9, <1>10, ElsewhereSteps DEF SendersOr

\* Until then writers write to the current client.
LEMMA WritersStep ==
  IInv /\ Prepared /\ [Next]_vars /\ Undisturbed' /\ WritersHere => WritersHere'
<1> SUFFICES ASSUME IInv, Prepared, [Next]_vars, Undisturbed', WritersHere,
                    NEW t \in Senders, pc'[t] = "writing"
             PROVE  on'[t] = client'
  BY DEF WritersHere
<1>3. ~late' /\ link'[on'[t]] = "up"
  BY DEF Undisturbed
<1>4. \A s \in Senders : pc[s] = "writing" => on[s] # 0 /\ on[s] = client
  BY DEF IInv, SenderStage, WritersHere
<1>5. CASE Elsewhere
  <2>1. UNCHANGED <<pc, on>> /\ (client' = client \/ client = 0 \/ link'[client] # "up")
    BY <1>3, <1>5 DEF Elsewhere, SendersRest, ClientRests
  <2>. QED  BY <1>3, <1>4, <2>1
<1>6. CASE _process_notify
  <2>1. UNCHANGED <<client, on>> /\ pc[t] = "writing"
    BY <1>6, NoticeFacts
  <2>. QED  BY <1>4, <2>1
<1>s. ASSUME NEW s \in Senders, Still(s), client' = client, pc'[s] = "writing" => on'[s] = client
      PROVE  on'[t] = client'
  BY <1>4, <1>s DEF Still
<1>7. ASSUME NEW s \in Senders, Send(s) PROVE on'[t] = client'
  <2>1. Still(s) /\ client' = client /\ (pc'[s] = "writing" => on'[s] = client)
    BY <1>7, SendFacts
  <2>. QED  BY <1>s, <2>1
<1>8. ASSUME NEW s \in Senders, Written(s) \/ WriteFails(s) PROVE on'[t] = client'
  <2>1. Still(s) /\ pc'[s] # "writing"
    BY <1>8, WrittenFacts, FailsFacts
  <2>2. client' = client
    BY <1>8, WriteEnds
  <2>. QED  BY <1>s, <2>1, <2>2
<1>9. ASSUME NEW s \in Senders, SendAgain(s) PROVE on'[t] = client'
  <2>1. Still(s) /\ client' = client /\ (pc'[s] = "writing" => on'[s] = client)
    BY <1>9, AgainFacts, EndsFacts
  <2>. QED  BY <1>s, <2>1
<1>10. ASSUME NEW s \in Senders, Resumed(s) \/ TimedOut(s) PROVE on'[t] = client'
  <2>1. Still(s) /\ client' = client /\ pc'[s] = "done"
    BY <1>10, LeaveFacts, EndsFacts
  <2>. QED  BY <1>s, <2>1
<1>. QED  BY <1>5, <1>6, <1>7, <1>8, <1>9, <1>10, ElsewhereSteps DEF SendersOr

\* The status of a registered request, read from the air, resolves the oldest
\* registration of its opcode.
LEMMA StatusResolves ==
  ASSUME TypeOK, _process_notify, ~lossy', NEW op, NEW s, NEW v,
         air[1] = StatusPDU(op, s, v), Matched(op) # 0
  PROVE  /\ answer' = [answer EXCEPT ![pending[Matched(op)]] = s]
         /\ pending' = RemoveAt(pending, Matched(op)) /\ pc' = pc
<1>1. Head(air) = air[1]
  BY TailTyped DEF _process_notify, TypeOK, NodeTypes
<1> DEFINE x == parse_proxy_pdu(air[1])
           t == x.body.payload
           p == t.body.payload
<1>2. IF ~keys \/ ~decrypt_network_pdu(x)
      THEN lossy' = (lossy \/ ~keys)
      ELSE IF t.seg THEN TRUE
      ELSE decrypt_access_payload(x.seq, t) => _dispatch_access_payload_unlocked(p)
  BY <1>1 DEF _process_notify
<1>3. /\ decrypt_network_pdu(x) /\ ~t.seg /\ decrypt_access_payload(x.seq, t)
      /\ p = [op |-> op, of |-> s, tid |-> 0, val |-> v]
  <2>1. x = parse_proxy_pdu(StatusPDU(op, s, v)) /\ t = x.body.payload
    OBVIOUS
  <2>. QED  BY <2>1, StatusRead
<1>4. p.op = op /\ p.of = s
  BY <1>3
<1> HIDE DEF x, t, p
<1>5. _dispatch_access_payload_unlocked(p)
  <2>1. keys
    <3>1. ~keys => lossy' = TRUE
      BY <1>2
    <3>. QED  BY <3>1
  <2>. QED  BY <1>2, <1>3, <2>1
<1>. QED  BY <1>4, <1>5 DEF _dispatch_access_payload_unlocked, parse_access_opcode

\* A registered opcode is matched.
LEMMA MatchedSome ==
  ASSUME TypeOK, NEW k \in DOMAIN pending
  PROVE  Matched(Status[Op(pending[k])]) # 0
<1> DEFINE op == Status[Op(pending[k])]
           match == {i \in DOMAIN pending : Status[Op(pending[i])] = op}
<1>1. DOMAIN pending = 1..Len(pending) /\ Len(pending) \in Nat
  BY DEF TypeOK, ReceiveTypes
<1>2. match \subseteq Nat \ {0} /\ match # {}
  BY <1>1
<1>3. \E i \in match : \A j \in match : i <= j
  BY <1>2, LeastExists
<1>4. Matched(op) = CHOOSE i \in match : \A j \in match : i <= j
  BY <1>2 DEF Matched
<1>5. Matched(op) \in match
  BY <1>3, <1>4, Zenon
<1>. QED  BY <1>2, <1>5

\* A processed notification leaves the requests alone, or it is the status of one, whose
\* registration it resolves: of an AppKey Add the only one, of a bind the oldest.
LEMMA NoticeRequests ==
  ASSUME IInv, Prepared, Undisturbed, Orderly, _process_notify, ~lossy'
  PROVE  RequestStep
<1>t. /\ TypeOK /\ pending \in Seq(Requests) /\ Requests \subseteq Senders
      /\ DOMAIN pending = 1..Len(pending) /\ Len(pending) \in Nat
  <2>1. TypeOK /\ pending \in Seq(Requests) /\ Requests \subseteq Senders
    BY DEF IInv, TypeOK, ReceiveTypes, Requests
  <2>. QED  BY <2>1
<1>1. /\ 1 \in DOMAIN air /\ air' = Tail(air) /\ number' = number
      /\ UNCHANGED <<rxVars, pc>> \/ StatusTaken \/ ShownChanges \/ SegmentTaken
  BY Notified DEF IInv
<1>2. AirMoves(1)
  <2>1. /\ \A i \in DOMAIN air' : i + 1 \in DOMAIN air /\ air'[i] = air[i + 1]
        /\ DOMAIN air = 1..Len(air) /\ Len(air) \in Nat
        /\ DOMAIN air' = 1..Len(air) - 1
    BY <1>1, TailTyped DEF _process_notify, TypeOK, NodeTypes, IInv
  <2> SUFFICES ASSUME NEW s \in Requests, NEW i \in Int
               PROVE  AtNext(s, i) <=> i >= 1 /\ At(s, i + 1)
    BY DEF AirMoves
  <2>2. i \in DOMAIN air' <=> i >= 1 /\ i + 1 \in DOMAIN air
    BY <2>1
  <2>. QED  BY <2>1, <2>2 DEF AtNext, At
<1>3. \A t \in Requests : pc'[t] = pc[t]
  <2>1. \A t \in Requests : t \in Senders /\ Op(t) # "vendor"
    BY DEF Requests, Awaits
  <2>. QED  BY <2>1, NoticeFacts
<1>4. SameBut({})
  BY <1>1, <1>3 DEF SameBut
<1>5. CASE \A t \in Requests : ~At(t, 1)
  <2>1. ASSUME StatusTaken PROVE FALSE
    <3>1. PICK s \in Senders, op \in {"appkey_status", "bind_status"} :
             \E v : air[1] = StatusPDU(op, s, v)
      BY <2>1 DEF StatusTaken
    <3>2. PICK v : air[1] = StatusPDU(op, s, v)
      BY <3>1
    <3>3. KnownPDU(air[1])
      BY <1>1 DEF IInv, AirKnown
    <3>4. v \in Int
      <4>1. ASSUME NEW op2 \in StatusOps, NEW s2 \in Senders, NEW v2 \in Int,
                   air[1] = StatusPDU(op2, s2, v2)
            PROVE  v \in Int
        <5>1. StatusPDU(op, s, v) = StatusPDU(op2, s2, v2)
          BY <3>2, <4>1
        <5>2. v = v2
          BY <5>1, StatusesDiffer
        <5>. QED  BY <5>2
      <4>2. ASSUME NEW q \in SeqNumbers, NEW o \in {0, 1}, air[1] = CompositionSegment(q, o)
            PROVE  FALSE
        BY <3>2, <4>2, SegmentsDiffer
      <4>3. ASSUME NEW net \in {"ours", "other"}, NEW frame \in Frames,
                   air[1] = VendorPDU(net, frame)
            PROVE  FALSE
        <5>1. StatusPDU(op, s, v) = VendorPDU(net, frame)
          BY <3>2, <4>3
        <5>2. op = "vendor_data"
          BY <5>1, StatusesDiffer
        <5>. QED  BY <5>2
      <4>. QED  BY <3>3, <4>1, <4>2, <4>3 DEF KnownPDU
    <3>5. s \in Requests /\ air[1] = StatusOf(s)
      BY <1>1, <3>2, <3>4 DEF Prepared, StatusesKnown
    <3>. QED  BY <1>1, <1>5, <3>5 DEF At
  <2>2. UNCHANGED <<pending, answer>>
    BY <1>1, <2>1 DEF ShownChanges, SegmentTaken, rxVars
  <2>. QED  BY <1>2, <1>4, <1>5, <2>2 DEF Quiet, RequestStep
<1>6. ASSUME NEW t \in Requests, At(t, 1) PROVE Takes(t)
  <2> DEFINE op == Status[Op(t)]
  <2>1. air[1] = StatusPDU(op, t, 0) /\ t \in ToSet(pending) /\ t \in Senders
    BY <1>t, <1>6 DEF At, StatusOf, Orderly, OwnStatus
  <2>2. PICK k \in DOMAIN pending : pending[k] = t
    BY <2>1 DEF ToSet
  <2> DEFINE m == Matched(op)
  <2> HIDE DEF m
  <2>3. m \in DOMAIN pending /\ Status[Op(pending[m])] = op /\ m <= k /\ m # 0
    <3>1. Matched(op) # 0
      BY <1>t, <2>2, MatchedSome
    <3>2. \/ Matched(op) = 0
          \/ /\ Matched(op) \in DOMAIN pending
             /\ Status[Op(pending[Matched(op)])] = op
             /\ \A j \in DOMAIN pending : Status[Op(pending[j])] = op => Matched(op) <= j
      BY <1>t, MatchedFacts
    <3>. QED  BY <2>2, <3>1, <3>2 DEF m
  <2>4. pending[m] = t
    <3> DEFINE r == pending[m]
    <3>1. r \in Requests /\ Status[Op(r)] = Status[Op(t)]
      BY <1>t, <2>3
    <3> HIDE DEF r
    <3>2. Op(r) = Op(t) /\ Op(t) \in {"appkey", "bind"}
      <4>1. call \in Programs
        BY <1>t DEF TypeOK, ConnTypes
      <4>2. /\ Op(r) \in {"appkey", "bind"} /\ (Status[Op(r)] = "bind_status" <=> Op(r) = "bind")
            /\ Op(t) \in {"appkey", "bind"} /\ (Status[Op(t)] = "bind_status" <=> Op(t) = "bind")
        BY <3>1, <4>1, RequestFacts
      <4>. QED  BY <3>1, <4>2
    <3>3. CASE Op(t) = "appkey"
      BY <1>t, <3>1, <3>2, <3>3 DEF Undisturbed, r
    <3>4. CASE Op(t) = "bind" /\ m # k
      <4>1. m < k
        BY <1>t, <2>3, <3>4
      <4>2. Before(r, t)
        BY <2>2, <2>3, <4>1 DEF Before, r
      <4>3. PICK i \in Int : i < 1 /\ At(r, i)
        BY <1>6, <3>1, <3>2, <3>4, <4>2 DEF Orderly, BindsInOrder
      <4>. QED  BY <1>t, <4>3, OrderFacts
    <3>. QED  BY <2>2, <3>2, <3>3, <3>4 DEF r
  <2>5. answer' = [answer EXCEPT ![pending[m]] = t] /\ pending' = RemoveAt(pending, m)
    <3>1. Matched(op) # 0
      BY <2>3 DEF m
    <3>. QED  BY <1>t, <2>1, <3>1, StatusResolves DEF m
  <2>. QED  BY <1>2, <1>4, <1>6, <2>3, <2>4, <2>5 DEF Takes
<1>. QED  BY <1>5, <1>6 DEF RequestStep

\* The steps of a sender.
LEMMA SenderRequests ==
  ASSUME IInv, Prepared, Undisturbed, WritersHere, Orderly, ~lossy', ~unanswered',
         NEW s \in Senders,
         Send(s) \/ Written(s) \/ WriteFails(s) \/ SendAgain(s) \/ Resumed(s) \/ TimedOut(s)
  PROVE  RequestStep
<1>t. TypeOK /\ SenderStage /\ Requests \subseteq Senders
  BY DEF IInv, Requests
<1>r. s \in Requests <=> Awaits(s)
  BY DEF Requests
<1>k. ToSet(pending) \subseteq Requests
  BY <1>t, OrderFacts
\* No sender but s moves, and only the registration of s.
<1>q. ASSUME s \notin Requests, Still(s), UNCHANGED <<pending, answer>>, AirMoves(0)
      PROVE  RequestStep
  BY <1>t, <1>q DEF Still, SameBut, Quiet, RequestStep
<1>b. Still(s) => SameBut({s})
  BY <1>t DEF Still, SameBut
<1>a. UNCHANGED air => AirMoves(0)
  BY <1>t, AirKept
\* A request that ends is answered, and no longer registered.
<1>e. ASSUME s \in Requests, Ends(s), answer' = answer PROVE pc[s] \in {"waiting", "done"} /\ UNCHANGED pending
             /\ s \notin ToSet(pending)
  <2>1. answer[s] # None
    BY <1>r, <1>e, EndsFacts
  <2>2. pc[s] \in {"waiting", "done"} /\ s \notin ToSet(pending)
    BY <1>e, <2>1 DEF Orderly, OwnStatus
  <2>. QED  BY <1>e, <2>2, EndsFacts
<1>1. CASE Send(s)
  <2>1. /\ Still(s) /\ UNCHANGED <<answer, air>> /\ (Op(s) # "vendor" => pc[s] = "idle")
        /\ \/ /\ pc'[s] \in {"idle", "done"} /\ (Awaits(s) => pc'[s] = "done")
              /\ UNCHANGED pending
           \/ /\ pc'[s] = "writing" /\ number'[s] = seq
              /\ pending' = IF Awaits(s) THEN Append(pending, s) ELSE pending
    BY <1>1, SendFacts
  <2>2. CASE s \notin Requests
    BY <1>q, <1>r, <1>a, <2>1, <2>2
  <2>3. CASE s \in Requests
    <3>1. pc[s] = "idle" /\ s \notin ToSet(pending)
      BY <1>t, <1>r, <2>1, <2>3 DEF Awaits, SenderStage
    <3>. QED  BY <1>a, <1>b, <1>r, <2>1, <2>3, <3>1 DEF Registers, Finishes, RequestStep
  <2>. QED  BY <2>2, <2>3
<1>2. CASE Written(s) \/ WriteFails(s)
  <2>1. /\ pc[s] = "writing" /\ ~WritesBefore(on[s], number[s]) /\ answer' = answer
        /\ SenderAnswered(s)
    BY <1>2, WriteEnds
  <2>2. Still(s)
    BY <1>2, WrittenFacts, FailsFacts
  <2>3. CASE s \notin Requests
    <3>1. pending' = pending
      <4>1. Ends(s) => pending' = pending
        BY <1>k, <2>3, EndsFacts
      <4>. QED  BY <1>2, <1>r, <2>3, <4>1, WrittenFacts, FailsFacts
    <3>2. AirMoves(0)
      BY <1>t, <1>r, <2>1, <2>3, OthersAnswered
    <3>. QED  BY <1>q, <2>1, <2>2, <2>3, <3>1, <3>2
  <2>4. CASE s \in Requests
    <3>1. ~WriteFails(s)
      BY <1>r, <1>e, <2>1, <2>4, FailsFacts
    <3>2. /\ pc'[s] = IF written[s] + 1 < Segments(s) THEN "backoff" ELSE "waiting"
          /\ UNCHANGED pending
      BY <1>2, <1>r, <2>4, <3>1, WrittenFacts
    <3>3. CASE Op(s) # "bind" /\ air' = air
      <4>1. Op(s) = "appkey"
        BY <1>r, <2>4, <3>3 DEF Awaits
      <4>. QED  BY <1>a, <1>b, <2>1, <2>2, <2>4, <3>2, <3>3, <4>1 DEF Pauses, RequestStep
    <3>4. CASE written[s] + 1 = Segments(s) /\ air' = Append(air, StatusOf(s))
      <4>1. StatusJoins(s)
        BY <1>t, <2>4, <3>4, StatusJoined
      <4>2. pc'[s] = "waiting"
        <5>1. Segments(s) \in Nat
          BY <1>t, CallFacts DEF TypeOK, ConnTypes
        <5>. QED  BY <3>2, <3>4, <5>1
      <4>3. \A t \in Requests : pc[t] = "writing" => ~(number[t] < number[s])
        BY <1>t, <2>1 DEF WritesBefore, WritersHere
      <4>. QED  BY <1>b, <2>1, <2>2, <2>4, <3>2, <4>1, <4>2, <4>3 DEF Delivers, RequestStep
    <3>. QED  BY <1>r, <2>1, <2>4, <3>3, <3>4 DEF SenderAnswered
  <2>. QED  BY <2>3, <2>4
<1>3. CASE SendAgain(s)
  <2>1. /\ Still(s) /\ pc[s] = "backoff" /\ UNCHANGED <<answer, air>>
        /\ \/ Ends(s)
           \/ pc'[s] = "writing" /\ UNCHANGED pending
    BY <1>3, AgainFacts
  <2>2. CASE s \notin Requests
    <3>1. pending' = pending
      BY <1>k, <2>1, <2>2, EndsFacts
    <3>. QED  BY <1>q, <1>a, <2>1, <2>2, <3>1
  <2>3. CASE s \in Requests
    <3>1. Op(s) = "appkey"
      BY <1>r, <2>1, <2>3 DEF Awaits, Prepared, NumberTaken
    <3>2. ~Ends(s)
      BY <1>e, <2>1, <2>3
    <3>. QED  BY <1>a, <1>b, <2>1, <2>3, <3>1, <3>2 DEF Pauses, RequestStep
  <2>. QED  BY <2>2, <2>3
<1>4. CASE Resumed(s) \/ TimedOut(s)
  <2>1. Ends(s) /\ Still(s) /\ pc'[s] = "done" /\ UNCHANGED <<answer, air>>
    BY <1>4, LeaveFacts, EndsFacts
  <2>2. CASE s \notin Requests
    <3>1. pending' = pending
      BY <1>k, <2>1, <2>2, EndsFacts
    <3>. QED  BY <1>q, <1>a, <2>1, <2>2, <3>1
  <2>3. CASE s \in Requests
    BY <1>a, <1>b, <1>e, <2>1, <2>3 DEF Finishes, RequestStep
  <2>. QED  BY <2>2, <2>3
<1>. QED  BY <1>1, <1>2, <1>3, <1>4

\* While nothing disturbs the requests every step is one of these.
LEMMA RequestSteps ==
  IInv /\ Prepared /\ [Next]_vars /\ Undisturbed /\ Undisturbed' /\ InOrder => RequestStep
<1> SUFFICES ASSUME IInv, Prepared, [Next]_vars, Undisturbed, Undisturbed', InOrder
             PROVE  RequestStep
  OBVIOUS
<1>1. ~lossy' /\ ~unanswered' /\ WritersHere /\ Orderly
  BY DEF Undisturbed, InOrder, Orderly
<1>2. CASE Elsewhere
  BY <1>1, <1>2 DEF Elsewhere, SendersRest, StatusesRest, SameBut, Quiet, RequestStep
<1>3. CASE _process_notify
  BY <1>1, <1>3, NoticeRequests
<1>4. ASSUME NEW s \in Senders,
             Send(s) \/ Written(s) \/ WriteFails(s) \/ SendAgain(s) \/ Resumed(s) \/ TimedOut(s)
      PROVE  RequestStep
  BY <1>1, <1>4, SenderRequests
<1>. QED  BY <1>2, <1>3, <1>4, ElsewhereSteps DEF SendersOr

LEMMA InitAnswering == Init => Answering
<1> SUFFICES ASSUME Init PROVE Answering
  OBVIOUS
<1>1. /\ pending = <<>> /\ air = <<>> /\ DOMAIN air = {} /\ ToSet(pending) = {}
      /\ \A s \in Senders : pc[s] = "idle" /\ answer[s] = None
      /\ node.parts = {}
  BY EmptyTyped DEF Init, ToSet
<1>2. \A s, t : ~Before(s, t)
  BY <1>1, EmptyTyped DEF Before
<1>3. \A s, i : ~At(s, i)
  BY <1>1 DEF At
<1>4. Prepared
  BY <1>1 DEF Prepared, WriterOpened, NumberTaken, PartsWritten, StatusesKnown, OthersWait, Requests
<1>5. InOrder
  BY <1>1, <1>2, <1>3 DEF InOrder, WritersHere, OwnStatus, BindsUnderWay, BindsInOrder, Requests
<1>. QED  BY <1>4, <1>5, InitInvariant DEF Answering

LEMMA NextAnswering == Answering /\ [Next]_vars => Answering'
<1> SUFFICES ASSUME Answering, [Next]_vars PROVE Answering'
  OBVIOUS
<1>1. IInv /\ Prepared
  BY DEF Answering
<1>2. IInv' /\ Prepared' /\ call' = call
  BY <1>1, NextInvariant, PreparedStep, CallKept
<1>3. ASSUME Undisturbed' PROVE InOrder'
  <2>1. Undisturbed /\ InOrder
    BY <1>1, <1>3, CalmStep DEF Answering
  <2>2. RequestStep /\ Orderly
    BY <1>1, <1>3, <2>1, RequestSteps DEF InOrder, Orderly
  <2>3. Orderly'
    BY <1>1, <1>2, <2>2, RequestStepKeeps
  <2>4. WritersHere'
    BY <1>1, <1>3, <2>1, WritersStep DEF InOrder
  <2>. QED  BY <2>3, <2>4 DEF InOrder, Orderly
<1>. QED  BY <1>2, <1>3 DEF Answering

\* While nothing disturbs the requests, a status resolves the future of the request it
\* answers, although _dispatch_access_payload_unlocked looks at the opcode only.
THEOREM OwnAnswers == Spec => []AnsweredInOrder
<1>1. Answering => AnsweredInOrder
  <2> SUFFICES ASSUME Answering, Undisturbed, NEW s \in Senders PROVE answer[s] \in {None, s}
    BY DEF AnsweredInOrder
  <2>1. OwnStatus /\ OthersWait
    BY DEF Answering, InOrder, Prepared
  <2>. QED  BY <2>1 DEF OwnStatus, OthersWait, Requests
<1>. QED  BY <1>1, InitAnswering, NextAnswering, PTL DEF Spec

-----------------------------------------------------------------------------
(* The switch and the power that are shown.                                *)

\* Ids are given in order and come round after 256: how many were given since x, when the
\* next is t.  A command is under way for some seconds, of at most three writes; the
\* assumption is that it is not while half of the ids are given to others.
Since(t, x) == IF x <= t THEN t - x ELSE t - x + 256
Underway(s) == Retried(s) /\ pc[s] \in {"writing", "backoff"}
Recent ==
  \A s \in Senders : Underway(s) =>
    1 <= Since(tid, transaction[s]) /\ Since(tid, transaction[s]) <= 127

\* The last status of a command on the air says what the switch of the node is, and what
\* is shown says so when there is none; likewise the reports of the power.
SwitchTold ==
  /\ \A i \in DOMAIN air : (\A j \in DOMAIN air : i < j => ~CommandStatus(air[j])) =>
       \A op \in CommandStatuses, s \in Senders, v \in Int :
         air[i] = StatusPDU(op, s, v) => (SaysOn(op, v) <=> node.on)
  /\ (\A i \in DOMAIN air : ~CommandStatus(air[i])) => (shown.is_on <=> node.on)
PowerTold ==
  /\ \A i \in DOMAIN air : air[i] = PowerReport => node.power = 57
  /\ (\A i \in DOMAIN air : air[i] # PowerReport) => shown.power_w = node.power

\* A command that may be repeated under the transaction the node has heard last finds the
\* node as it set it.
Repeats == \A s \in Senders : Underway(s) /\ transaction[s] = node.last => SetBy(s, node)

\* No two commands under way have one transaction id.
TidsApart ==
  \A s, t \in Senders : Underway(s) /\ Underway(t) /\ s # t => transaction[s] # transaction[t]

\* The id the node heard last is not the next to be given.  It was of a command under way
\* when it was heard; and what has begun since has a first write outstanding, so that
\* while nothing is lost the id is at most half a round older than one of those.
FirstWrite(s) == Retried(s) /\ pc[s] = "writing" /\ tries[s] = 1
HeardLately ==
  node.last # None =>
    /\ Since(tid, node.last) # 0
    /\ \/ Since(tid, node.last) <= 127
       \/ \E s \in Senders :
            FirstWrite(s) /\ Since(tid, node.last) <= Since(tid, transaction[s]) + 127

Told == SwitchTold /\ PowerTold /\ Repeats /\ HeardLately
Telling == IInv /\ TidsApart /\ (~lossy => Told)

\* The air keeps its PDUs and gains some: none that says what the switch is, which stays
\* as it was; one that does, last; and reports of the power, if it is reported.
Gained == DOMAIN air' \ DOMAIN air
AirExtends == DOMAIN air \subseteq DOMAIN air' /\ \A i \in DOMAIN air : air'[i] = air[i]
SwitchRests ==
  /\ AirExtends /\ \A i \in Gained : ~CommandStatus(air'[i])
  /\ (node'.on <=> node.on) /\ shown' = shown
SwitchSaid ==
  /\ \E k \in DOMAIN air' :
       /\ \A i \in DOMAIN air' : i <= k
       /\ CommandStatus(air'[k])
       /\ \A op \in CommandStatuses, s \in Senders, v \in Int :
            air'[k] = StatusPDU(op, s, v) => (SaysOn(op, v) <=> node'.on)
PowerRests ==
  /\ AirExtends /\ shown' = shown
  /\ \/ node'.power = node.power /\ \A i \in Gained : air'[i] # PowerReport
     \/ node'.power = 57 /\ \E i \in Gained : air'[i] = PowerReport

LEMMA SwitchStays ==
  ASSUME TypeOK, SwitchTold, SwitchRests
  PROVE  SwitchTold'
<1>1. /\ DOMAIN air \subseteq DOMAIN air' /\ \A i \in DOMAIN air : air'[i] = air[i]
      /\ \A i \in DOMAIN air' : i \notin DOMAIN air => ~CommandStatus(air'[i])
      /\ (node'.on <=> node.on) /\ shown' = shown
  BY DEF SwitchRests, AirExtends, Gained
<1>2. ASSUME NEW i \in DOMAIN air', \A j \in DOMAIN air' : i < j => ~CommandStatus(air'[j]),
             NEW op \in CommandStatuses, NEW s \in Senders, NEW v \in Int,
             air'[i] = StatusPDU(op, s, v)
      PROVE  SaysOn(op, v) <=> node'.on
  <2>1. CommandStatus(air'[i])
    BY <1>2 DEF CommandStatus
  <2>2. i \in DOMAIN air /\ air[i] = StatusPDU(op, s, v)
    BY <1>1, <1>2, <2>1
  <2>3. \A j \in DOMAIN air : i < j => ~CommandStatus(air[j])
    BY <1>1, <1>2
  <2>. QED  BY <1>1, <2>2, <2>3 DEF SwitchTold
<1>3. ASSUME \A i \in DOMAIN air' : ~CommandStatus(air'[i])
      PROVE  shown'.is_on <=> node'.on
  <2>1. \A i \in DOMAIN air : ~CommandStatus(air[i])
    BY <1>1, <1>3
  <2>. QED  BY <1>1, <2>1 DEF SwitchTold
<1>4. SwitchTold' <=>
        /\ \A i \in DOMAIN air' : (\A j \in DOMAIN air' : i < j => ~CommandStatus(air'[j])) =>
             \A op \in CommandStatuses, s \in Senders, v \in Int :
               air'[i] = StatusPDU(op, s, v) => (SaysOn(op, v) <=> node'.on)
        /\ (\A i \in DOMAIN air' : ~CommandStatus(air'[i])) => (shown'.is_on <=> node'.on)
  BY DEF SwitchTold
<1>. QED  BY <1>2, <1>3, <1>4

LEMMA SwitchSays ==
  ASSUME TypeOK, SwitchSaid, DOMAIN air' \subseteq Int
  PROVE  SwitchTold'
<1>1. PICK k \in DOMAIN air' :
        /\ \A i \in DOMAIN air' : i <= k
        /\ CommandStatus(air'[k])
        /\ \A op \in CommandStatuses, s \in Senders, v \in Int :
             air'[k] = StatusPDU(op, s, v) => (SaysOn(op, v) <=> node'.on)
  BY DEF SwitchSaid
<1>2. ASSUME NEW i \in DOMAIN air', \A j \in DOMAIN air' : i < j => ~CommandStatus(air'[j])
      PROVE  i = k
  BY <1>1, <1>2
<1>3. SwitchTold' <=>
        /\ \A i \in DOMAIN air' : (\A j \in DOMAIN air' : i < j => ~CommandStatus(air'[j])) =>
             \A op \in CommandStatuses, s \in Senders, v \in Int :
               air'[i] = StatusPDU(op, s, v) => (SaysOn(op, v) <=> node'.on)
        /\ (\A i \in DOMAIN air' : ~CommandStatus(air'[i])) => (shown'.is_on <=> node'.on)
  BY DEF SwitchTold
<1>. QED  BY <1>1, <1>2, <1>3

LEMMA PowerStays ==
  ASSUME TypeOK, PowerTold, PowerRests
  PROVE  PowerTold'
<1>1. /\ DOMAIN air \subseteq DOMAIN air' /\ \A i \in DOMAIN air : air'[i] = air[i]
      /\ shown' = shown
      /\ \/ /\ node'.power = node.power
            /\ \A i \in DOMAIN air' : i \notin DOMAIN air => air'[i] # PowerReport
         \/ node'.power = 57 /\ \E i \in DOMAIN air' : air'[i] = PowerReport
  BY DEF PowerRests, AirExtends, Gained
<1>2. ASSUME NEW i \in DOMAIN air', air'[i] = PowerReport PROVE node'.power = 57
  BY <1>1, <1>2 DEF PowerTold
<1>3. ASSUME \A i \in DOMAIN air' : air'[i] # PowerReport PROVE shown'.power_w = node'.power
  BY <1>1, <1>3 DEF PowerTold
<1>4. PowerReport' = PowerReport
  BY DEF PowerReport
<1>. QED  BY <1>2, <1>3, <1>4 DEF PowerTold

\* A notification shows what the PDU it reads says; the rest of the air is as it was.
LEMMA NotifyTells ==
  ASSUME IInv, _process_notify, ~lossy'
  PROVE  (SwitchTold => SwitchTold') /\ (PowerTold => PowerTold')
<1>1. /\ air # <<>> /\ air \in Seq(ToSet(air)) /\ 1 \in DOMAIN air /\ air' = Tail(air)
      /\ node' = node
  BY Notified DEF IInv
<1>2. /\ \A op \in CommandStatuses, s \in Senders, v \in Int :
           air[1] = StatusPDU(op, s, v) => (shown'.is_on <=> SaysOn(op, v))
      /\ ~CommandStatus(air[1]) => (shown'.is_on <=> shown.is_on)
      /\ shown'.power_w = IF air[1] = PowerReport THEN 57 ELSE shown.power_w
  BY NotifyShows DEF IInv
<1>3. /\ DOMAIN air = 1..Len(air) /\ Len(air) \in Nat
      /\ \A i \in DOMAIN air' : i + 1 \in DOMAIN air /\ air'[i] = air[i + 1] /\ i \in Int
      /\ \A j \in DOMAIN air : j # 1 => j - 1 \in DOMAIN air' /\ air'[j - 1] = air[j]
  <2>1. /\ DOMAIN air = 1..Len(air) /\ Len(air) \in Nat /\ DOMAIN air' = 1..Len(air) - 1
        /\ \A i \in DOMAIN air' : air'[i] = air[i + 1]
    <3>1. /\ air' \in Seq(ToSet(air')) /\ Len(air') = Len(air) - 1
          /\ \A i \in DOMAIN air' : air'[i] = air[i + 1]
      BY <1>1, TailTyped
    <3>. QED  BY <1>1, <3>1
  <2>2. \A n \in Nat : \A j \in 1..n : j # 1 => j - 1 \in 1..n - 1 /\ j - 1 + 1 = j
    OBVIOUS
  <2>3. \A i \in DOMAIN air' : i + 1 \in DOMAIN air /\ i \in Int
    BY <2>1
  <2>4. \A j \in DOMAIN air : j # 1 => j - 1 \in DOMAIN air' /\ j - 1 + 1 = j
    BY <2>1, <2>2, Zenon
  <2>. QED  BY <2>1, <2>3, <2>4
<1>4. ASSUME SwitchTold,
             NEW i \in DOMAIN air', \A j \in DOMAIN air' : i < j => ~CommandStatus(air'[j]),
             NEW op \in CommandStatuses, NEW s \in Senders, NEW v \in Int,
             air'[i] = StatusPDU(op, s, v)
      PROVE  SaysOn(op, v) <=> node'.on
  <2>1. ASSUME NEW j \in DOMAIN air, i + 1 < j PROVE ~CommandStatus(air[j])
    <3>1. j # 1 /\ i < j - 1
      BY <1>3, <2>1
    <3>. QED  BY <1>3, <1>4, <3>1
  <2>2. i + 1 \in DOMAIN air /\ air[i + 1] = StatusPDU(op, s, v)
    BY <1>3, <1>4
  <2>. QED  BY <1>1, <1>4, <2>1, <2>2 DEF SwitchTold
<1>5. ASSUME SwitchTold, \A i \in DOMAIN air' : ~CommandStatus(air'[i])
      PROVE  shown'.is_on <=> node'.on
  <2>1. \A j \in DOMAIN air : j # 1 => ~CommandStatus(air[j])
    BY <1>3, <1>5
  <2>2. CASE CommandStatus(air[1])
    <3>1. PICK op \in CommandStatuses, s \in Senders, v \in Int : air[1] = StatusPDU(op, s, v)
      BY <2>2 DEF CommandStatus
    <3>2. \A j \in DOMAIN air : 1 < j => ~CommandStatus(air[j])
      BY <1>3, <2>1
    <3>3. SaysOn(op, v) <=> node.on
      BY <1>1, <1>5, <3>1, <3>2 DEF SwitchTold
    <3>. QED  BY <1>1, <1>2, <3>1, <3>3
  <2>3. CASE ~CommandStatus(air[1])
    BY <1>1, <1>2, <1>5, <2>1, <2>3 DEF SwitchTold
  <2>. QED  BY <2>2, <2>3
<1>6. SwitchTold' <=>
        /\ \A i \in DOMAIN air' : (\A j \in DOMAIN air' : i < j => ~CommandStatus(air'[j])) =>
             \A op \in CommandStatuses, s \in Senders, v \in Int :
               air'[i] = StatusPDU(op, s, v) => (SaysOn(op, v) <=> node'.on)
        /\ (\A i \in DOMAIN air' : ~CommandStatus(air'[i])) => (shown'.is_on <=> node'.on)
  BY DEF SwitchTold
<1>7. SwitchTold => SwitchTold'
  BY <1>4, <1>5, <1>6
<1>8. ASSUME PowerTold PROVE PowerTold'
  <2>1. PowerReport' = PowerReport
    BY DEF PowerReport
  <2>2. ASSUME NEW i \in DOMAIN air', air'[i] = PowerReport PROVE node'.power = 57
    BY <1>1, <1>3, <1>8, <2>2 DEF PowerTold
  <2>3. ASSUME \A i \in DOMAIN air' : air'[i] # PowerReport PROVE shown'.power_w = node'.power
    <3>1. \A j \in DOMAIN air : j # 1 => air[j] # PowerReport
      BY <1>3, <2>3
    <3>2. CASE air[1] = PowerReport
      BY <1>1, <1>2, <1>8, <3>2 DEF PowerTold
    <3>3. CASE air[1] # PowerReport
      BY <1>1, <1>2, <1>8, <3>1, <3>3 DEF PowerTold
    <3>. QED  BY <3>2, <3>3
  <2>. QED  BY <2>1, <2>2, <2>3 DEF PowerTold
<1>. QED  BY <1>7, <1>8

\* What a step that no sender takes, and that processes no notification, leaves to the
\* commands, the switch and the power.
CommandsRest ==
  /\ UNCHANGED <<call, pc, tid, tries, transaction>> /\ node'.last = node.last
  /\ (lossy => lossy')
AllRests == SwitchRests /\ PowerRests /\ SwitchKept
ShownRests == CommandsRest /\ (~lossy' => AllRests)

LEMMA AirSame ==
  ASSUME air' = air, SwitchKept, node'.power = node.power, shown' = shown
  PROVE  AllRests
BY DEF AllRests, SwitchRests, PowerRests, AirExtends, Gained, SwitchKept

LEMMA AirGains ==
  ASSUME TypeOK, NEW x, air' = Append(air, x), ~CommandStatus(x), SwitchKept, shown' = shown,
         \/ x # PowerReport /\ node'.power = node.power
         \/ x = PowerReport /\ node'.power = 57
  PROVE  AllRests
<1>1. /\ DOMAIN air = 1..Len(air) /\ Len(air) \in Nat /\ DOMAIN air' = 1..Len(air) + 1
      /\ \A i \in DOMAIN air : air'[i] = air[i]
      /\ air'[Len(air) + 1] = x
  BY AppendTyped DEF TypeOK, NodeTypes
<1>2. AirExtends /\ Gained = {Len(air) + 1}
  BY <1>1 DEF AirExtends, Gained
<1>3. \A i \in Gained : air'[i] = x
  BY <1>1, <1>2
<1>. QED  BY <1>2, <1>3 DEF AllRests, SwitchRests, PowerRests, SwitchKept

\* Neither a segment nor a vendor frame says what the switch is.
LEMMA NoCommandStatus ==
  /\ \A q, o : ~CommandStatus(CompositionSegment(q, o)) /\ CompositionSegment(q, o) # PowerReport
  /\ \A net, frame : ~CommandStatus(VendorPDU(net, frame))
  /\ \A op, s, v : op \in {"appkey_status", "bind_status"} =>
       ~CommandStatus(StatusPDU(op, s, v)) /\ StatusPDU(op, s, v) # PowerReport
  /\ \A op \in CommandStatuses : \A s, v : StatusPDU(op, s, v) # PowerReport
<1>1. \A op \in CommandStatuses : op \notin {"vendor_data", "appkey_status", "bind_status"}
  BY DEF CommandStatuses
<1>2. ASSUME NEW q, NEW o
      PROVE  ~CommandStatus(CompositionSegment(q, o)) /\ CompositionSegment(q, o) # PowerReport
  BY SegmentsDiffer DEF CommandStatus, PowerReport
<1>3. ASSUME NEW net, NEW frame, CommandStatus(VendorPDU(net, frame)) PROVE FALSE
  <2>1. PICK op \in CommandStatuses, s \in Senders, v \in Int : VendorPDU(net, frame) = StatusPDU(op, s, v)
    BY <1>3 DEF CommandStatus
  <2>2. StatusPDU(op, s, v) = VendorPDU(net, frame)
    BY <2>1
  <2>3. op = "vendor_data"
    BY <2>2, StatusesDiffer
  <2>. QED  BY <1>1, <2>3
<1>4. ASSUME NEW op \in {"appkey_status", "bind_status"}, NEW s, NEW v
      PROVE  ~CommandStatus(StatusPDU(op, s, v)) /\ StatusPDU(op, s, v) # PowerReport
  <2>1. StatusPDU(op, s, v) # PowerReport
    BY StatusesDiffer DEF PowerReport
  <2>2. ASSUME CommandStatus(StatusPDU(op, s, v)) PROVE FALSE
    <3>1. PICK op2 \in CommandStatuses, s2 \in Senders, v2 \in Int :
            StatusPDU(op, s, v) = StatusPDU(op2, s2, v2)
      BY <2>2 DEF CommandStatus
    <3>2. op = op2
      BY <3>1, StatusesDiffer
    <3>. QED  BY <1>1, <3>2
  <2>. QED  BY <2>1, <2>2
<1>5. ASSUME NEW op \in CommandStatuses, NEW s, NEW v PROVE StatusPDU(op, s, v) # PowerReport
  BY <1>1, StatusesDiffer DEF PowerReport
<1>. QED  BY <1>2, <1>3, <1>4, <1>5

LEMMA ShownElsewhere == IInv /\ [Next]_vars => SendersOr(ShownRests)
<1> SUFFICES ASSUME IInv, [Next]_vars PROVE SendersOr(ShownRests)
  OBVIOUS
<1> USE DEF connVars, sendVars, rxVars, linkVars, nodeVars, history
<1>t. TypeOK
  BY DEF IInv
<1>f. ASSUME UNCHANGED <<call, pc, tid, tries, transaction, node, lossy, air, shown>> PROVE ShownRests
  <2>1. SwitchKept /\ node'.power = node.power
    BY <1>f DEF SwitchKept
  <2>. QED  BY <1>f, <2>1, AirSame DEF ShownRests, CommandsRest
<1>d. ASSUME NEW c \in Sessions, Down(c), UNCHANGED <<call, pc, tid, tries, transaction, node, shown>>
      PROVE  ShownRests
  <2>1. ~lossy' => air' = air
    BY <1>d DEF Down
  <2>2. SwitchKept /\ node'.power = node.power /\ (lossy => lossy')
    BY <1>d DEF SwitchKept, Down
  <2>. QED  BY <1>d, <2>1, <2>2, AirSame DEF ShownRests, CommandsRest
<1>1. ASSUME CompositionAsked PROVE ShownRests
  <2>1. UNCHANGED <<call, pc, tid, tries, transaction, shown>>
    BY <1>1 DEF CompositionAsked
  <2>2. Hear(Get, asked, 0) \/ (lossy' = TRUE /\ UNCHANGED nodeVars)
    BY <1>1 DEF CompositionAsked, Delivered, LostOnAir, Get
  <2>3. CASE lossy' = TRUE /\ UNCHANGED nodeVars
    BY <2>1, <2>3 DEF ShownRests, CommandsRest
  <2>4. CASE Hear(Get, asked, 0) /\ ~(lossy' = TRUE /\ UNCHANGED nodeVars)
    <3>1. /\ UNCHANGED lossy /\ SwitchKept /\ node'.power = node.power
          /\ \/ air' = air
             \/ \E r : air' = air \o <<CompositionSegment(r, 0), CompositionSegment(r, 1)>>
      BY <1>t, <2>4, GetApplies
    <3>2. ASSUME NEW r, air' = air \o <<CompositionSegment(r, 0), CompositionSegment(r, 1)>>
          PROVE  AllRests
      <4>1. /\ DOMAIN air = 1..Len(air) /\ Len(air) \in Nat /\ DOMAIN air' = 1..Len(air) + 2
            /\ \A i \in DOMAIN air' :
                 \/ i \in DOMAIN air /\ air'[i] = air[i]
                 \/ /\ i > Len(air)
                    /\ air'[i] \in {CompositionSegment(r, 0), CompositionSegment(r, 1)}
        BY <1>t, <3>2, TwoJoined
      <4>2. /\ AirExtends
            /\ \A i \in Gained : air'[i] \in {CompositionSegment(r, 0), CompositionSegment(r, 1)}
        BY <4>1 DEF AirExtends, Gained
      <4>3. \A i \in Gained : ~CommandStatus(air'[i]) /\ air'[i] # PowerReport
        BY <4>2, NoCommandStatus
      <4>. QED  BY <2>1, <3>1, <4>2, <4>3 DEF AllRests, SwitchRests, PowerRests, SwitchKept
    <3>3. AllRests
      BY <2>1, <3>1, <3>2, AirSame
    <3>. QED  BY <2>1, <3>1, <3>3 DEF ShownRests, CommandsRest, SwitchKept
  <2>. QED  BY <2>2, <2>3, <2>4
<1>2. ASSUME AttemptClosed PROVE ShownRests
  <2>1. mine \in Sessions /\ Down(mine) /\ UNCHANGED <<call, pc, tid, tries, transaction, node, shown>>
    BY <1>2 DEF AttemptClosed, IInv, Sessioned, TypeOK, ConnTypes
  <2>. QED  BY <1>d, <2>1
<1>3. ASSUME Closed PROVE ShownRests
  <2>1. stopOn \in Sessions /\ Down(stopOn) /\ UNCHANGED <<call, pc, tid, tries, transaction, node, shown>>
    BY <1>3 DEF Closed, IInv, Sessioned, TypeOK, ConnTypes
  <2>. QED  BY <1>d, <2>1
<1>4. ASSUME NEW c \in Sessions, LinkLost(c) PROVE ShownRests
  BY <1>4, <1>d DEF LinkLost
<1>5. ASSUME NEW o \in {0, 1}, SegmentRepeated(o) PROVE ShownRests
  <2>1. /\ UNCHANGED <<call, pc, tid, tries, transaction, node, lossy, shown>>
        /\ air' = Append(air, CompositionSegment(node.used, o))
    BY <1>5 DEF SegmentRepeated
  <2>2. SwitchKept /\ node'.power = node.power
    BY <2>1 DEF SwitchKept
  <2>3. AllRests
    BY <1>t, <2>1, <2>2, AirGains, NoCommandStatus
  <2>. QED  BY <2>1, <2>3 DEF ShownRests, CommandsRest
<1>6. ASSUME NEW net \in {"ours", "other"}, NEW frame \in Frames, UnsolicitedHeard(net, frame)
      PROVE  ShownRests
  <2>1. /\ UNCHANGED <<call, pc, tid, tries, transaction, lossy, shown>>
        /\ air' = Append(air, VendorPDU(net, frame))
        /\ node' = IF net = "ours" /\ frame.dps # {} THEN [node EXCEPT !.power = 57] ELSE node
    BY <1>6 DEF UnsolicitedHeard, VendorPDU
  <2>2. frame.dps # {} <=> frame = PowerFrame
    <3>1. PowerFrame.dps # {}
      BY DEF PowerFrame
    <3>2. ASSUME frame # PowerFrame PROVE frame.dps = {}
      <4>1. frame = [command |-> TUYA_CMD_TIMESTAMP_SYNC, dps |-> {}]
        BY <3>2 DEF Frames, PowerFrame
      <4>. QED  BY <4>1
    <3>. QED  BY <3>1, <3>2
  <2>3. VendorPDU(net, frame) = PowerReport <=> net = "ours" /\ frame = PowerFrame
    BY VendorsDiffer DEF PowerReport
  <2> DEFINE n == [node EXCEPT !.power = 57]
  <2>4. n.on = node.on /\ n.level = node.level /\ n.last = node.last /\ n.power = 57
    BY <1>t DEF TypeOK, NodeTypes
  <2> HIDE DEF n
  <2>5. node' = IF net = "ours" /\ frame = PowerFrame THEN n ELSE node
    BY <2>1, <2>2 DEF n
  <2>6. SwitchKept
    BY <2>4, <2>5 DEF SwitchKept
  <2>7. \/ VendorPDU(net, frame) # PowerReport /\ node'.power = node.power
        \/ VendorPDU(net, frame) = PowerReport /\ node'.power = 57
    BY <2>3, <2>4, <2>5
  <2>8. AllRests
    BY <1>t, <2>1, <2>6, <2>7, AirGains, NoCommandStatus
  <2>. QED  BY <2>1, <2>6, <2>8 DEF ShownRests, CommandsRest, SwitchKept
<1>7. ASSUME PDULost PROVE ShownRests
  BY <1>7 DEF PDULost, ShownRests, CommandsRest
<1>8. ASSUME connect \/ _resolve_proxy_characteristics \/ request_composition_data \/ NextAttempt
             \/ ConnectCancelled \/ disconnect \/ Unsubscribed
      PROVE  ShownRests
  BY <1>8, <1>f DEF connect, _resolve_proxy_characteristics, request_composition_data,
     NextAttempt, ConnectCancelled, disconnect, Unsubscribed
<1>9. ASSUME NEW c \in Sessions, _on_ble_disconnect(c) PROVE ShownRests
  BY <1>9, <1>f DEF _on_ble_disconnect
<1>10. ASSUME NEW z \in DOMAIN buffers, BufferAges(z) PROVE ShownRests
  BY <1>10, <1>f DEF BufferAges
<1>11. CASE UNCHANGED vars
  BY <1>11, <1>f DEF vars, SendersOr
<1>. QED  BY <1>1, <1>2, <1>3, <1>4, <1>5, <1>6, <1>7, <1>8, <1>9, <1>10, <1>11
          DEF SendersOr, Next, ConnStep, SenderStep, Radio, send_power, send_level,
              send_vendor_command, send_config_appkey_add, send_config_model_app_bind

\* A step leaves the ids as they are: no command begins, and one that is under way is still
\* the one it was.
Keeps ==
  /\ call' = call /\ tid' = tid
  /\ \A s \in Senders : Retried(s) =>
       (pc'[s] \in {"writing", "backoff"} =>
          pc[s] \in {"writing", "backoff"} /\ transaction'[s] = transaction[s])
FirstsKept ==
  \A s \in Senders : FirstWrite(s) => FirstWrite(s)' /\ transaction'[s] = transaction[s]

\* A command begins: it takes the next id.
Launched(s) ==
  /\ Retried(s) /\ pc[s] = "idle" /\ pc'[s] = "writing" /\ transaction'[s] = tid /\ tries'[s] = 1
  /\ \A t \in Senders \ {s} :
       pc'[t] = pc[t] /\ tries'[t] = tries[t] /\ transaction'[t] = transaction[t]
  /\ call' = call /\ tid' = (tid + 1) % 256 /\ UNCHANGED <<node, air, shown, lossy>>

\* The ids given since: none since the next, and one more when the next is given.
LEMMA SinceFacts ==
  ASSUME NEW t \in TransactionIds, NEW x \in TransactionIds
  PROVE  /\ Since(t, x) \in Nat /\ Since(t, x) <= 255 /\ (Since(t, x) = 0 <=> x = t)
         /\ Since(t, x) < 255 => Since((t + 1) % 256, x) = Since(t, x) + 1
<1>1. t \in Nat /\ t <= 255 /\ x \in Nat /\ x <= 255
  BY DEF TransactionIds
<1>2. (t + 1) % 256 = IF t = 255 THEN 0 ELSE t + 1
  <2>1. \A n \in Nat : n < 255 => (n + 1) % 256 = n + 1
    OBVIOUS
  <2>2. (255 + 1) % 256 = 0
    OBVIOUS
  <2>. QED  BY <1>1, <2>1, <2>2
<1> DEFINE u == (t + 1) % 256
<1>3. u = IF t = 255 THEN 0 ELSE t + 1
  BY <1>2
<1> HIDE DEF u
<1>4. /\ Since(t, x) \in Nat /\ Since(t, x) <= 255 /\ (Since(t, x) = 0 <=> x = t)
      /\ Since(t, x) < 255 => Since(u, x) = Since(t, x) + 1
  BY <1>1, <1>3 DEF Since
<1>. QED  BY <1>4 DEF u

LEMMA UnderwayKept ==
  ASSUME Keeps, NEW s \in Senders, Underway(s)'
  PROVE  Underway(s) /\ transaction'[s] = transaction[s]
BY DEF Keeps, Underway, Retried, Op

LEMMA TidsKeep ==
  ASSUME TidsApart, Keeps
  PROVE  TidsApart'
<1>1. \A s \in Senders : Underway(s)' => Underway(s) /\ transaction'[s] = transaction[s]
  BY UnderwayKept
<1>. QED  BY <1>1 DEF TidsApart

\* What the node heard last is as old as before, and so are the first writes.
LEMMA HeardKeeps ==
  ASSUME HeardLately, node'.last = node.last, tid' = tid, FirstsKept
  PROVE  HeardLately'
BY DEF HeardLately, FirstsKept

\* The node hears a command under way.
LEMMA HeardNow ==
  ASSUME Recent, tid' = tid, NEW s \in Senders, Underway(s), node'.last = transaction[s]
  PROVE  HeardLately'
<1>1. Since(tid', node'.last) <= 127 /\ 1 <= Since(tid', node'.last)
  BY DEF Recent
<1>. QED  BY <1>1 DEF HeardLately

\* A command begins under an id that nobody else has.
LEMMA TidsLaunch ==
  ASSUME Recent, TypeOK, TidsApart, NEW s \in Senders, Launched(s)
  PROVE  TidsApart'
<1>1. tid \in TransactionIds /\ \A t \in Senders : transaction[t] \in TransactionIds
  BY DEF TypeOK, SendTypes
<1>2. \A t \in Senders : Underway(t) => transaction[t] # tid
  <2> SUFFICES ASSUME NEW t \in Senders, Underway(t), transaction[t] = tid PROVE FALSE
    OBVIOUS
  <2>1. Since(tid, transaction[t]) = 0
    BY <1>1, SinceFacts
  <2>. QED  BY <2>1 DEF Recent
<1>3. \A t \in Senders : Retried(t)' <=> Retried(t)
  BY DEF Launched, Retried, Op
<1>4. \A t \in Senders \ {s} : Underway(t)' => Underway(t) /\ transaction'[t] = transaction[t]
  BY <1>3 DEF Launched, Underway
<1>5. transaction'[s] = tid
  BY DEF Launched
<1>. QED  BY <1>2, <1>4, <1>5 DEF TidsApart

LEMMA HeardLaunch ==
  ASSUME Recent, TypeOK, HeardLately, NEW s \in Senders, Launched(s)
  PROVE  HeardLately' /\ node.last # tid
<1>1. /\ tid \in TransactionIds /\ \A t \in Senders : transaction[t] \in TransactionIds
      /\ node.last \in TransactionIds \cup {None}
  BY DEF TypeOK, SendTypes, NodeTypes
<1>2. node' = node /\ tid' = (tid + 1) % 256 /\ transaction'[s] = tid
  BY DEF Launched
<1>3. CASE node.last = None
  <2>1. None \notin TransactionIds
    BY DEF None, TransactionIds
  <2>. QED  BY <1>1, <1>2, <1>3, <2>1 DEF HeardLately
<1>4. CASE node.last # None
  <2> DEFINE a == Since(tid, node.last)
  <2>1. node.last \in TransactionIds
    BY <1>1, <1>4
  <2>2. /\ a \in Nat /\ a <= 255 /\ (a = 0 <=> node.last = tid)
        /\ a < 255 => Since(tid', node.last) = a + 1
    <3>1. /\ a \in Nat /\ a <= 255 /\ (a = 0 <=> node.last = tid)
          /\ a < 255 => Since((tid + 1) % 256, node.last) = a + 1
      <4>1. tid \in TransactionIds
        BY <1>1
      <4>. QED  BY <2>1, <4>1, SinceFacts, Zenon
    <3>. QED  BY <1>2, <3>1
  <2>3. /\ a # 0
        /\ a <= 127 \/ \E t \in Senders : FirstWrite(t) /\ a <= Since(tid, transaction[t]) + 127
    BY <1>4 DEF HeardLately
  <2>4. \A t \in Senders : FirstWrite(t) =>
          /\ Since(tid, transaction[t]) \in Nat /\ Since(tid, transaction[t]) <= 127
          /\ Since(tid', transaction[t]) = Since(tid, transaction[t]) + 1
          /\ FirstWrite(t)' /\ transaction'[t] = transaction[t]
    <3> SUFFICES ASSUME NEW t \in Senders, FirstWrite(t)
                 PROVE  /\ Since(tid, transaction[t]) \in Nat /\ Since(tid, transaction[t]) <= 127
                        /\ Since(tid', transaction[t]) = Since(tid, transaction[t]) + 1
                        /\ FirstWrite(t)' /\ transaction'[t] = transaction[t]
      OBVIOUS
    <3>1. Underway(t) /\ t # s
      BY DEF FirstWrite, Underway, Launched
    <3>2. Since(tid, transaction[t]) <= 127
      BY <3>1 DEF Recent
    <3>3. /\ Since(tid, transaction[t]) \in Nat
          /\ Since(tid, transaction[t]) < 255 =>
               Since(tid', transaction[t]) = Since(tid, transaction[t]) + 1
      <4>1. /\ Since(tid, transaction[t]) \in Nat
            /\ Since(tid, transaction[t]) < 255 =>
                 Since((tid + 1) % 256, transaction[t]) = Since(tid, transaction[t]) + 1
        <5>1. tid \in TransactionIds /\ transaction[t] \in TransactionIds
          BY <1>1
        <5>. QED  BY <5>1, SinceFacts, Zenon
      <4>. QED  BY <1>2, <4>1
    <3>4. FirstWrite(t)' /\ transaction'[t] = transaction[t]
      BY <3>1 DEF FirstWrite, Launched, Retried, Op
    <3>. QED  BY <3>2, <3>3, <3>4
  <2>5. FirstWrite(s)' /\ Since(tid', transaction'[s]) = 1
    <3>1. Since(tid, tid) = 0 /\ (Since(tid, tid) < 255 => Since(tid', tid) = Since(tid, tid) + 1)
      <4>1. /\ Since(tid, tid) = 0
            /\ Since(tid, tid) < 255 => Since((tid + 1) % 256, tid) = Since(tid, tid) + 1
        <5>1. tid \in TransactionIds
          BY <1>1
        <5>. QED  BY <5>1, SinceFacts, Zenon
      <4>. QED  BY <1>2, <4>1
    <3>2. FirstWrite(s)'
      BY DEF FirstWrite, Launched, Retried, Op
    <3>. QED  BY <1>2, <3>1, <3>2
  <2> HIDE DEF a
  <2>6. a <= 254
    BY <2>2, <2>3, <2>4
  <2>7. Since(tid', node.last) = a + 1 /\ a + 1 # 0
    BY <2>2, <2>6
  <2>8. \E t \in Senders : FirstWrite(t)' /\ a + 1 <= Since(tid', transaction'[t]) + 127
    <3>1. CASE a <= 127
      BY <2>2, <2>5, <3>1
    <3>2. ASSUME NEW t \in Senders, FirstWrite(t), a <= Since(tid, transaction[t]) + 127
          PROVE  FirstWrite(t)' /\ a + 1 <= Since(tid', transaction'[t]) + 127
      BY <2>2, <2>4, <3>2
    <3>. QED  BY <2>3, <3>1, <3>2
  <2>9. HeardLately'
    BY <1>2, <2>7, <2>8 DEF HeardLately
  <2>. QED  BY <2>2, <2>3, <2>9
<1>. QED  BY <1>3, <1>4

LEMMA SetSame ==
  ASSUME call' = call, NEW s \in Senders
  PROVE  SetBy(s, node)' <=> SetBy(s, node')
<1>1. Op(s)' = Op(s)
  BY DEF Op
<1>2. Val(s)' = Val(s)
  BY <1>1 DEF Val, Payload
<1>. QED  BY <1>1, <1>2 DEF SetBy

LEMMA RepeatsKept ==
  ASSUME TypeOK, Repeats, Keeps, SwitchKept
  PROVE  Repeats'
<1> SUFFICES ASSUME NEW s \in Senders, Underway(s)', transaction'[s] = node'.last
             PROVE  SetBy(s, node)'
  BY DEF Repeats
<1>1. Underway(s) /\ transaction[s] = node.last
  BY UnderwayKept DEF SwitchKept
<1>2. SetBy(s, node)
  BY <1>1 DEF Repeats
<1>3. SetBy(s, node')
  BY <1>2 DEF SetBy, SwitchKept
<1>. QED  BY <1>3, SetSame DEF Keeps

LEMMA RepeatsApplied ==
  ASSUME TidsApart, Keeps, NEW s \in Senders, Underway(s), CommandApplied(s)
  PROVE  Repeats'
<1> SUFFICES ASSUME NEW t \in Senders, Underway(t)', transaction'[t] = node'.last
             PROVE  SetBy(t, node)'
  BY DEF Repeats
<1>1. Underway(t) /\ transaction[t] = transaction[s]
  BY UnderwayKept DEF CommandApplied
<1>2. t = s
  BY <1>1 DEF TidsApart
<1>. QED  BY <1>2, SetSame DEF CommandApplied, Keeps

LEMMA RepeatsLaunched ==
  ASSUME Repeats, NEW s \in Senders, Launched(s), node.last # tid
  PROVE  Repeats'
<1> SUFFICES ASSUME NEW t \in Senders, Underway(t)', transaction'[t] = node'.last
             PROVE  SetBy(t, node)'
  BY DEF Repeats
<1>1. t # s /\ Underway(t) /\ transaction[t] = node.last
  BY DEF Launched, Underway, Retried, Op
<1>2. SetBy(t, node)
  BY <1>1 DEF Repeats
<1>3. node' = node /\ call' = call
  BY DEF Launched
<1>. QED  BY <1>2, <1>3, SetSame

\* A sender's step: a command begins, or the ids are kept and the node hears a PDU of a
\* command under way or of another message, or hears nothing.
Commanded(s) == UNCHANGED lossy /\ (~lossy => Underway(s) /\ CommandApplied(s))
Heeded(s) == UNCHANGED lossy /\ AllRests /\ FirstsKept
CommandStep(s) ==
  \/ Launched(s)
  \/ /\ Keeps /\ shown' = shown
     /\ \/ lossy' = TRUE
        \/ Heeded(s)
        \/ Commanded(s)

LEMMA LeavesKeep ==
  ASSUME IInv, NEW s \in Senders, NEW next \in {"idle", "done"}, Leaves(s, next),
         call' = call, tid' = tid
  PROVE  Keeps /\ (pc[s] # "writing" => FirstsKept)
<1>1. /\ pc' = [pc EXCEPT ![s] = next] /\ transaction' = [transaction EXCEPT ![s] = 0]
      /\ tries' = [tries EXCEPT ![s] = 0]
  BY DEF Leaves
<1>2. /\ pc'[s] = next
      /\ \A t \in Senders \ {s} :
           pc'[t] = pc[t] /\ tries'[t] = tries[t] /\ transaction'[t] = transaction[t]
  BY <1>1 DEF IInv, TypeOK, SendTypes
<1>3. Keeps
  BY <1>2 DEF Keeps
<1>4. pc[s] # "writing" => FirstsKept
  BY <1>2 DEF FirstsKept, FirstWrite, Retried, Op
<1>. QED  BY <1>3, <1>4

LEMMA QuietHeeds ==
  ASSUME NEW s, UNCHANGED <<node, air, shown, lossy>>, FirstsKept
  PROVE  Heeded(s)
<1>1. SwitchKept /\ node'.power = node.power /\ node'.last = node.last
  BY DEF SwitchKept
<1>. QED  BY <1>1, AirSame DEF Heeded

LEMMA SendLaunches ==
  ASSUME IInv, NEW s \in Senders, Send(s)
  PROVE  CommandStep(s)
<1>1. /\ UNCHANGED <<call, node, air, shown, lossy>>
      /\ pc[s] = IF Op(s) = "vendor" THEN "asked" ELSE "idle"
  BY DEF Send, connVars, linkVars, nodeVars, history
<1>2. CASE client = 0 \/ ~keys
  <2>1. PICK next : /\ next = send_command_with_retry(s, calls[s] + 1)
                    /\ pc' = [pc EXCEPT ![s] = next] /\ UNCHANGED <<tid, tries, transaction>>
    BY <1>2 DEF Send
  <2>2. next \in {"idle", "done"}
    BY <2>1, RetryFacts
  <2>a. pc'[s] = next /\ \A t \in Senders \ {s} : pc'[t] = pc[t]
    BY <2>1 DEF IInv, TypeOK, SendTypes
  <2>3. Keeps /\ FirstsKept
    <3>1. Keeps
      BY <1>1, <2>1, <2>2, <2>a DEF Keeps
    <3>2. pc[s] # "writing"
      BY <1>1
    <3>. QED  BY <1>1, <2>1, <2>a, <3>1, <3>2 DEF FirstsKept, FirstWrite, Retried, Op
  <2>. QED  BY <1>1, <2>3, QuietHeeds DEF CommandStep
<1>3. CASE ~(client = 0 \/ ~keys)
  <2>1. /\ pc' = [pc EXCEPT ![s] = "writing"] /\ tries' = [tries EXCEPT ![s] = 1]
        /\ IF Retried(s)
           THEN transaction' = [transaction EXCEPT ![s] = tid] /\ tid' = (tid + 1) % 256
           ELSE UNCHANGED <<transaction, tid>>
    BY <1>3 DEF Send
  <2>2. /\ pc'[s] = "writing" /\ tries'[s] = 1
        /\ \A t \in Senders \ {s} : pc'[t] = pc[t] /\ tries'[t] = tries[t]
    BY <2>1 DEF IInv, TypeOK, SendTypes
  <2>3. CASE Retried(s)
    <3>1. transaction'[s] = tid /\ \A t \in Senders \ {s} : transaction'[t] = transaction[t]
      BY <2>1, <2>3 DEF IInv, TypeOK, SendTypes
    <3>2. Op(s) # "vendor"
      BY <2>3 DEF Retried, SetOps
    <3>3. tid' = (tid + 1) % 256
      BY <2>1, <2>3
    <3>4. Launched(s)
      BY <1>1, <2>2, <2>3, <3>1, <3>2, <3>3 DEF Launched
    <3>. QED  BY <3>4 DEF CommandStep
  <2>4. CASE ~Retried(s)
    <3>1. Keeps
      BY <1>1, <2>1, <2>2, <2>4 DEF Keeps
    <3>2. FirstsKept
      BY <1>1, <2>1, <2>2, <2>4 DEF FirstsKept, FirstWrite, Retried, Op
    <3>. QED  BY <1>1, <3>1, <3>2, QuietHeeds DEF CommandStep
  <2>. QED  BY <2>3, <2>4
<1>. QED  BY <1>2, <1>3

LEMMA AgainKeeps ==
  ASSUME IInv, NEW s \in Senders, SendAgain(s) \/ Resumed(s) \/ TimedOut(s)
  PROVE  CommandStep(s)
<1>1. UNCHANGED <<call, node, air, shown, lossy>>
  BY DEF SendAgain, Resumed, TimedOut, connVars, linkVars, nodeVars
<1>2. Keeps /\ FirstsKept
  <2>1. CASE Ends(s) /\ tid' = tid
    <3>1. pc[s] # "writing"
      BY DEF SendAgain, Resumed, TimedOut
    <3>. QED  BY <1>1, <2>1, <3>1, LeavesKeep DEF Ends
  <2>2. CASE ~(Ends(s) /\ tid' = tid)
    <3>1. /\ pc[s] = "backoff" /\ pc' = [pc EXCEPT ![s] = "writing"]
          /\ UNCHANGED <<tid, transaction>>
          /\ tries' = tries \/ tries' = [tries EXCEPT ![s] = @ + 1]
      BY <2>2 DEF SendAgain, NextTry, Resumed, TimedOut
    <3>2. /\ pc'[s] = "writing"
          /\ \A t \in Senders \ {s} : pc'[t] = pc[t] /\ tries'[t] = tries[t]
      BY <3>1 DEF IInv, TypeOK, SendTypes
    <3>3. Keeps
      BY <1>1, <3>1, <3>2 DEF Keeps
    <3>4. FirstsKept
      BY <1>1, <3>1, <3>2 DEF FirstsKept, FirstWrite, Retried, Op
    <3>. QED  BY <3>3, <3>4
  <2>. QED  BY <2>1, <2>2
<1>. QED  BY <1>1, <1>2, QuietHeeds DEF CommandStep

LEMMA WriteKeeps ==
  ASSUME IInv, NEW s \in Senders, Written(s) \/ WriteFails(s)
  PROVE  Keeps /\ (~Retried(s) => FirstsKept)
<1>1. pc[s] = "writing" /\ UNCHANGED <<call, tid>>
  BY DEF Written, WriteFails, connVars
<1>2. \/ \E next \in {"idle", "done"} : Leaves(s, next)
      \/ /\ \/ pc' = [pc EXCEPT ![s] = "backoff"]
            \/ pc' = [pc EXCEPT ![s] = "waiting"] /\ Awaits(s)
         /\ UNCHANGED <<tries, transaction>>
  <2>1. CASE Written(s)
    BY <2>1 DEF Written, Ends
  <2>2. CASE WriteFails(s)
    BY <2>2, FailsLeaves DEF WriteFails
  <2>. QED  BY <2>1, <2>2
<1>3. ~Retried(s) => ~FirstWrite(s)
  BY DEF FirstWrite
<1>4. ASSUME \A t \in Senders \ {s} :
               pc'[t] = pc[t] /\ tries'[t] = tries[t] /\ transaction'[t] = transaction[t]
      PROVE  ~Retried(s) => FirstsKept
  BY <1>1, <1>3, <1>4 DEF FirstsKept, FirstWrite, Retried, Op
<1>5. ASSUME NEW next \in {"idle", "done"}, Leaves(s, next)
      PROVE  Keeps /\ (~Retried(s) => FirstsKept)
  <2>1. \A t \in Senders \ {s} :
          pc'[t] = pc[t] /\ tries'[t] = tries[t] /\ transaction'[t] = transaction[t]
    BY <1>5 DEF Leaves, IInv, TypeOK, SendTypes
  <2>. QED  BY <1>1, <1>4, <1>5, <2>1, LeavesKeep
<1>6. ASSUME NEW next \in {"backoff", "waiting"}, pc' = [pc EXCEPT ![s] = next],
             next = "waiting" => Awaits(s), UNCHANGED <<tries, transaction>>
      PROVE  Keeps /\ (~Retried(s) => FirstsKept)
  <2>1. pc'[s] = next /\ \A t \in Senders \ {s} : pc'[t] = pc[t]
    BY <1>6 DEF IInv, TypeOK, SendTypes
  <2>2. Keeps
    BY <1>1, <1>6, <2>1 DEF Keeps
  <2>. QED  BY <1>4, <1>6, <2>1, <2>2
<1>. QED  BY <1>2, <1>5, <1>6

LEMMA WriteCommands ==
  ASSUME IInv, ~lossy => Repeats, NEW s \in Senders, Written(s) \/ WriteFails(s)
  PROVE  CommandStep(s)
<1>1. pc[s] = "writing" /\ shown' = shown
  BY DEF Written, WriteFails
<1>2. TypeOK /\ SenderStage /\ LevelRange
  BY DEF IInv
<1>3. \/ Hear(Payload(s, transaction[s]), number[s], written[s])
      \/ lossy' = TRUE /\ UNCHANGED nodeVars
  BY DEF Written, WriteFails, Delivered, LostOnAir
<1>4. Keeps /\ (~Retried(s) => FirstsKept)
  BY WriteKeeps
<1>5. Retried(s) => Underway(s)
  BY <1>1 DEF Underway
<1>6. CASE lossy' = TRUE /\ UNCHANGED nodeVars
  BY <1>1, <1>4, <1>6 DEF CommandStep
<1>7. CASE Hear(Payload(s, transaction[s]), number[s], written[s])
           /\ ~(lossy' = TRUE /\ UNCHANGED nodeVars)
  <2>1. UNCHANGED lossy /\ CommandHeard(s)
    BY <1>1, <1>2, <1>7, SenderHeard
  <2>4. CASE ~Retried(s)
    <3>1. OtherHeard(s)
      BY <1>2, <1>7, <2>4, OtherApplies
    <3>2. SwitchKept /\ node'.power = node.power
      BY <3>1 DEF OtherHeard
    <3>3. AllRests
      <4>1. CASE air' = air
        BY <1>1, <3>2, <4>1, AirSame
      <4>2. ASSUME NEW op \in {"appkey_status", "bind_status"}, NEW v \in Int,
                   air' = Append(air, StatusPDU(op, s, v))
            PROVE  AllRests
        <5>1. ~CommandStatus(StatusPDU(op, s, v)) /\ StatusPDU(op, s, v) # PowerReport
          BY NoCommandStatus
        <5>. QED  BY <1>1, <1>2, <3>2, <4>2, <5>1, AirGains
      <4>. QED  BY <3>1, <4>1, <4>2 DEF OtherHeard
    <3>. QED  BY <1>1, <1>4, <2>1, <2>4, <3>3 DEF CommandStep, Heeded
  <2>5. CASE Retried(s)
    <3>1. ASSUME ~lossy PROVE Underway(s) /\ CommandApplied(s)
      <4>1. transaction[s] = node.last => SetBy(s, node)
        BY <1>5, <2>5, <3>1 DEF Repeats
      <4>2. CommandApplied(s)
        BY <1>2, <1>7, <2>5, <4>1, CommandApplies
      <4>. QED  BY <1>5, <2>5, <4>2
    <3>. QED  BY <1>1, <1>4, <2>1, <3>1 DEF CommandStep, Commanded
  <2>. QED  BY <2>4, <2>5
<1>. QED  BY <1>3, <1>6, <1>7

LEMMA SenderCommands ==
  ASSUME IInv, ~lossy => Repeats, NEW s \in Senders,
         Send(s) \/ Written(s) \/ WriteFails(s) \/ SendAgain(s) \/ Resumed(s) \/ TimedOut(s)
  PROVE  CommandStep(s)
BY SendLaunches, AgainKeeps, WriteCommands

\* The status of a command goes on the air last.
LEMMA CommandTells ==
  ASSUME TypeOK, NEW s \in Senders, CommandApplied(s), PowerTold, shown' = shown
  PROVE  SwitchTold' /\ PowerTold'
<1>1. PICK op \in CommandStatuses, v \in Int :
        air' = Append(air, StatusPDU(op, s, v)) /\ (SaysOn(op, v) <=> node'.on)
  BY DEF CommandApplied
<1> DEFINE x == StatusPDU(op, s, v)
<1>2. CommandStatus(x) /\ x # PowerReport
  BY NoCommandStatus DEF CommandStatus
<1>3. \A op2 \in CommandStatuses, s2 \in Senders, v2 \in Int :
        x = StatusPDU(op2, s2, v2) => op2 = op /\ v2 = v
  BY StatusesDiffer
<1>4. air' = Append(air, x)
  BY <1>1
<1> HIDE DEF x
<1>5. /\ DOMAIN air = 1..Len(air) /\ Len(air) \in Nat /\ DOMAIN air' = 1..Len(air) + 1
      /\ \A i \in DOMAIN air : air'[i] = air[i]
      /\ air'[Len(air) + 1] = x
  BY <1>4, AppendTyped DEF TypeOK, NodeTypes
<1>6. SwitchTold'
  <2>1. /\ Len(air) + 1 \in DOMAIN air' /\ \A i \in DOMAIN air' : i <= Len(air) + 1
        /\ DOMAIN air' \subseteq Int
    BY <1>5
  <2>2. PICK k \in DOMAIN air' : k = Len(air) + 1
    BY <2>1
  <2>3. CommandStatus(air'[k]) /\ \A i \in DOMAIN air' : i <= k
    BY <1>2, <1>5, <2>1, <2>2
  <2>4. ASSUME NEW op2 \in CommandStatuses, NEW s2 \in Senders, NEW v2 \in Int,
               air'[k] = StatusPDU(op2, s2, v2)
        PROVE  SaysOn(op2, v2) <=> node'.on
    <3>1. x = StatusPDU(op2, s2, v2)
      BY <1>5, <2>2, <2>4
    <3>2. op2 = op /\ v2 = v
      BY <1>3, <3>1
    <3>. QED  BY <1>1, <3>2
  <2>5. SwitchSaid
    BY <2>3, <2>4 DEF SwitchSaid
  <2>. QED  BY <2>1, <2>5, SwitchSays
<1>7. PowerTold'
  <2>1. DOMAIN air \subseteq DOMAIN air' /\ Gained = {Len(air) + 1}
    BY <1>5 DEF Gained
  <2>2. AirExtends /\ \A i \in Gained : air'[i] # PowerReport
    BY <1>2, <1>5, <2>1 DEF AirExtends
  <2>3. PowerRests
    BY <2>2 DEF PowerRests, CommandApplied
  <2>. QED  BY <2>3, PowerStays
<1>. QED  BY <1>6, <1>7

LEMMA InitTelling == Init => Telling
<1> SUFFICES ASSUME Init PROVE Telling
  OBVIOUS
<1>1. /\ air = <<>> /\ DOMAIN air = {} /\ \A s \in Senders : pc[s] = "idle"
      /\ tid = 0
  BY EmptyTyped DEF Init
<1>2. node.last = -1 /\ node.power = 0 /\ shown.power_w = 0 /\ (shown.is_on <=> node.on)
  BY DEF Init, None
<1>3. \A s \in Senders : ~Underway(s)
  BY <1>1 DEF Underway
<1>5. TidsApart
  BY <1>3 DEF TidsApart
<1>4. HeardLately
  BY <1>2 DEF HeardLately, None
<1>6. Told
  BY <1>1, <1>2, <1>3, <1>4 DEF Told, SwitchTold, PowerTold, Repeats
<1>. QED  BY <1>5, <1>6, InitInvariant DEF Telling

LEMMA CommandTelling ==
  ASSUME Recent, Telling, NEW s \in Senders, CommandStep(s)
  PROVE  TidsApart' /\ (~lossy' => Told')
<1>1. TypeOK /\ TidsApart
  BY DEF Telling, IInv
<1>2. CASE Launched(s)
  <2>1. TidsApart'
    BY <1>1, <1>2, TidsLaunch
  <2>2. ASSUME ~lossy' PROVE Told'
    <3>1. Told /\ UNCHANGED <<node, air, shown>>
      BY <1>2, <2>2 DEF Telling, Launched
    <3>2. AllRests
      BY <3>1, AirSame DEF SwitchKept
    <3>3. SwitchTold' /\ PowerTold'
      BY <1>1, <3>1, <3>2, SwitchStays, PowerStays DEF Told, AllRests
    <3>4. HeardLately' /\ node.last # tid
      BY <1>1, <1>2, <3>1, HeardLaunch DEF Told
    <3>5. Repeats'
      BY <1>2, <3>1, <3>4, RepeatsLaunched DEF Told
    <3>. QED  BY <3>3, <3>4, <3>5 DEF Told
  <2>. QED  BY <2>1, <2>2
<1>3. CASE ~Launched(s)
  <2>1. Keeps /\ shown' = shown
    BY <1>3 DEF CommandStep
  <2>2. TidsApart'
    BY <1>1, <2>1, TidsKeep
  <2>3. ASSUME ~lossy' PROVE Told'
    <3>1. ~lossy => Told
      BY DEF Telling
    <3>2. CASE Heeded(s)
      <4>1. Told /\ AllRests /\ FirstsKept
        BY <2>3, <3>1, <3>2 DEF Heeded
      <4>2. SwitchTold' /\ PowerTold' /\ Repeats'
        BY <1>1, <2>1, <4>1, SwitchStays, PowerStays, RepeatsKept DEF Told, AllRests
      <4>3. HeardLately'
        BY <2>1, <4>1, HeardKeeps DEF Told, AllRests, SwitchKept, Keeps
      <4>. QED  BY <4>2, <4>3 DEF Told
    <3>3. CASE Commanded(s)
      <4>1. Told /\ Underway(s) /\ CommandApplied(s)
        BY <2>3, <3>1, <3>3 DEF Commanded
      <4>2. SwitchTold' /\ PowerTold'
        BY <1>1, <2>1, <4>1, CommandTells DEF Told
      <4>3. Repeats'
        BY <1>1, <2>1, <4>1, RepeatsApplied
      <4>4. HeardLately'
        BY <2>1, <4>1, HeardNow DEF CommandApplied, Keeps
      <4>. QED  BY <4>2, <4>3, <4>4 DEF Told
    <3>. QED  BY <1>3, <2>3, <3>2, <3>3 DEF CommandStep
  <2>. QED  BY <2>2, <2>3
<1>. QED  BY <1>2, <1>3

LEMMA NoticeTelling ==
  ASSUME Telling, _process_notify
  PROVE  TidsApart' /\ (~lossy' => Told')
<1>1. IInv /\ TypeOK /\ TidsApart
  BY DEF Telling, IInv
<1>2. /\ UNCHANGED <<call, tid, tries, transaction, node>> /\ (lossy => lossy')
      /\ \A t \in Senders : pc'[t] = pc[t] \/ (Op(t) = "vendor" /\ pc[t] = "idle" /\ pc'[t] = "asked")
  <2>1. UNCHANGED <<tid, tries, transaction>>
    BY DEF _process_notify
  <2>. QED  BY <1>1, <2>1, NoticeFacts
<1>3. Keeps
  BY <1>2 DEF Keeps
<1>a. FirstsKept
  BY <1>2 DEF FirstsKept, FirstWrite, Retried, Op
<1>4. TidsApart'
  BY <1>1, <1>3, TidsKeep
<1>5. ASSUME ~lossy' PROVE Told'
  <2>1. Told
    BY <1>2, <1>5 DEF Telling
  <2>2. SwitchTold' /\ PowerTold'
    BY <1>1, <1>5, <2>1, NotifyTells DEF Told
  <2>3. SwitchKept
    BY <1>2 DEF SwitchKept
  <2>4. Repeats'
    BY <1>1, <1>3, <2>1, <2>3, RepeatsKept DEF Told
  <2>5. HeardLately'
    BY <1>2, <1>a, <2>1, HeardKeeps DEF Told
  <2>. QED  BY <2>2, <2>4, <2>5 DEF Told
<1>. QED  BY <1>4, <1>5

LEMMA ElsewhereTelling ==
  ASSUME Telling, ShownRests
  PROVE  TidsApart' /\ (~lossy' => Told')
<1>1. TypeOK /\ TidsApart
  BY DEF Telling, IInv
<1>2. UNCHANGED <<call, pc, tid, tries, transaction>> /\ node'.last = node.last /\ (lossy => lossy')
  BY DEF ShownRests, CommandsRest
<1>3. Keeps
  BY <1>2 DEF Keeps
<1>a. FirstsKept
  BY <1>2 DEF FirstsKept, FirstWrite, Retried, Op
<1>4. TidsApart'
  BY <1>1, <1>3, TidsKeep
<1>5. ASSUME ~lossy' PROVE Told'
  <2>1. Told /\ AllRests
    BY <1>2, <1>5 DEF Telling, ShownRests
  <2>2. SwitchTold' /\ PowerTold' /\ Repeats'
    BY <1>1, <1>3, <2>1, SwitchStays, PowerStays, RepeatsKept DEF Told, AllRests
  <2>3. HeardLately'
    BY <1>2, <1>a, <2>1, HeardKeeps DEF Told
  <2>. QED  BY <2>2, <2>3 DEF Told
<1>. QED  BY <1>4, <1>5

LEMMA NextTelling == Recent /\ Telling /\ [Next]_vars => Telling'
<1> SUFFICES ASSUME Recent, Telling, [Next]_vars PROVE Telling'
  OBVIOUS
<1>1. IInv /\ (~lossy => Repeats)
  BY DEF Telling, Told
<1>2. IInv'
  BY <1>1, NextInvariant
<1>3. ASSUME NEW s \in Senders,
             Send(s) \/ Written(s) \/ WriteFails(s) \/ SendAgain(s) \/ Resumed(s) \/ TimedOut(s)
      PROVE  TidsApart' /\ (~lossy' => Told')
  <2>1. CommandStep(s)
    BY <1>1, <1>3, SenderCommands
  <2>. QED  BY <1>2, <2>1, CommandTelling
<1>4. ASSUME ShownRests PROVE TidsApart' /\ (~lossy' => Told')
  BY <1>2, <1>4, ElsewhereTelling
<1>5. ASSUME _process_notify PROVE TidsApart' /\ (~lossy' => Told')
  BY <1>2, <1>5, NoticeTelling
<1>6. SendersOr(ShownRests)
  BY <1>1, ShownElsewhere
<1>. QED  BY <1>2, <1>3, <1>4, <1>5, <1>6 DEF Telling, SendersOr

\* The power needs no assumption about the commands: a sender's step leaves it, and its reports.
PowerTelling == IInv /\ (~lossy => PowerTold)

LEMMA SenderPower ==
  ASSUME IInv, NEW s \in Senders,
         Send(s) \/ Written(s) \/ WriteFails(s) \/ SendAgain(s) \/ Resumed(s) \/ TimedOut(s)
  PROVE  lossy' = TRUE \/ (UNCHANGED lossy /\ PowerRests)
<1>1. shown' = shown
  BY DEF Send, Written, WriteFails, SendAgain, Resumed, TimedOut
<1>2. CASE Send(s) \/ SendAgain(s) \/ Resumed(s) \/ TimedOut(s)
  <2>1. UNCHANGED <<node, air, lossy>>
    BY <1>2 DEF Send, SendAgain, Resumed, TimedOut, nodeVars, history
  <2>2. AllRests
    BY <1>1, <2>1, AirSame DEF SwitchKept
  <2>. QED  BY <2>1, <2>2 DEF AllRests
<1>3. CASE Written(s) \/ WriteFails(s)
  <2>1. /\ pc[s] = "writing"
        /\ \/ Hear(Payload(s, transaction[s]), number[s], written[s])
           \/ lossy' = TRUE
    BY <1>3 DEF Written, WriteFails, Delivered, LostOnAir
  <2>2. lossy' = TRUE \/ (UNCHANGED lossy /\ CommandHeard(s))
    BY <2>1, SenderHeard DEF IInv
  <2>3. ASSUME CommandHeard(s) PROVE PowerRests
    <3>1. node'.power = node.power
      BY <2>3 DEF CommandHeard
    <3>2. CASE air' = air
      BY <1>1, <3>1, <3>2 DEF PowerRests, AirExtends, Gained
    <3>3. ASSUME NEW x, x # PowerReport, air' = Append(air, x) PROVE PowerRests
      <4>1. /\ DOMAIN air = 1..Len(air) /\ Len(air) \in Nat /\ DOMAIN air' = 1..Len(air) + 1
            /\ \A i \in DOMAIN air : air'[i] = air[i]
            /\ air'[Len(air) + 1] = x
        BY <3>3, AppendTyped DEF IInv, TypeOK, NodeTypes
      <4>2. AirExtends /\ Gained = {Len(air) + 1}
        BY <4>1 DEF AirExtends, Gained
      <4>. QED  BY <1>1, <3>1, <3>3, <4>1, <4>2 DEF PowerRests
    <3>4. \A op \in StatusOps : \A v : StatusPDU(op, s, v) # PowerReport
      <4>1. "vendor_data" \notin StatusOps
        BY DEF StatusOps
      <4>. QED  BY <4>1, StatusesDiffer DEF PowerReport
    <3>. QED  BY <2>3, <3>2, <3>3, <3>4 DEF CommandHeard
  <2>. QED  BY <2>2, <2>3
<1>. QED  BY <1>2, <1>3

LEMMA NextPowerTelling == PowerTelling /\ [Next]_vars => PowerTelling'
<1> SUFFICES ASSUME PowerTelling, [Next]_vars PROVE PowerTelling'
  OBVIOUS
<1>1. IInv /\ TypeOK /\ (~lossy => PowerTold)
  BY DEF PowerTelling, IInv
<1>2. IInv'
  BY <1>1, NextInvariant
<1>3. ASSUME PowerRests, UNCHANGED lossy PROVE ~lossy' => PowerTold'
  BY <1>1, <1>3, PowerStays
<1>4. ASSUME NEW s \in Senders,
             Send(s) \/ Written(s) \/ WriteFails(s) \/ SendAgain(s) \/ Resumed(s) \/ TimedOut(s)
      PROVE  ~lossy' => PowerTold'
  <2>1. lossy' = TRUE \/ (UNCHANGED lossy /\ PowerRests)
    BY <1>1, <1>4, SenderPower
  <2>. QED  BY <1>3, <2>1
<1>5. ASSUME ShownRests PROVE ~lossy' => PowerTold'
  BY <1>1, <1>5, PowerStays DEF ShownRests, CommandsRest, AllRests
<1>6. ASSUME _process_notify PROVE ~lossy' => PowerTold'
  <2>1. lossy => lossy'
    BY <1>1, <1>6, NoticeFacts
  <2>. QED  BY <1>1, <1>6, <2>1, NotifyTells
<1>7. SendersOr(ShownRests)
  BY <1>1, ShownElsewhere
<1>. QED  BY <1>2, <1>4, <1>5, <1>6, <1>7 DEF PowerTelling, SendersOr

\* When nothing is on its way and no PDU was lost, the power the coordinator shows is what
\* the node reported last, whatever is commanded (coordinator.py, _on_vendor_update).
THEOREM PowerShown == Spec => [](~lossy /\ air = <<>> => shown.power_w = node.power)
<1>1. Init => PowerTelling
  BY InitTelling DEF Telling, Told, PowerTelling
<1>2. PowerTelling => (~lossy /\ air = <<>> => shown.power_w = node.power)
  <2> SUFFICES ASSUME PowerTold, air = <<>> PROVE shown.power_w = node.power
    BY DEF PowerTelling
  <2>1. DOMAIN air = {}
    BY EmptyTyped
  <2>. QED  BY <2>1 DEF PowerTold
<1>. QED  BY <1>1, <1>2, NextPowerTelling, PTL DEF Spec

\* When nothing is on its way and no PDU was lost, the coordinator shows the switch and the
\* power of the node (coordinator.py, _on_onoff_update, _on_level_update,
\* _on_vendor_update), whatever the number of commands, as long as none is under way
\* while half of the 256 transaction ids are given to others (the byte _tid of
\* sig_mesh_device_commands.py).
THEOREM ShownTrue == Spec /\ []Recent => []ShownIsActual
<1>1. Telling => ShownIsActual
  <2> SUFFICES ASSUME Telling, ~lossy, air = <<>>
               PROVE  shown.is_on = node.on /\ shown.power_w = node.power
    BY DEF ShownIsActual
  <2>1. DOMAIN air = {}
    BY EmptyTyped
  <2>2. (shown.is_on <=> node.on) /\ shown.power_w = node.power
    BY <2>1 DEF Telling, Told, SwitchTold, PowerTold
  <2>3. shown.is_on \in BOOLEAN /\ node.on \in BOOLEAN
    BY DEF Telling, IInv, TypeOK, FlagTypes
  <2>. QED  BY <2>2, <2>3
<1>2. Init => Telling
  BY InitTelling
<1>. QED  BY <1>1, <1>2, NextTelling, PTL DEF Spec

=============================================================================
