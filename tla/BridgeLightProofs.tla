-------------------------- MODULE BridgeLightProofs --------------------------
(***************************************************************************)
(* Proofs about BridgeLight for every set of programs, whatever the calls  *)
(* ask for, and every number of attempts, polls and faults.                *)
(***************************************************************************)
EXTENDS BridgeLight, SequenceFacts

-----------------------------------------------------------------------------
(* The invariant.                                                          *)

\* A call whose task has not ended.
Live(i) == i \in 1..calls /\ task[i].st \notin Ended

\* The entity knows at most one task, of the call made last, and tasks stand in
\* line for _transition_lock in the order of their calls.
Rising(q) == \A k, l \in DOMAIN q : k < l => q[k] < q[l]
Lines ==
  /\ tlock \in Seq(Ids) /\ IsInjective(tlock) /\ Rising(tlock)
  /\ clock \in Seq(Ids) /\ IsInjective(clock)
  /\ \A i \in ToSet(tlock) \cup ToSet(clock) : Live(i)
  /\ pending \in {0, calls} /\ transition \in {0, calls} /\ (pending = 0 \/ transition = 0)

\* What a live task is and where it stands: all but a plain turn_off go through
\* _transition_lock and hold it while they send; whoever sends or polls is in
\* line for the _cmd_lock, and polls only as its holder.
Holds(q, i) == q # <<>> /\ Head(q) = i
Sending == {"queued", "polling", "backoff"}
Stage ==
  \A i \in Ids : Live(i) =>
    /\ Kind(program[i]) # "effect"
    /\ task[i].st = "window" => Kind(program[i]) = "debounced" /\ pending = i
    /\ Kind(program[i]) = "transition" => transition = i
    /\ Kind(program[i]) = "off" => i = calls /\ task[i].st \in Sending
    /\ (i \in ToSet(tlock)) <=> (Kind(program[i]) # "off" /\ task[i].st # "window")
    /\ (i \in ToSet(clock)) <=> (task[i].st \in {"queued", "polling"})
    /\ task[i].st \in Sending \cup {"pause"} /\ Kind(program[i]) # "off" => Holds(tlock, i)
    /\ task[i].st = "polling" => Holds(clock, i)

\* What a task may still have to send, given its call: an item that needs a value
\* the call does not have is never planned.
Items ==
  {"color", "mode1", "mode0", "color_brightness", "temp", "level", "on", "off", "bright",
   "warm", "tint", "pause"}
ItemsFor(c) ==
  {x \in Items : /\ x = "color" => c.rgb # None
                 /\ x \in {"color_brightness", "level"} => c.brightness # None}
CommandTrue(c) ==
  \/ c.action \in {"on", "off"}
  \/ c.action = "brightness" /\ c.value \in 0..100
  \/ c.action = "color_temp" /\ c.value \in 0..127
  \/ c.action = "light_mode" /\ c.value \in 0..1
  \/ c.action \in {"color", "color_brightness"} /\ c.value \in 0..255
Fields == {"call", "st", "todo", "start", "pauses", "attempt", "polls", "cmd"}
TaskTrue(t) ==
  /\ DOMAIN t = Fields /\ t.start \in LightState /\ t.pauses \in Nat
  /\ t.attempt \in 0..max_retries /\ t.polls \in 0..MaxPolls
  /\ t.st = "backoff" => t.attempt < max_retries
LiveTrue(t, c) ==
  /\ t.call = c /\ t.todo \in Seq(ItemsFor(c)) /\ (Kind(c) = "off" => t.todo = <<>>)
  /\ t.st \in {"window", "lock"} => t.todo # <<>>
  /\ t.st \in Sending => CommandTrue(t.cmd)
Tasks ==
  /\ program \in Seq(Calls) /\ Len(program) <= MaxCalls
  /\ (\E p \in Programs : program = p.light) /\ calls \in 0..Len(program)
  /\ DOMAIN task = Ids
  /\ \A i \in Ids :
       /\ task[i].st \in Waits \cup Ended /\ ((task[i].st = "none") <=> (i > calls))
       /\ TaskTrue(task[i])
       /\ Live(i) => LiveTrue(task[i], program[i])

\* What the coordinator and the bridge device believe of the light.
Beliefs ==
  /\ tracked \in LightState
  /\ DOMAIN state = {"shown", "available"}
  /\ state.shown \in LightState /\ state.available \in BOOLEAN

\* What is under way at the plug, and on the bridge.
PlugTrue ==
  /\ DOMAIN plug = {"st", "on", "outer", "attempt", "polls"}
  /\ plug.st = "backoff" => plug.attempt < max_retries
  /\ plug.st = "waiting" => plug.outer < command_retries
  /\ PlugTypes
CmdTrue(c) ==
  \/ c = NoCmd
  \/ c.type = "telink" /\ c.action \in Actions /\ c.by \in 1..calls
  \/ c.type = "sig_mesh" /\ c.action \in Actions
DaemonTrue ==
  /\ CmdTrue(slot)
  /\ DOMAIN daemon = {"pc", "cmd", "res"} /\ CmdTrue(daemon.cmd)
  /\ daemon.res.status \in {"none", "ON", "OFF"}
  /\ BridgeTypes

\* The order of the calls: of two commands the later in the chain from the light
\* over the daemon and its slot to the live tasks is the younger, or a debounced
\* turn_on that a plain turn_off has passed.
InTurn(old, new) == new < old => Overtakes(old, new)
Telink(c) == c.type = "telink"
Order ==
  /\ Telink(slot) => InTurn(lightBy, slot.by)
  /\ Telink(daemon.cmd) => InTurn(lightBy, daemon.cmd.by)
  /\ Telink(daemon.cmd) /\ Telink(slot) => InTurn(daemon.cmd.by, slot.by)
  /\ \A j \in Ids : Live(j) =>
       /\ Telink(slot) => InTurn(slot.by, j)
       /\ Telink(daemon.cmd) => InTurn(daemon.cmd.by, j)
       /\ InTurn(lightBy, j) /\ InTurn(shownBy, j)

IInv ==
  /\ Tasks /\ Lines /\ Stage /\ Beliefs /\ PlugTrue /\ DaemonTrue /\ Order

-----------------------------------------------------------------------------
(* Lines of tasks.                                                         *)

LEMMA LineLeft ==
  ASSUME NEW q \in Seq(Ids), IsInjective(q), NEW i, NEW r, r = Leave(q, i)
  PROVE  /\ r \in Seq(Ids) /\ IsInjective(r) /\ ToSet(r) = ToSet(q) \ {i}
         /\ Rising(q) => Rising(r)
         /\ \A h \in Ids \ {i} : Holds(q, h) => Holds(r, h)
<1>1. CASE i \notin ToSet(q)
  BY <1>1 DEF Leave
<1>2. CASE i \in ToSet(q)
  <2>1. PICK k \in DOMAIN q : q[k] = i /\ r = RemoveAt(q, k)
    BY <1>2 DEF Leave, ToSet
  <2>2. r \in Seq(Ids) /\ IsInjective(r) /\ ToSet(r) = ToSet(q) \ {i}
    <3>1. RemoveAt(q, k) \in Seq(Ids)
      BY Removed, Zenon
    <3>2. IsInjective(RemoveAt(q, k)) /\ ToSet(RemoveAt(q, k)) = ToSet(q) \ {q[k]}
      BY RemovedOnce, Zenon
    <3>. QED  BY <2>1, <3>1, <3>2
  <2>3. /\ DOMAIN r = 1..Len(q) - 1 /\ Len(r) = Len(q) - 1
        /\ \A j \in 1..Len(q) - 1 : r[j] = IF j < k THEN q[j] ELSE q[j + 1]
    BY <2>1, Removed, Zenon
  <2>4. DOMAIN q = 1..Len(q) /\ Len(q) \in Nat /\ \A j \in 1..Len(q) : q[j] \in Ids
    OBVIOUS
  <2>5. Rising(q) => Rising(r)
    BY <2>3, <2>4 DEF Rising
  <2>6. ASSUME NEW h \in Ids \ {i}, Holds(q, h) PROVE Holds(r, h)
    <3>1. q[1] = h /\ Len(q) >= 1
      BY <2>6 DEF Holds
    <3>2. k # 1 /\ k \in 1..Len(q)
      BY <2>1, <2>4, <2>6, <3>1
    <3>3. r[1] = h /\ Len(r) >= 1
      BY <2>3, <2>4, <3>1, <3>2
    <3>. QED  BY <2>2, <3>3 DEF Holds
  <2>. QED  BY <2>2, <2>5, <2>6
<1>. QED  BY <1>1, <1>2

LEMMA LineReleased ==
  ASSUME NEW q \in Seq(Ids), IsInjective(q), NEW S, \A x, y \in S : x = y,
         NEW r, r = Released(q, S)
  PROVE  /\ r \in Seq(Ids) /\ IsInjective(r) /\ ToSet(r) = ToSet(q) \ S
         /\ Rising(q) => Rising(r)
         /\ \A h \in Ids \ S : Holds(q, h) => Holds(r, h)
<1>1. CASE S = {}
  BY <1>1 DEF Released
<1>2. CASE S # {}
  <2>1. PICK i \in S : TRUE
    BY <1>2
  <2>3. S = {i}
    BY <2>1
  <2>2. r = Leave(q, i)
    BY <2>3 DEF Released
  <2>. QED  BY <2>2, <2>3, LineLeft
<1>. QED  BY <1>1, <1>2

LEMMA LineJoined ==
  ASSUME NEW q \in Seq(Ids), IsInjective(q), NEW i \in Ids, i \notin ToSet(q),
         NEW r, r = Append(q, i)
  PROVE  /\ r \in Seq(Ids) /\ IsInjective(r) /\ ToSet(r) = ToSet(q) \cup {i}
         /\ Rising(q) /\ (\A j \in ToSet(q) : j < i) => Rising(r)
         /\ \A h \in Ids : Holds(q, h) => Holds(r, h)
<1>1. r \in Seq(Ids) /\ IsInjective(r) /\ ToSet(r) = ToSet(q) \cup {i}
  BY AppendedOnce, Zenon
<1>2. /\ Len(q) \in Nat /\ DOMAIN q = 1..Len(q) /\ DOMAIN r = 1..Len(q) + 1
      /\ \A k \in 1..Len(q) : r[k] = q[k] /\ q[k] \in Ids
      /\ r[Len(q) + 1] = i
  OBVIOUS
<1>3. \A k \in 1..Len(q) : q[k] \in ToSet(q)
  BY <1>2 DEF ToSet
<1>4. Rising(q) /\ (\A j \in ToSet(q) : j < i) => Rising(r)
  BY <1>2, <1>3 DEF Rising
<1>5. ASSUME NEW h \in Ids, Holds(q, h) PROVE Holds(r, h)
  <2>1. q[1] = h /\ Len(q) >= 1
    BY <1>5 DEF Holds
  <2>2. r[1] = h /\ r # <<>>
    BY <1>2, <2>1
  <2>. QED  BY <1>1, <2>2 DEF Holds
<1>. QED  BY <1>1, <1>4, <1>5

\* Whoever holds a rising line is the oldest in it.
LEMMA HolderIsOldest ==
  ASSUME NEW q \in Seq(Ids), Rising(q), NEW h \in Ids, Holds(q, h), NEW j \in ToSet(q)
  PROVE  h <= j
<1>1. PICK k \in DOMAIN q : q[k] = j
  BY DEF ToSet
<1>2. q[1] = h /\ k \in 1..Len(q) /\ 1 \in DOMAIN q /\ j \in Ids
  BY <1>1 DEF Holds
<1>. QED  BY <1>1, <1>2, ProgramsAssumption DEF Rising, Ids

-----------------------------------------------------------------------------
(* The conversions.                                                        *)

LEMMA BoundedRange ==
  ASSUME NEW lo \in Int, NEW hi \in Int, lo <= hi, NEW v \in Int
  PROVE  Bounded(lo, v, hi) \in Int /\ lo <= Bounded(lo, v, hi) /\ Bounded(lo, v, hi) <= hi
BY DEF Bounded

\* Rounding is off by half at most.
LEMMA RoundNear ==
  ASSUME NEW n \in Int, NEW d \in Nat \ {0}, NEW r, r = Round(n, d)
  PROVE  r \in Int /\ 2 * n - d <= 2 * (d * r) /\ 2 * (d * r) <= 2 * n + d
<1> DEFINE q == n \div d
           m == n % d
<1>1. q \in Int /\ m \in Int /\ 0 <= m /\ m < d /\ n = d * q + m
  OBVIOUS
<1>2. /\ r \in {q, q + 1}
      /\ r = q + 1 => 2 * m >= d
      /\ r = q => 2 * m <= d
  <2>1. r = IF 2 * m > d \/ (2 * m = d /\ q % 2 = 1) THEN q + 1 ELSE q
    BY DEF Round
  <2> HIDE DEF q, m
  <2>2. q # q + 1
    BY <1>1
  <2>. QED  BY <1>1, <2>1, <2>2
<1> HIDE DEF q, m
<1>3. d * (q + 1) = d * q + d
  BY <1>1
<1>4. CASE r = q
  BY <1>1, <1>2, <1>4
<1>5. CASE r = q + 1
  BY <1>1, <1>2, <1>3, <1>5
<1>. QED  BY <1>2, <1>4, <1>5

LEMMA BrightnessToDevice ==
  ASSUME NEW v \in Int
  PROVE  /\ brightness_to_device(v) \in Int
         /\ 1 <= brightness_to_device(v) /\ brightness_to_device(v) <= 100
<1> DEFINE b == Bounded(1, v, 255)
           r == Round(254 + (b - 1) * 99, 254)
<1>1. b \in Int /\ 1 <= b /\ b <= 255
  BY BoundedRange
<1> HIDE DEF b
<1>2. r \in Int /\ 2 * (254 + (b - 1) * 99) - 254 <= 2 * (254 * r)
      /\ 2 * (254 * r) <= 2 * (254 + (b - 1) * 99) + 254
  BY <1>1, RoundNear
<1> HIDE DEF r
<1>3. r \in Int /\ 1 <= r /\ r <= 100
  BY <1>1, <1>2
<1>. QED  BY <1>3 DEF r, b, brightness_to_device

LEMMA ColorTempToDevice ==
  ASSUME NEW m \in Int
  PROVE  /\ color_temp_to_device(m) \in Int
         /\ 0 <= color_temp_to_device(m) /\ color_temp_to_device(m) <= 127
<1> DEFINE b == Bounded(153, m, 370)
           r == Round(127 * 217 - (b - 153) * 127, 217)
<1>1. b \in Int /\ 153 <= b /\ b <= 370
  BY BoundedRange
<1> HIDE DEF b
<1>2. r \in Int /\ 2 * (127 * 217 - (b - 153) * 127) - 217 <= 2 * (217 * r)
      /\ 2 * (217 * r) <= 2 * (127 * 217 - (b - 153) * 127) + 217
  BY <1>1, RoundNear
<1> HIDE DEF r
<1>3. r \in Int /\ 0 <= r /\ r <= 127
  BY <1>1, <1>2
<1>. QED  BY <1>3 DEF r, b, color_temp_to_device

LEMMA BrightnessToHA ==
  ASSUME NEW v \in Int
  PROVE  brightness_to_ha(v) \in Int /\ 0 <= brightness_to_ha(v) /\ brightness_to_ha(v) <= 255
<1> DEFINE b == Bounded(1, v, 100)
           r == Round(99 + (b - 1) * 254, 99)
<1>1. b \in Int /\ 1 <= b /\ b <= 100
  BY BoundedRange
<1> HIDE DEF b
<1>2. r \in Int /\ 2 * (99 + (b - 1) * 254) - 99 <= 2 * (99 * r)
      /\ 2 * (99 * r) <= 2 * (99 + (b - 1) * 254) + 99
  BY <1>1, RoundNear
<1> HIDE DEF r
<1>3. r \in Int /\ 0 <= r /\ r <= 255
  BY <1>1, <1>2
<1>. QED  BY <1>3 DEF r, b, brightness_to_ha

LEMMA ColorTempToHA ==
  ASSUME NEW v \in Int
  PROVE  color_temp_to_ha(v) \in Int /\ 153 <= color_temp_to_ha(v) /\ color_temp_to_ha(v) <= 370
<1> DEFINE b == Bounded(0, v, 127)
           r == Round(370 * 127 - b * 217, 127)
<1>1. b \in Int /\ 0 <= b /\ b <= 127
  BY BoundedRange
<1> HIDE DEF b
<1>2. r \in Int /\ 2 * (370 * 127 - b * 217) - 127 <= 2 * (127 * r)
      /\ 2 * (127 * r) <= 2 * (370 * 127 - b * 217) + 127
  BY <1>1, RoundNear
<1> HIDE DEF r
<1>3. r \in Int /\ 153 <= r /\ r <= 370
  BY <1>1, <1>2
<1>. QED  BY <1>3 DEF r, b, color_temp_to_ha

\* From 370 mireds, 2703 K, to 153, which round to 6536 K.
LEMMA Kelvin ==
  ASSUME NEW m \in Int, 153 <= m, m <= 370, NEW k, k = Round(1000000, m)
  PROVE  k \in Int /\ 2703 <= k /\ k <= 6536
<1>1. k \in Int /\ 2 * 1000000 - m <= 2 * (m * k) /\ 2 * (m * k) <= 2 * 1000000 + m
  BY RoundNear
<1>2. ASSUME k <= 2702 PROVE FALSE
  <2>1. m * k <= m * 2702
    BY <1>1, <1>2
  <2>. QED  BY <1>1, <2>1
<1>3. ASSUME k >= 6537 PROVE FALSE
  <2>1. m * k >= m * 6537
    BY <1>1, <1>3
  <2>. QED  BY <1>1, <2>1
<1>. QED  BY <1>1, <1>2, <1>3

-----------------------------------------------------------------------------
(* What a call sends.                                                      *)

LEMMA PlanTyped ==
  ASSUME NEW c \in Calls, Kind(c) \in {"transition", "debounced"}
  PROVE  Plan(c) \in Seq(ItemsFor(c)) /\ Plan(c) # <<>>
<1> DEFINE S == ItemsFor(c)
<1>1. /\ {"mode1", "mode0", "temp", "on", "off", "bright", "warm", "tint", "pause"} \subseteq S
      /\ c.rgb # None => "color" \in S
      /\ c.brightness # None => "color_brightness" \in S /\ "level" \in S
  BY DEF ItemsFor, Items
<1> HIDE DEF S
<1>2. CASE Kind(c) = "debounced"
  <2>1. _debounced_send_turn_on(c) \in Seq(S) /\ _debounced_send_turn_on(c) # <<>>
    <3>1. CASE c.rgb # None
      <4> DEFINE a == <<"color", "mode1">>
                 b == If(c.brightness # None, <<"color_brightness">>)
      <4>1. a \in Seq(S) /\ a # <<>>
        BY <1>1, <3>1
      <4>2. b \in Seq(S)
        BY <1>1 DEF If
      <4>3. _debounced_send_turn_on(c) = a \o b
        BY <3>1 DEF _debounced_send_turn_on
      <4> HIDE DEF a, b
      <4>. QED  BY <4>1, <4>2, <4>3
    <3>2. CASE c.rgb = None
      <4> DEFINE a == If(c.mireds # None, <<"mode0", "temp">>)
                 b == If(c.brightness # None, <<"level">>)
                 d == If(~has_target(c), <<"on">>)
      <4>1. a \in Seq(S) /\ b \in Seq(S) /\ d \in Seq(S)
        BY <1>1 DEF If
      <4>2. a # <<>> \/ b # <<>> \/ d # <<>>
        BY <3>2 DEF If, has_target
      <4>3. _debounced_send_turn_on(c) = a \o b \o d
        BY <3>2 DEF _debounced_send_turn_on
      <4> HIDE DEF a, b, d
      <4>4. a \o b \in Seq(S) /\ (a # <<>> \/ b # <<>> => a \o b # <<>>)
        BY <4>1
      <4> DEFINE e == a \o b
      <4> HIDE DEF e
      <4>5. e \in Seq(S) /\ (a # <<>> \/ b # <<>> => e # <<>>) /\ a \o b = e
        BY <4>4 DEF e
      <4>. QED  BY <4>1, <4>2, <4>3, <4>5
    <3>. QED  BY <3>1, <3>2
  <2>. QED  BY <1>2, <2>1 DEF Plan, S
<1>3. CASE Kind(c) = "transition"
  <2> DEFINE w == IF c.op = "off" THEN [c EXCEPT !.brightness = 1] ELSE c
             x == If(w.brightness # None, <<"bright">>)
             y == If(w.mireds # None, <<"warm">>)
             z == If(w.rgb # None, <<"tint">>)
             step == x \o y \o z \o <<"pause">>
             n == steps(c) * Len(step) - 1
             body == [k \in 1..n |-> step[1 + ((k - 1) % Len(step))]]
             off == If(c.op = "off", <<"off">>)
  <2>1. _run_transition(c) = body \o off
    BY DEF _run_transition
  <2>2. x \in Seq(S) /\ y \in Seq(S) /\ z \in Seq(S) /\ off \in Seq(S) /\ <<"pause">> \in Seq(S)
        /\ Len(<<"pause">>) = 1
    BY <1>1 DEF If
  <2> HIDE DEF x, y, z
  <2>3. x \o y \o z \in Seq(S)
    BY <2>2
  <2>4. step \in Seq(S) /\ Len(step) >= 1
    BY <2>2, <2>3
  <2>5. steps(c) \in Nat /\ steps(c) >= 2
    BY DEF steps, Calls
  <2> HIDE DEF step, off
  <2> DEFINE L == Len(step)
  <2>6. L \in Nat /\ L >= 1 /\ DOMAIN step = 1..L /\ \A k \in 1..L : step[k] \in S
    BY <2>4
  <2> HIDE DEF L
  <2>7. \A k \in Nat : 1 + (k % L) \in 1..L
    BY <2>6
  <2>8. steps(c) * L >= 2
    <3>1. steps(c) * L >= 2 * L
      BY <2>5, <2>6
    <3>. QED  BY <2>5, <2>6, <3>1
  <2>9. body \in Seq(S) /\ body # <<>>
    <3>1. n \in Nat /\ n >= 1
      BY <2>5, <2>6, <2>8 DEF L
    <3>2. \A k \in 1..n : step[1 + ((k - 1) % L)] \in S
      <4> TAKE k \in 1..n
      <4>1. k - 1 \in Nat
        BY <3>1
      <4>. QED  BY <2>6, <2>7, <4>1
    <3>3. body = [k \in 1..n |-> step[1 + ((k - 1) % L)]]
      BY DEF L
    <3> HIDE DEF n, body
    <3>4. body \in [1..n -> S]
      BY <3>2, <3>3
    <3>5. Len(body) = n
      BY <3>1, <3>4
    <3>. QED  BY <3>1, <3>4, <3>5
  <2> HIDE DEF body
  <2>10. body \o off \in Seq(S) /\ body \o off # <<>>
    <3>1. off \in Seq(S)
      BY <2>2
    <3>. QED  BY <2>9, <3>1
  <2>. QED  BY <1>3, <2>1, <2>10 DEF Plan, S
<1>. QED  BY <1>2, <1>3

LEMMA BetweenRange ==
  ASSUME NEW t, t.call \in Calls, t.pauses \in Nat, NEW s \in Int, NEW goal \in Int,
         NEW lo \in Int, NEW hi \in Int, lo <= hi
  PROVE  Between(t, s, goal, lo, hi) \in Int /\ lo <= Between(t, s, goal, lo, hi)
         /\ Between(t, s, goal, lo, hi) <= hi
<1> DEFINE n == steps(t.call)
           m == s * n + (goal - s) * (t.pauses + 1)
<1>1. n \in Nat /\ n >= 2
  BY DEF steps, Calls
<1> HIDE DEF n
<1>2. m \in Int
  BY <1>1
<1> HIDE DEF m
<1>3. Round(m, n) \in Int
  BY <1>1, <1>2, RoundNear
<1>4. Between(t, s, goal, lo, hi) = Bounded(lo, Round(m, n), hi)
  BY DEF Between, m, n
<1>. QED  BY <1>3, <1>4, BoundedRange

\* A command carries a value of its kind.
LEMMA CommandTyped ==
  ASSUME NEW t, t.call \in Calls, t.pauses \in Nat, t.start \in LightState,
         NEW x \in ItemsFor(t.call), x # "pause", NEW shown \in LightState
  PROVE  CommandTrue(Command(t, x, shown))
<1>1. /\ t.call.brightness \in Int /\ t.call.mireds \in Int /\ t.call.rgb \in Int
      /\ t.call.brightness # None => t.call.brightness \in 0..255
      /\ t.call.rgb # None => t.call.rgb \in 0..255
  BY DEF Calls, None
<1>2. /\ t.start.brightness \in Int /\ t.start.color_temp \in Int /\ t.start.rgb \in Int
  BY DEF LightState
<1>10. ASSUME NEW s \in Int, NEW g \in Int
       PROVE  /\ Between(t, s, g, 1, 100) \in Int
              /\ 1 <= Between(t, s, g, 1, 100) /\ Between(t, s, g, 1, 100) <= 100
              /\ Between(t, s, g, 0, 127) \in Int
              /\ 0 <= Between(t, s, g, 0, 127) /\ Between(t, s, g, 0, 127) <= 127
              /\ Between(t, s, g, 0, 255) \in Int
              /\ 0 <= Between(t, s, g, 0, 255) /\ Between(t, s, g, 0, 255) <= 255
  BY BetweenRange
<1>3. ASSUME x \in {"on", "off", "mode1", "mode0"} PROVE CommandTrue(Command(t, x, shown))
  <2>1. \/ Command(t, x, shown) = [action |-> x, value |-> 0] /\ x \in {"on", "off"}
        \/ Command(t, x, shown) = [action |-> "light_mode", value |-> 0]
        \/ Command(t, x, shown) = [action |-> "light_mode", value |-> 1]
    BY <1>3 DEF Command
  <2>. QED  BY <2>1 DEF CommandTrue
<1>9. ASSUME x \in {"color", "color_brightness"} PROVE CommandTrue(Command(t, x, shown))
  <2>1. \/ /\ Command(t, x, shown) = [action |-> "color", value |-> t.call.rgb]
           /\ t.call.rgb # None
        \/ /\ Command(t, x, shown) = [action |-> "color_brightness", value |-> t.call.brightness]
           /\ t.call.brightness # None
    BY <1>9 DEF Command, ItemsFor
  <2>. QED  BY <1>1, <2>1 DEF CommandTrue
<1>4. ASSUME x = "temp" PROVE CommandTrue(Command(t, x, shown))
  <2> DEFINE v == color_temp_to_device(t.call.mireds)
  <2>1. v \in Int /\ 0 <= v /\ v <= 127
    BY <1>1, ColorTempToDevice
  <2>2. Command(t, x, shown) = [action |-> "color_temp", value |-> v]
    BY <1>4 DEF Command
  <2> HIDE DEF v
  <2>. QED  BY <2>1, <2>2 DEF CommandTrue
<1>5. ASSUME x = "level" PROVE CommandTrue(Command(t, x, shown))
  <2> DEFINE v == brightness_to_device(t.call.brightness)
  <2>1. v \in Int /\ 1 <= v /\ v <= 100
    BY <1>1, BrightnessToDevice
  <2>2. t.call.brightness \in 0..255
    BY <1>1, <1>5 DEF ItemsFor
  <2>3. \/ Command(t, x, shown) = [action |-> "brightness", value |-> v]
        \/ Command(t, x, shown) = [action |-> "color_brightness", value |-> t.call.brightness]
    BY <1>5 DEF Command
  <2> HIDE DEF v
  <2>. QED  BY <2>1, <2>2, <2>3 DEF CommandTrue
<1>6. ASSUME x = "bright" PROVE CommandTrue(Command(t, x, shown))
  <2> DEFINE g == IF t.call.op = "off" THEN 1 ELSE brightness_to_device(t.call.brightness)
             v == Between(t, t.start.brightness, g, 1, 100)
  <2>1. g \in Int
    BY <1>1, BrightnessToDevice
  <2>2. Command(t, x, shown) = [action |-> "brightness", value |-> v]
    BY <1>6 DEF Command, _apply_transition_step
  <2> HIDE DEF g
  <2>3. v \in Int /\ 1 <= v /\ v <= 100
    BY <1>2, <1>10, <2>1
  <2> HIDE DEF v
  <2>. QED  BY <2>2, <2>3 DEF CommandTrue
<1>7. ASSUME x = "warm" PROVE CommandTrue(Command(t, x, shown))
  <2> DEFINE g == color_temp_to_device(t.call.mireds)
             v == Between(t, t.start.color_temp, g, 0, 127)
  <2>1. g \in Int
    BY <1>1, ColorTempToDevice
  <2>2. Command(t, x, shown) = [action |-> "color_temp", value |-> v]
    BY <1>7 DEF Command, _apply_transition_step
  <2> HIDE DEF g
  <2>3. v \in Int /\ 0 <= v /\ v <= 127
    BY <1>2, <1>10, <2>1
  <2> HIDE DEF v
  <2>. QED  BY <2>2, <2>3 DEF CommandTrue
<1>8. ASSUME x = "tint" PROVE CommandTrue(Command(t, x, shown))
  <2> DEFINE v == Between(t, t.start.rgb, t.call.rgb, 0, 255)
  <2>1. Command(t, x, shown) = [action |-> "color", value |-> v]
    BY <1>8 DEF Command, _apply_transition_step
  <2>2. t.start.rgb \in Int /\ t.call.rgb \in Int
    BY <1>1, <1>2
  <2>3. v \in Int /\ 0 <= v /\ v <= 255
    BY <1>10, <2>2
  <2> HIDE DEF v
  <2>. QED  BY <2>1, <2>3 DEF CommandTrue
<1>. QED  BY <1>3, <1>4, <1>5, <1>6, <1>7, <1>8, <1>9 DEF ItemsFor, Items

-----------------------------------------------------------------------------
(* What a step of a task does, whichever it is.                            *)

\* Its window is over and it joins the line; it ends and leaves both lines; it
\* rests between two commands or attempts; it has a command and joins the line
\* for the _cmd_lock; it polls as the holder of that lock.
Wakes(i) ==
  /\ task[i].st = "window" /\ task'[i].st = "lock"
  /\ pending' = 0 /\ tlock' = Append(tlock, i) /\ UNCHANGED clock
Finishes(i) ==
  /\ task'[i].st \in Ended
  /\ tlock' = Leave(tlock, i) /\ clock' = Leave(clock, i) /\ UNCHANGED pending
Inside(i) ==
  /\ task[i].st \in {"lock", "pause"} \cup Sending
  /\ Kind(program[i]) # "off" => Holds(tlock, i)
  /\ UNCHANGED <<pending, tlock>>
Rests(i) ==
  /\ Inside(i) /\ clock' = Leave(clock, i)
  /\ task'[i].st = "backoff" \/ (task'[i].st = "pause" /\ Kind(program[i]) # "off")
Queues(i) ==
  /\ Inside(i) /\ clock' = Append(Leave(clock, i), i) /\ task'[i].st = "queued"
Polls(i) ==
  /\ Inside(i) /\ Holds(clock, i) /\ UNCHANGED clock /\ task'[i].st = "polling"

Moves(i) ==
  /\ Live(i) /\ UNCHANGED <<program, calls, transition>>
  /\ DOMAIN task' = Ids /\ \A j \in Ids \ {i} : task'[j] = task[j]
  /\ TaskTrue(task'[i]) /\ (task'[i].st \notin Ended => LiveTrue(task'[i], program[i]))
  /\ Wakes(i) \/ Finishes(i) \/ Rests(i) \/ Queues(i) \/ Polls(i)

LEMMA MovesKeepTasks == ASSUME Tasks, NEW i \in Ids, Moves(i) PROVE Tasks'
<1>1. task'[i].st \in (Waits \ {"none"}) \cup Ended /\ i <= calls /\ calls' = calls
  BY DEF Moves, Live, Wakes, Finishes, Rests, Queues, Polls, Waits
<1>2. ASSUME NEW j \in Ids
      PROVE  /\ task'[j].st \in Waits \cup Ended /\ ((task'[j].st = "none") <=> (j > calls'))
             /\ TaskTrue(task'[j])
             /\ Live(j)' => LiveTrue(task'[j], program'[j])
  <2>1. CASE j = i
    BY <1>1, <2>1 DEF Moves, Live, Waits, Ended, Tasks
  <2>2. CASE j # i
    <3>1. task'[j] = task[j] /\ calls' = calls /\ program' = program
      BY <2>2 DEF Moves
    <3>. QED  BY <3>1 DEF Tasks, Live
  <2>. QED  BY <2>1, <2>2
<1>. QED  BY <1>2 DEF Tasks, Moves, TaskTrue, LiveTrue

LEMMA MovesKeepLines == ASSUME Tasks, Lines, Stage, NEW i \in Ids, Moves(i) PROVE Lines' /\ Stage'
<1>1. /\ i \in 1..calls /\ task[i].st \notin Ended /\ calls \in 0..MaxCalls
      /\ calls' = calls /\ program' = program /\ transition' = transition
      /\ \A j \in Ids \ {i} : task'[j].st = task[j].st /\ (Live(j)' <=> Live(j))
  <2>1. /\ calls' = calls /\ program' = program /\ transition' = transition
        /\ \A j \in Ids \ {i} : task'[j] = task[j]
    BY DEF Moves
  <2>2. i \in 1..calls /\ task[i].st \notin Ended
    BY DEF Moves, Live
  <2>3. calls \in 0..MaxCalls
    BY ProgramsAssumption DEF Tasks
  <2>4. \A j \in Ids \ {i} : task'[j].st = task[j].st /\ (Live(j)' <=> Live(j))
    BY <2>1 DEF Live
  <2>. QED  BY <2>1, <2>2, <2>3, <2>4
<1>8. \A j \in ToSet(tlock) \cup ToSet(clock) : j \in Ids /\ Live(j) /\ (j # i => Live(j)')
  <2>1. \A j \in ToSet(tlock) \cup ToSet(clock) : Live(j)
    BY Zenon DEF Lines
  <2>2. \A j : Live(j) => j \in Ids
    BY <1>1, ProgramsAssumption DEF Live, Ids
  <2>. QED  BY <1>1, <2>1, <2>2
<1>2. CASE Wakes(i)
  <2>1. /\ Kind(program[i]) = "debounced" /\ pending = i /\ i = calls
        /\ i \notin ToSet(tlock) /\ i \notin ToSet(clock)
    BY <1>1, <1>2 DEF Wakes, Stage, Lines, Live, Ids
  <2>2. \A j \in ToSet(tlock) : j < i
    <3>1. \A j \in ToSet(tlock) : j \in 1..calls
      BY DEF Lines, Live
    <3>. QED  BY <1>1, <2>1, <3>1
  <2>3. /\ tlock' \in Seq(Ids) /\ IsInjective(tlock') /\ Rising(tlock')
        /\ ToSet(tlock') = ToSet(tlock) \cup {i}
        /\ \A h \in Ids : Holds(tlock, h) => Holds(tlock', h)
    BY <1>2, <2>1, <2>2, LineJoined DEF Wakes, Lines
  <2>4. task'[i].st = "lock" /\ Live(i)' /\ pending' = 0 /\ clock' = clock
    BY <1>1, <1>2 DEF Wakes, Live, Ended
  <2>5. Lines'
    <3>1. \A j \in ToSet(tlock') \cup ToSet(clock') : Live(j)'
      BY <1>8, <2>3, <2>4
    <3>. QED  BY <1>1, <2>3, <2>4, <3>1 DEF Lines
  <2>6. Stage'
    BY <1>1, <2>1, <2>3, <2>4 DEF Stage, Sending
  <2>. QED  BY <2>5, <2>6
<1>3. CASE Finishes(i)
  <2>1. /\ tlock' \in Seq(Ids) /\ IsInjective(tlock') /\ Rising(tlock')
        /\ ToSet(tlock') = ToSet(tlock) \ {i}
        /\ \A h \in Ids \ {i} : Holds(tlock, h) => Holds(tlock', h)
    BY <1>3, LineLeft DEF Finishes, Lines
  <2>2. /\ clock' \in Seq(Ids) /\ IsInjective(clock')
        /\ ToSet(clock') = ToSet(clock) \ {i}
        /\ \A h \in Ids \ {i} : Holds(clock, h) => Holds(clock', h)
    BY <1>3, LineLeft DEF Finishes, Lines
  <2>3. ~Live(i)' /\ pending' = pending
    BY <1>3 DEF Finishes, Live
  <2>4. Lines'
    <3>1. \A j \in ToSet(tlock') \cup ToSet(clock') : Live(j)'
      BY <1>8, <2>1, <2>2
    <3>. QED  BY <1>1, <2>1, <2>2, <2>3, <3>1 DEF Lines
  <2>5. Stage'
    BY <1>1, <2>1, <2>2, <2>3 DEF Stage
  <2>. QED  BY <2>4, <2>5
<1>4. ASSUME Inside(i), Live(i)' PROVE /\ (Kind(program[i]) = "transition" => transition = i)
               /\ Kind(program[i]) # "effect"
               /\ (Kind(program[i]) = "off" => i = calls /\ i \notin ToSet(tlock))
               /\ (Kind(program[i]) # "off" => i \in ToSet(tlock) /\ Holds(tlock, i))
               /\ tlock' = tlock /\ pending' = pending /\ task[i].st # "window"
  BY <1>1, <1>4 DEF Inside, Stage, Live, Sending
<1>5. CASE Rests(i)
  <2>1. /\ clock' \in Seq(Ids) /\ IsInjective(clock')
        /\ ToSet(clock') = ToSet(clock) \ {i}
        /\ \A h \in Ids \ {i} : Holds(clock, h) => Holds(clock', h)
    BY <1>5, LineLeft DEF Rests, Lines
  <2>2. /\ Live(i)' /\ Inside(i)
        /\ task'[i].st = "backoff" \/ (task'[i].st = "pause" /\ Kind(program[i]) # "off")
    BY <1>1, <1>5 DEF Rests, Live, Ended
  <2>3. Lines'
    <3>1. \A j \in ToSet(tlock') \cup ToSet(clock') : Live(j)'
      BY <1>4, <1>8, <2>1, <2>2
    <3>. QED  BY <1>1, <1>4, <2>1, <2>2, <3>1 DEF Lines
  <2>4. Stage'
    BY <1>1, <1>4, <2>1, <2>2 DEF Stage, Sending
  <2>. QED  BY <2>3, <2>4
<1>6. CASE Queues(i)
  <2> DEFINE q == Leave(clock, i)
  <2>1. /\ q \in Seq(Ids) /\ IsInjective(q) /\ ToSet(q) = ToSet(clock) \ {i}
        /\ \A h \in Ids \ {i} : Holds(clock, h) => Holds(q, h)
    BY LineLeft DEF Lines
  <2>2. clock' = Append(q, i)
    BY <1>6 DEF Queues
  <2> HIDE DEF q
  <2>3. /\ clock' \in Seq(Ids) /\ IsInjective(clock') /\ ToSet(clock') = ToSet(q) \cup {i}
        /\ \A h \in Ids : Holds(q, h) => Holds(clock', h)
    BY <2>1, <2>2, LineJoined
  <2>4. Live(i)' /\ Inside(i) /\ task'[i].st = "queued"
    BY <1>1, <1>6 DEF Queues, Live, Ended
  <2>5. Lines'
    <3>1. \A j \in ToSet(tlock') \cup ToSet(clock') : Live(j)'
      BY <1>4, <1>8, <2>1, <2>3, <2>4
    <3>. QED  BY <1>1, <1>4, <2>3, <2>4, <3>1 DEF Lines
  <2>6. Stage'
    BY <1>1, <1>4, <2>1, <2>3, <2>4 DEF Stage, Sending
  <2>. QED  BY <2>5, <2>6
<1>7. CASE Polls(i)
  <2>1. Live(i)' /\ Inside(i) /\ task'[i].st = "polling" /\ clock' = clock /\ Holds(clock, i)
    BY <1>1, <1>7 DEF Polls, Live, Ended
  <2>2. i \in ToSet(clock)
    BY <2>1 DEF Holds, Lines, ToSet
  <2>3. Lines'
    <3>1. \A j \in ToSet(tlock') \cup ToSet(clock') : Live(j)'
      BY <1>4, <1>8, <2>1
    <3>. QED  BY <1>1, <1>4, <2>1, <3>1 DEF Lines
  <2>4. Stage'
    BY <1>1, <1>4, <2>1, <2>2 DEF Stage, Sending
  <2>. QED  BY <2>3, <2>4
<1>. QED  BY <1>2, <1>3, <1>5, <1>6, <1>7 DEF Moves

LEMMA EndedTrue == ASSUME NEW how PROVE TaskTrue([NoTask EXCEPT !.st = how]) \/ how = "backoff"
<1> DEFINE t == [NoTask EXCEPT !.st = how]
<1>1. /\ DOMAIN t = Fields /\ t.start = Off /\ t.pauses = 0 /\ t.attempt = 0 /\ t.polls = 0
      /\ t.st = how
  BY DEF NoTask, Fields
<1>2. Off \in LightState
  BY DEF Off, LightState
<1> HIDE DEF t
<1>3. TaskTrue(t) \/ how = "backoff"
  BY <1>1, <1>2, BridgeAssumption DEF TaskTrue
<1>. QED  BY <1>3 DEF t

LEMMA EndsMoves ==
  ASSUME Tasks, NEW i \in Ids, Live(i), NEW how \in {"done", "failed"}, Ends(i, how),
         UNCHANGED <<program, calls, pending, transition>>
  PROVE  Moves(i)
<1> DEFINE t == [NoTask EXCEPT !.st = how]
<1>1. TaskTrue(t) /\ t.st = how /\ how \in Ended
  BY EndedTrue DEF NoTask, Ended
<1>2. task' = [task EXCEPT ![i] = t]
  BY DEF Ends
<1> HIDE DEF t
<1>3. task'[i] = t /\ DOMAIN task' = Ids /\ \A j \in Ids \ {i} : task'[j] = task[j]
  BY <1>2 DEF Tasks
<1>. QED  BY <1>1, <1>3 DEF Moves, Finishes, Ends

LEMMA ProgramCalls == ASSUME Tasks, NEW i, Live(i) PROVE program[i] \in Calls
BY DEF Tasks, Live

LEMMA HeadTyped ==
  ASSUME NEW S, NEW q \in Seq(S), q # <<>> PROVE Head(q) \in S /\ Tail(q) \in Seq(S)
OBVIOUS

LEMMA GoesOnMoves ==
  ASSUME Tasks, NEW i \in Ids, Live(i), NEW t, DOMAIN t = Fields, t.call = program[i],
         t.todo \in Seq(ItemsFor(program[i])), Kind(program[i]) = "off" => t.todo = <<>>,
         t.start \in LightState, t.pauses \in Nat, NEW shown \in LightState, GoesOn(i, t, shown),
         UNCHANGED <<program, calls, pending, transition>>,
         task[i].st \in {"lock", "pause", "polling"}, Kind(program[i]) # "off" => Holds(tlock, i)
  PROVE  Moves(i)
<1> DEFINE x == Head(t.todo)
<1>1. CASE t.todo = <<>>
  BY <1>1, EndsMoves DEF GoesOn
<1>2. ASSUME t.todo # <<>>
      PROVE  x \in ItemsFor(program[i]) /\ Tail(t.todo) \in Seq(ItemsFor(program[i]))
  BY <1>2, HeadTyped
<1>3. CASE t.todo # <<>> /\ x = "pause"
  <2> DEFINE u == [t EXCEPT !.st = "pause", !.todo = Tail(t.todo), !.pauses = @ + 1,
                            !.cmd = NoTask.cmd, !.attempt = 0, !.polls = 0]
  <2>1. /\ task' = [task EXCEPT ![i] = u]
        /\ clock' = Leave(clock, i) /\ tlock' = tlock
    BY <1>3 DEF GoesOn
  <2>2. /\ DOMAIN u = Fields /\ u.st = "pause" /\ u.todo = Tail(t.todo) /\ u.pauses = t.pauses + 1
        /\ u.attempt = 0 /\ u.polls = 0 /\ u.call = t.call /\ u.start = t.start
    BY DEF Fields
  <2> HIDE DEF u
  <2>3. task'[i] = u /\ DOMAIN task' = Ids /\ \A j \in Ids \ {i} : task'[j] = task[j]
    BY <2>1 DEF Tasks
  <2>4. TaskTrue(u)
    BY <2>2, BridgeAssumption DEF TaskTrue
  <2>5. LiveTrue(u, program[i]) /\ Kind(program[i]) # "off"
    BY <1>2, <1>3, <2>2 DEF LiveTrue, Sending
  <2>6. Rests(i)
    BY <2>1, <2>2, <2>3, <2>5 DEF Rests, Inside, Sending
  <2>. QED  BY <2>3, <2>4, <2>5, <2>6 DEF Moves
<1>4. CASE t.todo # <<>> /\ x # "pause" /\ ~connected["light"]
  BY <1>4, EndsMoves DEF GoesOn
<1>5. CASE t.todo # <<>> /\ x # "pause" /\ connected["light"]
  <2> DEFINE c == Command(t, x, shown)
             u == [t EXCEPT !.st = "queued", !.todo = Tail(t.todo), !.cmd = c,
                            !.attempt = 1, !.polls = 0]
  <2>1. /\ task' = [task EXCEPT ![i] = u]
        /\ clock' = Append(Leave(clock, i), i) /\ tlock' = tlock
    BY <1>5 DEF GoesOn
  <2>2. CommandTrue(c)
    BY <1>2, <1>5, ProgramCalls, CommandTyped
  <2> HIDE DEF c
  <2>3. /\ DOMAIN u = Fields /\ u.st = "queued" /\ u.todo = Tail(t.todo) /\ u.pauses = t.pauses
        /\ u.attempt = 1 /\ u.polls = 0 /\ u.call = t.call /\ u.start = t.start /\ u.cmd = c
    BY DEF Fields
  <2> HIDE DEF u
  <2>4. task'[i] = u /\ DOMAIN task' = Ids /\ \A j \in Ids \ {i} : task'[j] = task[j]
    BY <2>1 DEF Tasks
  <2>5. TaskTrue(u)
    BY <2>3, BridgeAssumption DEF TaskTrue
  <2>6. LiveTrue(u, program[i])
    BY <1>2, <1>5, <2>2, <2>3 DEF LiveTrue
  <2>7. Queues(i)
    BY <2>1, <2>3, <2>4 DEF Queues, Inside, Sending
  <2>. QED  BY <2>4, <2>5, <2>6, <2>7 DEF Moves
<1>. QED  BY <1>1, <1>3, <1>4, <1>5

-----------------------------------------------------------------------------
(* What is believed of the light after a command.                          *)

\* A state stays one when a field gets a value of its kind.
LEMMA FieldSet ==
  ASSUME NEW s \in LightState
  PROVE  /\ \A b \in BOOLEAN : [s EXCEPT !.is_on = b] \in LightState
         /\ \A m \in 0..1 : [s EXCEPT !.mode = m] \in LightState
         /\ \A v \in 0..100 : [s EXCEPT !.brightness = v] \in LightState
         /\ \A v \in 0..127 : [s EXCEPT !.color_temp = v] \in LightState
         /\ \A v \in 0..255 : [s EXCEPT !.rgb = v] \in LightState
         /\ \A v \in 0..255 : [s EXCEPT !.color_brightness = v] \in LightState
<1>1. ASSUME NEW b \in BOOLEAN PROVE [s EXCEPT !.is_on = b] \in LightState
  BY DEF LightState
<1>2. ASSUME NEW m \in 0..1 PROVE [s EXCEPT !.mode = m] \in LightState
  BY DEF LightState
<1>3. ASSUME NEW v \in 0..100 PROVE [s EXCEPT !.brightness = v] \in LightState
  BY DEF LightState
<1>4. ASSUME NEW v \in 0..127 PROVE [s EXCEPT !.color_temp = v] \in LightState
  BY DEF LightState
<1>5. ASSUME NEW v \in 0..255 PROVE [s EXCEPT !.rgb = v] \in LightState
  BY DEF LightState
<1>6. ASSUME NEW v \in 0..255 PROVE [s EXCEPT !.color_brightness = v] \in LightState
  BY DEF LightState
<1>. QED  BY <1>1, <1>2, <1>3, <1>4, <1>5, <1>6

\* The light is on, and one more field is known.
LEMMA OnWith ==
  ASSUME NEW s \in LightState, NEW b \in BOOLEAN
  PROVE  /\ \A v \in 0..100 : [s EXCEPT !.is_on = b, !.brightness = v] \in LightState
         /\ \A v \in 0..127 : [s EXCEPT !.is_on = b, !.color_temp = v] \in LightState
         /\ \A v \in 0..255 : [s EXCEPT !.is_on = b, !.rgb = v] \in LightState
         /\ \A v \in 0..255 : [s EXCEPT !.is_on = b, !.color_brightness = v] \in LightState
<1> DEFINE t == [s EXCEPT !.is_on = b]
<1>1. t \in LightState
  BY FieldSet
<1>2. /\ \A v : [s EXCEPT !.is_on = b, !.brightness = v] = [t EXCEPT !.brightness = v]
      /\ \A v : [s EXCEPT !.is_on = b, !.color_temp = v] = [t EXCEPT !.color_temp = v]
      /\ \A v : [s EXCEPT !.is_on = b, !.rgb = v] = [t EXCEPT !.rgb = v]
      /\ \A v : [s EXCEPT !.is_on = b, !.color_brightness = v]
                  = [t EXCEPT !.color_brightness = v]
  OBVIOUS
<1> HIDE DEF t
<1>. QED  BY <1>1, <1>2, FieldSet

LEMMA TrackedTyped == ASSUME Beliefs, NEW c, CommandTrue(c) PROVE Tracked(c) \in LightState
<1>1. tracked \in LightState /\ TRUE \in BOOLEAN /\ FALSE \in BOOLEAN
  BY DEF Beliefs
<1>2. CASE c.action = "on"
  <2> DEFINE v == IF tracked.brightness = 0 THEN 100 ELSE tracked.brightness
  <2>1. v \in 0..100
    BY <1>1 DEF LightState
  <2>2. Tracked(c) = [tracked EXCEPT !.is_on = TRUE, !.brightness = v]
    BY <1>2 DEF Tracked
  <2> HIDE DEF v
  <2>3. \A w \in 0..100 : [tracked EXCEPT !.is_on = TRUE, !.brightness = w] \in LightState
    BY <1>1, OnWith, Zenon
  <2>. QED  BY <2>1, <2>2, <2>3, Zenon
<1>3. CASE c.action = "off"
  <2>1. Tracked(c) = [tracked EXCEPT !.is_on = FALSE]
    BY <1>3 DEF Tracked
  <2>. QED  BY <1>1, <2>1, FieldSet, Zenon
<1>4. CASE c.action = "light_mode"
  <2>1. Tracked(c) = [tracked EXCEPT !.mode = c.value] /\ c.value \in 0..1
    BY <1>4 DEF Tracked, CommandTrue
  <2>. QED  BY <1>1, <2>1, FieldSet, Zenon
<1>5. CASE c.action = "brightness"
  <2>1. /\ Tracked(c) = [tracked EXCEPT !.is_on = TRUE, !.brightness = c.value]
        /\ c.value \in 0..100
    BY <1>5 DEF Tracked, CommandTrue
  <2>. QED  BY <1>1, <2>1, OnWith, Zenon
<1>6. CASE c.action = "color_temp"
  <2>1. /\ Tracked(c) = [tracked EXCEPT !.is_on = TRUE, !.color_temp = c.value]
        /\ c.value \in 0..127
    BY <1>6 DEF Tracked, CommandTrue
  <2>. QED  BY <1>1, <2>1, OnWith, Zenon
<1>7. CASE c.action = "color"
  <2>1. /\ Tracked(c) = [tracked EXCEPT !.is_on = TRUE, !.rgb = c.value]
        /\ c.value \in 0..255
    BY <1>7 DEF Tracked, CommandTrue
  <2>. QED  BY <1>1, <2>1, OnWith, Zenon
<1>8. CASE c.action = "color_brightness"
  <2>1. /\ Tracked(c) = [tracked EXCEPT !.is_on = TRUE, !.color_brightness = c.value]
        /\ c.value \in 0..255
    BY <1>8 DEF Tracked, CommandTrue
  <2>. QED  BY <1>1, <2>1, OnWith, Zenon
<1>. QED  BY <1>2, <1>3, <1>4, <1>5, <1>6, <1>7, <1>8 DEF CommandTrue

LEMMA StatusFired == ASSUME NEW s \in LightState PROVE _fire_status(s) \in LightState
<1> DEFINE v == IF s.is_on THEN s.brightness ELSE 0
           w == IF s.is_on THEN s.color_brightness ELSE 0
           r == [s EXCEPT !.brightness = v]
<1>1. v \in 0..100 /\ w \in 0..255
  BY DEF LightState
<1>2. _fire_status(s) = [s EXCEPT !.brightness = v, !.color_brightness = w]
  BY Zenon DEF _fire_status
<1> HIDE DEF v, w
<1>3. r \in LightState
  BY <1>1, FieldSet, Zenon
<1>4. _fire_status(s) = [r EXCEPT !.color_brightness = w]
  BY <1>2
<1> HIDE DEF r
<1>. QED  BY <1>1, <1>3, <1>4, FieldSet, Zenon

LEMMA StatusUpdated == ASSUME NEW s \in LightState PROVE _on_status_update(s) \in LightState
<1> DEFINE b == s.brightness > 0 \/ s.color_brightness > 0
<1>1. b \in BOOLEAN
  BY Zenon
<1>2. _on_status_update(s) = [s EXCEPT !.is_on = b]
  BY Zenon DEF _on_status_update
<1> HIDE DEF b
<1>3. [s EXCEPT !.is_on = b] \in LightState
  BY <1>1, FieldSet, Zenon
<1>. QED  BY <1>2, <1>3

LEMMA StatusTyped ==
  ASSUME Beliefs, NEW c, CommandTrue(c)
  PROVE  _on_status_update(_fire_status(Tracked(c))) \in LightState
<1>1. Tracked(c) \in LightState
  BY TrackedTyped
<1>2. _fire_status(Tracked(c)) \in LightState
  BY <1>1, StatusFired, Zenon
<1>. QED  BY <1>2, StatusUpdated, Zenon

LEMMA InLine ==
  ASSUME Lines, Stage, NEW i \in Ids, Live(i)
  PROVE  /\ task[i].st \in {"lock", "pause"} => Kind(program[i]) # "off"
         /\ task[i].st = "lock" /\ Head(tlock) = i => Holds(tlock, i)
         /\ task[i].st \in Sending \cup {"pause"} /\ Kind(program[i]) # "off" => Holds(tlock, i)
         /\ task[i].st = "polling" => Holds(clock, i)
         /\ task[i].st = "queued" /\ Head(clock) = i => Holds(clock, i)
<1>1. /\ task[i].st \in {"lock", "pause"} => Kind(program[i]) # "off"
      /\ task[i].st = "lock" => i \in ToSet(tlock)
      /\ task[i].st = "queued" => i \in ToSet(clock)
  BY DEF Stage, Sending
<1>2. /\ i \in ToSet(tlock) => tlock # <<>>
      /\ i \in ToSet(clock) => clock # <<>>
  BY DEF ToSet
<1>. QED  BY <1>1, <1>2 DEF Stage, Holds

LEMMA SomeStays == ASSUME Tasks, NEW i \in Ids, task[i].st \in Waits \ {"none"} PROVE Live(i)
BY DEF Tasks, Live, Waits, Ended, Ids

LEMMA TaskMoves ==
  ASSUME Tasks, Lines, Stage, Beliefs, NEW i \in Ids, LightTask(i)
  PROVE  Moves(i)
<1> USE DEF lightVars, deviceVars
<1>1. Live(i) /\ TaskTrue(task[i]) /\ LiveTrue(task[i], program[i])
  <2>1. task[i].st \in Waits \ {"none"}
    BY DEF LightTask, WindowOver, LockTaken, PauseOver, Post, Poll, PollFails, BackoffOver, Waits
  <2>. QED  BY <2>1, SomeStays DEF Tasks
<1>2. Off \in LightState /\ state.shown \in LightState
  BY DEF Off, LightState, Beliefs
<1>3. CASE WindowOver(i)
  <2> DEFINE u == [task[i] EXCEPT !.st = "lock"]
  <2>1. task' = [task EXCEPT ![i] = u]
    BY <1>3 DEF WindowOver
  <2>2. /\ DOMAIN u = Fields /\ u.st = "lock" /\ u.todo = task[i].todo /\ u.pauses = task[i].pauses
        /\ u.attempt = task[i].attempt /\ u.polls = task[i].polls /\ u.call = task[i].call
        /\ u.start = task[i].start
    BY <1>1 DEF Fields, TaskTrue
  <2> HIDE DEF u
  <2>3. task'[i] = u /\ DOMAIN task' = Ids /\ \A j \in Ids \ {i} : task'[j] = task[j]
    BY <2>1 DEF Tasks
  <2>4. TaskTrue(u) /\ LiveTrue(u, program[i])
    BY <1>1, <1>3, <2>2 DEF TaskTrue, LiveTrue, WindowOver, Sending
  <2>5. Wakes(i)
    BY <1>3, <2>2, <2>3 DEF Wakes, WindowOver
  <2>. QED  BY <1>1, <1>3, <2>3, <2>4, <2>5 DEF Moves, WindowOver
<1>4. CASE LockTaken(i)
  <2> DEFINE start == IF Kind(program[i]) = "transition" THEN state.shown ELSE Off
             t == [task[i] EXCEPT !.start = start]
             skip == Head(t.todo) = "mode0" /\ state.shown.mode # 1
             u == IF skip THEN [t EXCEPT !.todo = Tail(t.todo)] ELSE t
  <2>1. GoesOn(i, u, state.shown) /\ task[i].st = "lock" /\ Head(tlock) = i
    BY <1>4 DEF LockTaken
  <2>2. task[i].todo # <<>> /\ task[i].todo \in Seq(ItemsFor(program[i]))
    BY <1>1, <2>1 DEF LiveTrue
  <2>3. Tail(task[i].todo) \in Seq(ItemsFor(program[i]))
    BY <2>2, HeadTyped
  <2>4. start \in LightState
    BY <1>2
  <2> HIDE DEF start
  <2>5. /\ DOMAIN t = Fields /\ t.call = program[i] /\ t.start = start
        /\ t.pauses = task[i].pauses /\ t.todo = task[i].todo
    BY <1>1 DEF TaskTrue, LiveTrue, Fields
  <2> HIDE DEF t
  <2>6. /\ DOMAIN u = Fields /\ u.call = program[i] /\ u.start = start /\ u.pauses \in Nat
        /\ u.todo \in Seq(ItemsFor(program[i]))
    BY <1>1, <2>2, <2>3, <2>5 DEF TaskTrue, Fields
  <2> HIDE DEF u
  <2>7. Kind(program[i]) # "off" /\ Holds(tlock, i)
    BY <1>1, <2>1, InLine
  <2>. QED  BY <1>1, <1>2, <1>4, <2>1, <2>4, <2>6, <2>7, GoesOnMoves DEF LockTaken
<1>5. CASE PauseOver(i)
  <2>1. Kind(program[i]) # "off" /\ Holds(tlock, i)
    BY <1>1, <1>5, InLine DEF PauseOver
  <2>. QED  BY <1>1, <1>2, <1>5, <2>1, GoesOnMoves DEF PauseOver, TaskTrue, LiveTrue
<1>6. CASE Post(i)
  <2>1. task[i].st = "queued" /\ Holds(clock, i)
        /\ (Kind(program[i]) # "off" => Holds(tlock, i))
    BY <1>1, <1>6, InLine DEF Post, Sending
  <2>2. UNCHANGED <<program, calls, pending, transition>>
    BY <1>6 DEF Post
  <2>3. \/ Ends(i, "failed")
        \/ /\ task' = [task EXCEPT ![i].st = "polling", ![i].polls = 0]
           /\ UNCHANGED <<tlock, clock>>
    BY <1>6 DEF Post
  <2>4. CASE Ends(i, "failed")
    BY <1>1, <2>2, <2>4, EndsMoves
  <2>5. CASE /\ task' = [task EXCEPT ![i].st = "polling", ![i].polls = 0]
             /\ UNCHANGED <<tlock, clock>>
    <3> DEFINE u == [task[i] EXCEPT !.st = "polling", !.polls = 0]
    <3>1. task' = [task EXCEPT ![i] = u]
      BY <2>5 DEF Tasks
    <3>2. /\ DOMAIN u = Fields /\ u.st = "polling" /\ u.todo = task[i].todo
          /\ u.pauses = task[i].pauses /\ u.attempt = task[i].attempt /\ u.polls = 0
          /\ u.call = task[i].call /\ u.start = task[i].start /\ u.cmd = task[i].cmd
      BY <1>1 DEF Fields, TaskTrue
    <3> HIDE DEF u
    <3>3. task'[i] = u /\ DOMAIN task' = Ids /\ \A j \in Ids \ {i} : task'[j] = task[j]
      BY <3>1 DEF Tasks
    <3>4. TaskTrue(u) /\ LiveTrue(u, program[i])
      BY <1>1, <2>1, <3>2, BridgeAssumption DEF TaskTrue, LiveTrue, Sending
    <3>5. Polls(i)
      BY <2>1, <2>2, <2>5, <3>2, <3>3 DEF Polls, Inside, Sending
    <3>. QED  BY <1>1, <2>2, <3>3, <3>4, <3>5 DEF Moves
  <2>. QED  BY <2>3, <2>4, <2>5
<1>7. CASE Poll(i)
  <2>1. /\ task[i].st = "polling" /\ Holds(clock, i)
        /\ Kind(program[i]) # "off" => Holds(tlock, i)
    BY <1>1, <1>7, InLine DEF Poll, Sending
  <2>2. UNCHANGED <<program, calls, pending, transition>>
    BY <1>7 DEF Poll
  <2>3. \/ Ends(i, "failed")
        \/ GoesOn(i, task[i], _on_status_update(_fire_status(Tracked(task[i].cmd))))
        \/ /\ task' = [task EXCEPT ![i].st = "backoff", ![i].polls = 0]
           /\ MayRetry(i) /\ clock' = Leave(clock, i) /\ tlock' = tlock
        \/ /\ task[i].polls + 1 < MaxPolls
           /\ task' = [task EXCEPT ![i].polls = @ + 1]
           /\ UNCHANGED <<tlock, clock>>
    BY <1>7 DEF Poll
  <2>4. CASE Ends(i, "failed")
    BY <1>1, <2>2, <2>4, EndsMoves
  <2>5. CASE GoesOn(i, task[i], _on_status_update(_fire_status(Tracked(task[i].cmd))))
    <3> DEFINE shown == _on_status_update(_fire_status(Tracked(task[i].cmd)))
    <3>1. shown \in LightState
      BY <1>1, <2>1, StatusTyped DEF LiveTrue, Sending
    <3> HIDE DEF shown
    <3>2. GoesOn(i, task[i], shown)
      BY <2>5 DEF shown
    <3>. QED  BY <1>1, <2>1, <2>2, <3>1, <3>2, GoesOnMoves DEF TaskTrue, LiveTrue
  <2>6. CASE /\ task' = [task EXCEPT ![i].st = "backoff", ![i].polls = 0]
             /\ MayRetry(i) /\ clock' = Leave(clock, i) /\ tlock' = tlock
    <3> DEFINE u == [task[i] EXCEPT !.st = "backoff", !.polls = 0]
    <3>1. task' = [task EXCEPT ![i] = u]
      BY <2>6 DEF Tasks
    <3>2. /\ DOMAIN u = Fields /\ u.st = "backoff" /\ u.todo = task[i].todo
          /\ u.pauses = task[i].pauses /\ u.attempt = task[i].attempt /\ u.polls = 0
          /\ u.call = task[i].call /\ u.start = task[i].start /\ u.cmd = task[i].cmd
      BY <1>1 DEF Fields, TaskTrue
    <3> HIDE DEF u
    <3>3. task'[i] = u /\ DOMAIN task' = Ids /\ \A j \in Ids \ {i} : task'[j] = task[j]
      BY <3>1 DEF Tasks
    <3>4. TaskTrue(u) /\ LiveTrue(u, program[i])
      BY <1>1, <2>1, <2>6, <3>2, BridgeAssumption DEF TaskTrue, LiveTrue, Sending, MayRetry
    <3>5. Rests(i)
      BY <2>1, <2>2, <2>6, <3>2, <3>3 DEF Rests, Inside, Sending
    <3>. QED  BY <1>1, <2>2, <3>3, <3>4, <3>5 DEF Moves
  <2>7. CASE /\ task[i].polls + 1 < MaxPolls
             /\ task' = [task EXCEPT ![i].polls = @ + 1]
             /\ UNCHANGED <<tlock, clock>>
    <3> DEFINE u == [task[i] EXCEPT !.polls = @ + 1]
    <3>1. task' = [task EXCEPT ![i] = u]
      BY <2>7 DEF Tasks
    <3>2. /\ DOMAIN u = Fields /\ u.st = task[i].st /\ u.todo = task[i].todo
          /\ u.pauses = task[i].pauses /\ u.attempt = task[i].attempt
          /\ u.polls = task[i].polls + 1
          /\ u.call = task[i].call /\ u.start = task[i].start /\ u.cmd = task[i].cmd
      BY <1>1 DEF Fields, TaskTrue
    <3> HIDE DEF u
    <3>3. task'[i] = u /\ DOMAIN task' = Ids /\ \A j \in Ids \ {i} : task'[j] = task[j]
      BY <3>1 DEF Tasks
    <3>4. TaskTrue(u) /\ LiveTrue(u, program[i])
      BY <1>1, <2>1, <2>7, <3>2, BridgeAssumption DEF TaskTrue, LiveTrue, Sending
    <3>5. Polls(i)
      BY <2>1, <2>2, <2>7, <3>2, <3>3 DEF Polls, Inside, Sending
    <3>. QED  BY <1>1, <2>2, <3>3, <3>4, <3>5 DEF Moves
  <2>. QED  BY <2>3, <2>4, <2>5, <2>6, <2>7
<1>8. CASE PollFails(i)
  BY <1>1, <1>8, EndsMoves DEF PollFails
<1>9. CASE BackoffOver(i)
  <2> DEFINE u == [task[i] EXCEPT !.st = "queued", !.attempt = @ + 1]
  <2>1. task' = [task EXCEPT ![i] = u]
    BY <1>9 DEF BackoffOver, Tasks
  <2>2. /\ DOMAIN u = Fields /\ u.st = "queued" /\ u.todo = task[i].todo
        /\ u.pauses = task[i].pauses /\ u.attempt = task[i].attempt + 1
        /\ u.polls = task[i].polls
        /\ u.call = task[i].call /\ u.start = task[i].start /\ u.cmd = task[i].cmd
    BY <1>1 DEF Fields, TaskTrue
  <2> HIDE DEF u
  <2>3. task'[i] = u /\ DOMAIN task' = Ids /\ \A j \in Ids \ {i} : task'[j] = task[j]
    BY <2>1 DEF Tasks
  <2>4. task[i].st = "backoff"
    BY <1>9 DEF BackoffOver
  <2>5. TaskTrue(u) /\ LiveTrue(u, program[i])
    BY <1>1, <2>2, <2>4, BridgeAssumption DEF TaskTrue, LiveTrue, Sending
  <2>6. i \notin ToSet(clock) /\ (Kind(program[i]) # "off" => Holds(tlock, i))
    BY <1>1, <2>4 DEF Stage, Sending
  <2>7. Queues(i)
    <3>1. Leave(clock, i) = clock
      BY <2>6 DEF Leave
    <3>. QED  BY <1>9, <2>2, <2>3, <2>4, <2>6, <3>1 DEF Queues, Inside, Sending, BackoffOver
  <2>. QED  BY <1>1, <1>9, <2>3, <2>5, <2>7 DEF Moves, BackoffOver
<1>. QED  BY <1>3, <1>4, <1>5, <1>6, <1>7, <1>8, <1>9 DEF LightTask

-----------------------------------------------------------------------------
(* A call begins, or the entity is removed.                                *)

\* What is cancelled is the task of the last call at most.
LEMMA CancelsLast ==
  ASSUME Lines, NEW S, S = {i \in _cancel_transition \cup _cancel_pending_command :
                              task[i].st \notin Ended}
  PROVE  /\ S \subseteq {calls} /\ \A x, y \in S : x = y
         /\ \A i \in {transition, pending} \ {0} : task[i].st \notin Ended => i \in S
BY DEF Lines, _cancel_transition, _cancel_pending_command

LEMMA CancelledTasks ==
  ASSUME Tasks, NEW S
  PROVE  /\ DOMAIN Cancelled(S) = Ids
         /\ \A i \in Ids \ S : Cancelled(S)[i] = task[i]
         /\ \A i \in Ids \cap S : Cancelled(S)[i].st = "cancelled" /\ TaskTrue(Cancelled(S)[i])
<1>1. TaskTrue([NoTask EXCEPT !.st = "cancelled"])
  BY EndedTrue
<1>2. [NoTask EXCEPT !.st = "cancelled"].st = "cancelled"
  BY DEF NoTask
<1> DEFINE t == [NoTask EXCEPT !.st = "cancelled"]
<1> HIDE DEF t
<1>3. /\ TaskTrue(t) /\ t.st = "cancelled"
      /\ Cancelled(S) = [i \in Ids |-> IF i \in S THEN t ELSE task[i]]
  BY <1>1, <1>2 DEF t, Cancelled
<1>. QED  BY <1>3

LEMMA BeginsSteps ==
  ASSUME Tasks, Lines, Stage, NEW st \in {"window", "lock", "queued", "failed"},
         calls < Len(program), Begins(st),
         st = "window" => Kind(program[calls + 1]) = "debounced",
         st = "lock" => Kind(program[calls + 1]) = "transition",
         st = "queued" => Kind(program[calls + 1]) = "off"
  PROVE  Tasks' /\ Lines' /\ Stage'
<1>0. PICK n : n = calls + 1
  OBVIOUS
<1> DEFINE c == program[n]
           S == {i \in _cancel_transition \cup _cancel_pending_command : task[i].st \notin Ended}
           C == Cancelled(S)
           t == CASE st = "failed" -> [NoTask EXCEPT !.st = st]
                  [] st = "queued" -> [NoTask EXCEPT !.call = c, !.st = st, !.attempt = 1,
                                                     !.cmd = [action |-> "off", value |-> 0]]
                  [] OTHER -> [NoTask EXCEPT !.call = c, !.st = st, !.todo = Plan(c)]
<1>1. /\ calls \in Nat /\ Len(program) \in Nat /\ Len(program) <= MaxCalls /\ MaxCalls \in Nat
      /\ n \in Ids /\ n \in 1..Len(program) /\ c \in Calls /\ n = calls + 1 /\ program[n] = c
  BY <1>0, ProgramsAssumption DEF Tasks, Ids
<1>2. /\ task' = [C EXCEPT ![n] = t]
      /\ calls' = n /\ program' = program
      /\ pending' = (IF st = "window" THEN n ELSE 0)
      /\ transition' = (IF st = "lock" THEN n ELSE 0)
      /\ tlock' = Released(tlock, S) \o If(st = "lock", <<n>>)
      /\ clock' = Released(clock, S) \o If(st = "queued", <<n>>)
      /\ \A i \in 1..calls : Kind(program[i]) = "off" => task[i].st \in Ended
  BY <1>0 DEF Begins
<1>3. /\ S \subseteq {calls} /\ \A x, y \in S : x = y
      /\ \A i \in {transition, pending} \ {0} : task[i].st \notin Ended => i \in S
  <2> HIDE DEF S
  <2>. QED  BY CancelsLast DEF S
<1>4. t.st = st /\ TaskTrue(t) /\ (st # "failed" => LiveTrue(t, c))
  <2>0. Off \in LightState /\ 1 \in 0..max_retries /\ 0 \in 0..max_retries /\ 0 \in 0..MaxPolls
    BY BridgeAssumption DEF Off, LightState
  <2>1. CASE st = "failed"
    <3>1. t = [NoTask EXCEPT !.st = "failed"]
      BY <2>1
    <3> HIDE DEF t
    <3>. QED  BY <2>1, <3>1, EndedTrue DEF NoTask
  <2>2. CASE st = "queued"
    <3>1. t = [NoTask EXCEPT !.call = c, !.st = "queued", !.attempt = 1,
                             !.cmd = [action |-> "off", value |-> 0]]
      BY <2>2
    <3> HIDE DEF t, c
    <3>2. /\ DOMAIN t = Fields /\ t.start = Off /\ t.pauses = 0 /\ t.attempt = 1 /\ t.polls = 0
          /\ t.st = "queued" /\ t.call = c /\ t.todo = <<>> /\ t.cmd.action = "off"
      BY <3>1 DEF NoTask, Fields
    <3>3. <<>> \in Seq(ItemsFor(c))
      OBVIOUS
    <3>. QED  BY <2>0, <2>2, <3>2, <3>3 DEF TaskTrue, LiveTrue, CommandTrue
  <2>3. CASE st \in {"window", "lock"}
    <3>1. t = [NoTask EXCEPT !.call = c, !.st = st, !.todo = Plan(c)]
      BY <2>3
    <3>2. Plan(c) \in Seq(ItemsFor(c)) /\ Plan(c) # <<>> /\ Kind(c) # "off"
      BY <1>1, <2>3, PlanTyped
    <3> HIDE DEF t, c
    <3>3. /\ DOMAIN t = Fields /\ t.start = Off /\ t.pauses = 0 /\ t.attempt = 0 /\ t.polls = 0
          /\ t.st = st /\ t.call = c /\ t.todo = Plan(c)
      BY <3>1 DEF NoTask, Fields
    <3>. QED  BY <2>0, <2>3, <3>2, <3>3 DEF TaskTrue, LiveTrue, Sending
  <2>. QED  BY <2>1, <2>2, <2>3
<1> HIDE DEF S, t, c
<1>5. /\ DOMAIN C = Ids
      /\ \A i \in Ids \ S : C[i] = task[i]
      /\ \A i \in Ids \cap S : C[i].st = "cancelled" /\ TaskTrue(C[i])
  BY CancelledTasks
<1> HIDE DEF C
<1>6. /\ DOMAIN task' = Ids /\ task'[n] = t
      /\ \A i \in Ids \ {n} : task'[i] = C[i]
  BY <1>1, <1>2, <1>5
<1>7. n \notin S /\ (\A i \in S : i \in 1..calls)
  <2>1. \A i \in S : i # 0
    BY DEF S, _cancel_transition, _cancel_pending_command
  <2>. QED  BY <1>1, <1>3, <2>1
<1>8. Tasks'
  <2>1. ASSUME NEW j \in Ids
        PROVE  /\ task'[j].st \in Waits \cup Ended /\ ((task'[j].st = "none") <=> (j > calls'))
               /\ TaskTrue(task'[j])
               /\ Live(j)' => LiveTrue(task'[j], program'[j])
    <3>1. CASE j = n
      BY <1>1, <1>2, <1>4, <1>6, <3>1 DEF Waits, Ended, Live
    <3>2. CASE j \in S
      <4>0. j # n /\ j \in 1..calls
        BY <1>7, <3>2
      <4>1. task'[j] = C[j] /\ C[j].st = "cancelled" /\ TaskTrue(C[j])
        BY <1>5, <1>6, <3>2, <4>0
      <4>2. ~(j > n)
        BY <1>1, <4>0
      <4>3. ~Live(j)'
        BY <4>1 DEF Live, Ended
      <4>. QED  BY <1>2, <4>1, <4>2, <4>3 DEF Ended
    <3>3. CASE j # n /\ j \notin S
      <4>1. task'[j] = task[j]
        BY <1>5, <1>6, <3>3
      <4>2. (j > calls' <=> j > calls) /\ (j \in 1..calls' <=> j \in 1..calls)
        BY <1>1, <1>2, <3>3 DEF Ids
      <4>3. /\ task[j].st \in Waits \cup Ended /\ ((task[j].st = "none") <=> (j > calls))
            /\ TaskTrue(task[j])
            /\ Live(j) => LiveTrue(task[j], program[j])
        BY DEF Tasks
      <4>4. Live(j)' => Live(j)
        BY <4>1, <4>2 DEF Live
      <4>. QED  BY <1>2, <4>1, <4>2, <4>3, <4>4
    <3>. QED  BY <3>1, <3>2, <3>3
  <2>2. calls' \in 0..Len(program)
    BY <1>1, <1>2
  <2>. QED  BY <1>2, <1>6, <2>1, <2>2 DEF Tasks
<1>9. /\ \A j \in Ids \ {n} : Live(j)' => Live(j) /\ j \notin S /\ task'[j] = task[j]
      /\ \A j \in Ids \ {n} : Live(j) /\ j \notin S => Live(j)' /\ task'[j] = task[j]
      /\ (Live(n)' <=> st # "failed") /\ task'[n].st = st
  <2>1. ASSUME NEW j \in Ids \ {n}
        PROVE  /\ Live(j)' => Live(j) /\ j \notin S /\ task'[j] = task[j]
               /\ Live(j) /\ j \notin S => Live(j)' /\ task'[j] = task[j]
    <3>1. j \in 1..calls' <=> j \in 1..calls
      BY <1>1, <1>2 DEF Ids
    <3>2. CASE j \in S
      <4>1. task'[j].st = "cancelled"
        BY <1>5, <1>6, <3>2
      <4>. QED  BY <3>2, <4>1 DEF Live, Ended
    <3>3. CASE j \notin S
      <4>1. task'[j] = task[j]
        BY <1>5, <1>6, <3>3
      <4>. QED  BY <3>1, <3>3, <4>1 DEF Live
    <3>. QED  BY <3>2, <3>3
  <2>2. (Live(n)' <=> st # "failed") /\ task'[n].st = st
    <3>1. task'[n].st = st /\ calls' = n /\ n \in 1..n
      BY <1>1, <1>2, <1>4, <1>6
    <3>2. st \notin Ended <=> st # "failed"
      BY DEF Ended
    <3>. QED  BY <3>1, <3>2 DEF Live
  <2>. QED  BY <2>1, <2>2
\* Whoever goes on is a debounced call past its window.
<1>10. ASSUME NEW j \in Ids \ {n}, Live(j)'
       PROVE  /\ Kind(program[j]) \notin {"effect", "transition", "off"}
              /\ task[j].st # "window" /\ j \in ToSet(tlock) /\ j \notin S
              /\ task'[j].st = task[j].st
              /\ (j \in ToSet(clock)) <=> (task[j].st \in {"queued", "polling"})
              /\ task[j].st \in Sending \cup {"pause"} => Holds(tlock, j)
              /\ task[j].st = "polling" => Holds(clock, j)
  <2>1. Live(j) /\ j \notin S /\ task'[j] = task[j]
    BY <1>9, <1>10
  <2>2. j # transition /\ j # pending
    BY <1>3, <2>1 DEF Live
  <2>3. Kind(program[j]) # "off"
    BY <1>2, <2>1 DEF Live
  <2>. QED  BY <2>1, <2>2, <2>3 DEF Stage
<1> DEFINE q == Released(tlock, S)
           r == Released(clock, S)
<1>11. /\ q \in Seq(Ids) /\ IsInjective(q) /\ ToSet(q) = ToSet(tlock) \ S /\ Rising(q)
       /\ \A h \in Ids \ S : Holds(tlock, h) => Holds(q, h)
  BY <1>3, LineReleased DEF Lines
<1>12. /\ r \in Seq(Ids) /\ IsInjective(r) /\ ToSet(r) = ToSet(clock) \ S
       /\ \A h \in Ids \ S : Holds(clock, h) => Holds(r, h)
  BY <1>3, LineReleased DEF Lines
<1>13. /\ tlock' = q \o If(st = "lock", <<n>>)
       /\ clock' = r \o If(st = "queued", <<n>>)
  BY <1>2
<1> HIDE DEF q, r
<1>14. /\ \A j \in ToSet(q) \cup ToSet(r) : Live(j) /\ j \in Ids \ S /\ j # n /\ j < n
  <2>1. \A j \in ToSet(q) \cup ToSet(r) : Live(j) /\ j \notin S
    BY <1>11, <1>12, Zenon DEF Lines
  <2>2. \A j : Live(j) => j \in Ids /\ j # n /\ j < n
    BY <1>1 DEF Live, Ids
  <2>. QED  BY <2>1, <2>2
<1>15. /\ tlock' \in Seq(Ids) /\ IsInjective(tlock') /\ Rising(tlock')
       /\ ToSet(tlock') = ToSet(q) \cup (IF st = "lock" THEN {n} ELSE {})
       /\ \A h \in Ids : Holds(q, h) => Holds(tlock', h)
  <2>1. CASE st = "lock"
    <3>1. tlock' = q \o <<n>>
      BY <1>13, <2>1 DEF If
    <3>2. q \in Seq(ToSet(q))
      BY <1>11, OwnElements, Zenon
    <3>3. tlock' = Append(q, n)
      BY <3>1, <3>2, ConcatFew
    <3>4. n \notin ToSet(q) /\ \A j \in ToSet(q) : j < n
      BY <1>14
    <3>. QED  BY <1>1, <1>11, <2>1, <3>3, <3>4, LineJoined
  <2>2. CASE st # "lock"
    <3>1. tlock' = q \o <<>>
      BY <1>13, <2>2 DEF If
    <3>2. q \in Seq(ToSet(q))
      BY <1>11, OwnElements, Zenon
    <3>3. tlock' = q
      BY <3>1, <3>2, ConcatFew
    <3>. QED  BY <1>11, <2>2, <3>3
  <2>. QED  BY <2>1, <2>2
<1>16. /\ clock' \in Seq(Ids) /\ IsInjective(clock')
       /\ ToSet(clock') = ToSet(r) \cup (IF st = "queued" THEN {n} ELSE {})
       /\ \A h \in Ids : Holds(r, h) => Holds(clock', h)
  <2>1. CASE st = "queued"
    <3>1. clock' = r \o <<n>>
      BY <1>13, <2>1 DEF If
    <3>2. r \in Seq(ToSet(r))
      BY <1>12, OwnElements, Zenon
    <3>3. clock' = Append(r, n)
      BY <3>1, <3>2, ConcatFew
    <3>4. n \notin ToSet(r)
      BY <1>14
    <3>. QED  BY <1>1, <1>12, <2>1, <3>3, <3>4, LineJoined
  <2>2. CASE st # "queued"
    <3>1. clock' = r \o <<>>
      BY <1>13, <2>2 DEF If
    <3>2. r \in Seq(ToSet(r))
      BY <1>12, OwnElements, Zenon
    <3>3. clock' = r
      BY <3>1, <3>2, ConcatFew
    <3>. QED  BY <1>12, <2>2, <3>3
  <2>. QED  BY <2>1, <2>2
<1>17. Lines'
  <2>1. \A j \in ToSet(tlock') \cup ToSet(clock') : Live(j)'
    <3>1. \A j \in ToSet(q) \cup ToSet(r) : Live(j)'
      BY <1>9, <1>14
    <3>2. st # "failed" => Live(n)'
      BY <1>9
    <3>. QED  BY <1>15, <1>16, <3>1, <3>2
  <2>2. /\ pending' \in {0, calls'} /\ transition' \in {0, calls'}
        /\ (pending' = 0 \/ transition' = 0)
    BY <1>2
  <2>. QED  BY <1>15, <1>16, <2>1, <2>2 DEF Lines
<1>18. Stage'
  <2>1. ASSUME NEW j \in Ids, Live(j)'
        PROVE  /\ Kind(program'[j]) # "effect"
               /\ task'[j].st = "window" => Kind(program'[j]) = "debounced" /\ pending' = j
               /\ Kind(program'[j]) = "transition" => transition' = j
               /\ Kind(program'[j]) = "off" => j = calls' /\ task'[j].st \in Sending
               /\ (j \in ToSet(tlock')) <=> (Kind(program'[j]) # "off" /\ task'[j].st # "window")
               /\ (j \in ToSet(clock')) <=> (task'[j].st \in {"queued", "polling"})
               /\ (task'[j].st \in Sending \cup {"pause"} /\ Kind(program'[j]) # "off")
                     => Holds(tlock', j)
               /\ task'[j].st = "polling" => Holds(clock', j)
    <3>1. CASE j = n
      <4>3. n \notin ToSet(q) /\ n \notin ToSet(r)
        BY <1>14
      <4>4. Live(n)'
        BY <2>1, <3>1
      <4>1. n \notin ToSet(q) /\ n \notin ToSet(r) /\ st # "failed" /\ task'[n].st = st
        BY <1>9, <4>3, <4>4
      <4>2. /\ st = "window" => Kind(program[n]) = "debounced"
            /\ st = "lock" => Kind(program[n]) = "transition"
            /\ st = "queued" => Kind(program[n]) = "off"
        BY <1>0
      <4>. QED  BY <1>2, <1>15, <1>16, <3>1, <4>1, <4>2 DEF Sending
    <3>2. CASE j # n
      <4>1. /\ Kind(program[j]) \notin {"effect", "transition", "off"}
            /\ task[j].st # "window" /\ j \in ToSet(tlock) /\ j \notin S
            /\ task'[j].st = task[j].st
            /\ (j \in ToSet(clock)) <=> (task[j].st \in {"queued", "polling"})
            /\ task[j].st \in Sending \cup {"pause"} => Holds(tlock, j)
            /\ task[j].st = "polling" => Holds(clock, j)
        BY <1>10, <2>1, <3>2
      <4>2. (j \in ToSet(clock') <=> j \in ToSet(clock)) /\ j \in ToSet(tlock')
        BY <1>11, <1>12, <1>15, <1>16, <3>2, <4>1
      <4>3. /\ Holds(tlock, j) => Holds(tlock', j)
            /\ Holds(clock, j) => Holds(clock', j)
        BY <1>11, <1>12, <1>15, <1>16, <4>1
      <4>. QED  BY <1>2, <4>1, <4>2, <4>3
    <3>. QED  BY <3>1, <3>2
  <2>. QED  BY <2>1 DEF Stage
<1>. QED  BY <1>8, <1>17, <1>18

LEMMA RemovalSteps ==
  ASSUME Tasks, Lines, Stage, async_will_remove_from_hass
  PROVE  Tasks' /\ Lines' /\ Stage'
<1> DEFINE S == {i \in _cancel_transition \cup _cancel_pending_command : task[i].st \notin Ended}
<1>1. /\ task' = Cancelled(S) /\ calls' = calls /\ program' = program
      /\ pending' = 0 /\ transition' = 0
      /\ tlock' = Released(tlock, S) /\ clock' = Released(clock, S)
  BY DEF async_will_remove_from_hass
<1>2. /\ S \subseteq {calls} /\ \A x, y \in S : x = y
      /\ \A i \in {transition, pending} \ {0} : task[i].st \notin Ended => i \in S
  <2> HIDE DEF S
  <2>. QED  BY CancelsLast DEF S
<1>3. \A i \in S : i # 0
  BY DEF _cancel_transition, _cancel_pending_command
<1> HIDE DEF S
<1>4. /\ DOMAIN task' = Ids
      /\ \A i \in Ids \ S : task'[i] = task[i]
      /\ \A i \in Ids \cap S : task'[i].st = "cancelled" /\ TaskTrue(task'[i])
  BY <1>1, CancelledTasks
<1>5. /\ tlock' \in Seq(Ids) /\ IsInjective(tlock') /\ ToSet(tlock') = ToSet(tlock) \ S
      /\ Rising(tlock') /\ \A h \in Ids \ S : Holds(tlock, h) => Holds(tlock', h)
  BY <1>1, <1>2, LineReleased DEF Lines
<1>6. /\ clock' \in Seq(Ids) /\ IsInjective(clock') /\ ToSet(clock') = ToSet(clock) \ S
      /\ \A h \in Ids \ S : Holds(clock, h) => Holds(clock', h)
  BY <1>1, <1>2, LineReleased DEF Lines
<1>7. \A j \in Ids : Live(j)' <=> Live(j) /\ j \notin S
  BY <1>1, <1>4 DEF Live, Ended
<1>8. calls \in 0..MaxCalls
  BY ProgramsAssumption DEF Tasks
<1>9. Tasks'
  <2>1. ASSUME NEW j \in Ids
        PROVE  /\ task'[j].st \in Waits \cup Ended /\ ((task'[j].st = "none") <=> (j > calls'))
               /\ TaskTrue(task'[j])
               /\ Live(j)' => LiveTrue(task'[j], program'[j])
    <3>1. CASE j \in S
      <4>1. ~(j > calls)
        BY <1>2, <1>8, <3>1
      <4>. QED  BY <1>1, <1>4, <1>7, <3>1, <4>1 DEF Ended
    <3>2. CASE j \notin S
      BY <1>1, <1>4, <1>7, <3>2 DEF Tasks
    <3>. QED  BY <3>1, <3>2
  <2>. QED  BY <1>1, <1>4, <2>1 DEF Tasks
<1>10. Lines'
  <2>1. \A j \in ToSet(tlock) \cup ToSet(clock) : Live(j)
    BY Zenon DEF Lines
  <2>2. \A j : Live(j) => j \in Ids
    BY <1>8, ProgramsAssumption DEF Live, Ids
  <2>3. \A j \in ToSet(tlock') \cup ToSet(clock') : Live(j)'
    BY <1>5, <1>6, <1>7, <2>1, <2>2
  <2>. QED  BY <1>1, <1>5, <1>6, <2>3 DEF Lines
<1>11. Stage'
  <2>1. ASSUME NEW j \in Ids, Live(j)'
        PROVE  /\ Live(j) /\ j \notin S /\ task'[j] = task[j] /\ j # pending /\ j # transition
               /\ (j \in ToSet(tlock') <=> j \in ToSet(tlock))
               /\ (j \in ToSet(clock') <=> j \in ToSet(clock))
               /\ Holds(tlock, j) => Holds(tlock', j)
               /\ Holds(clock, j) => Holds(clock', j)
    <3>1. Live(j) /\ j \notin S
      BY <1>7, <2>1
    <3>2. j # pending /\ j # transition
      BY <1>2, <3>1 DEF Live
    <3>. QED  BY <1>4, <1>5, <1>6, <3>1, <3>2
  <2>2. ASSUME NEW j \in Ids, Live(j)
        PROVE  /\ Kind(program[j]) # "effect"
               /\ task[j].st = "window" => pending = j
               /\ Kind(program[j]) = "transition" => transition = j
               /\ Kind(program[j]) = "off" => j = calls /\ task[j].st \in Sending
    BY <2>2 DEF Stage
  <2>. QED  BY <1>1, <2>1, <2>2 DEF Stage
<1>. QED  BY <1>9, <1>10, <1>11

-----------------------------------------------------------------------------
(* Every step keeps the tasks and their lines.                             *)

LEMMA LightFrame ==
  ASSUME Tasks, Lines, Stage, UNCHANGED lightVars PROVE Tasks' /\ Lines' /\ Stage'
<1>1. /\ program' = program /\ calls' = calls /\ task' = task /\ pending' = pending
      /\ transition' = transition /\ tlock' = tlock /\ clock' = clock
  BY DEF lightVars
<1>2. \A i : Live(i)' <=> Live(i)
  BY <1>1 DEF Live
<1>3. Tasks'
  BY <1>1, <1>2 DEF Tasks
<1>4. Lines'
  BY <1>1, <1>2 DEF Lines
<1>5. Stage'
  BY <1>1, <1>2 DEF Stage
<1>. QED  BY <1>3, <1>4, <1>5

\* Of the steps, these two groups change the light's side.
Elsewhere ==
  \/ SwitchTurned \/ PlugTask \/ connect \/ PlugConnect
  \/ (\E d \in {"light", "plug"} : disconnect(d)) \/ Daemon

LEMMA ElsewhereFrame == ASSUME Elsewhere PROVE UNCHANGED lightVars
BY DEF Elsewhere, SwitchTurned, PlugTask, DelayOver, PlugPost, PlugPoll, PlugPollFails,
   PlugBackoffOver, connect, PlugConnect, disconnect, Daemon, ReadPending, ReadFails, RemovePending,
   wifi_down, WifiStaysUp, _restart_bluetooth, execute_ble_command, wifi_up, WriteResult, DaemonOnly

LEMMA CallSteps ==
  ASSUME Tasks, Lines, Stage, async_turn_on \/ async_turn_off
  PROVE  /\ Tasks' /\ Lines' /\ Stage' /\ calls' = calls + 1
         /\ \E st \in {"window", "lock", "queued", "failed"} : Begins(st)
<1>1. calls < Len(program)
  BY DEF async_turn_on, async_turn_off
<1>2. PICK st \in {"window", "lock", "queued", "failed"} :
        /\ Begins(st)
        /\ st = "window" => Kind(program[calls + 1]) = "debounced"
        /\ st = "lock" => Kind(program[calls + 1]) = "transition"
        /\ st = "queued" => Kind(program[calls + 1]) = "off"
  <2>1. CASE async_turn_on
    BY <2>1 DEF async_turn_on
  <2>2. CASE async_turn_off
    BY <2>2 DEF async_turn_off
  <2>. QED  BY <2>1, <2>2
<1>3. calls' = calls + 1
  BY <1>2 DEF Begins
<1>4. Tasks' /\ Lines' /\ Stage'
  BY <1>1, <1>2, BeginsSteps, Zenon
<1>. QED  BY <1>2, <1>3, <1>4

LEMMA NextCases ==
  ASSUME [Next]_vars
  PROVE  \/ async_turn_on \/ async_turn_off \/ async_will_remove_from_hass
         \/ (\E i \in Ids : LightTask(i)) \/ Elsewhere \/ UNCHANGED vars
BY DEF Next, Elsewhere

LEMMA LightSteps ==
  ASSUME Tasks, Lines, Stage, Beliefs, [Next]_vars PROVE Tasks' /\ Lines' /\ Stage'
<1>1. ASSUME async_turn_on \/ async_turn_off PROVE Tasks' /\ Lines' /\ Stage'
  BY <1>1, CallSteps
<1>2. ASSUME async_will_remove_from_hass PROVE Tasks' /\ Lines' /\ Stage'
  BY <1>2, RemovalSteps
<1>3. ASSUME NEW i \in Ids, LightTask(i) PROVE Tasks' /\ Lines' /\ Stage'
  <2>1. Moves(i)
    BY <1>3, TaskMoves
  <2>2. Tasks'
    BY <2>1, MovesKeepTasks
  <2>3. Lines' /\ Stage'
    BY <2>1, MovesKeepLines
  <2>. QED  BY <2>2, <2>3
<1>4. ASSUME Elsewhere \/ UNCHANGED vars PROVE Tasks' /\ Lines' /\ Stage'
  <2>1. UNCHANGED lightVars
    BY <1>4, ElsewhereFrame DEF vars
  <2>. QED  BY <2>1, LightFrame
<1>. QED  BY <1>1, <1>2, <1>3, <1>4, NextCases

\* A call that has ended stays ended: who is live was live before, or begins.
LEMMA LiveBefore ==
  ASSUME Tasks, Lines, Stage, Beliefs, [Next]_vars
  PROVE  /\ program' = program /\ calls' \in {calls, calls + 1}
         /\ \A j \in Ids : Live(j)' => Live(j) \/ j = calls + 1
<1>0. calls \in Nat
  BY DEF Tasks
<1>1. ASSUME async_turn_on \/ async_turn_off
      PROVE  /\ program' = program /\ calls' = calls + 1
             /\ \A j \in Ids : task[j].st \in Ended => task'[j].st \in Ended
  <2>1. PICK st \in {"window", "lock", "queued", "failed"} : Begins(st)
    BY <1>1, CallSteps
  <2>2. PICK n : n = calls + 1
    OBVIOUS
  <2>3. PICK S, t : /\ program' = program /\ calls' = n
                    /\ task' = [Cancelled(S) EXCEPT ![n] = t]
    BY <2>1, <2>2 DEF Begins
  <2>4. ASSUME NEW j \in Ids, task[j].st \in Ended PROVE task'[j].st \in Ended
    <3>1. j # n
      <4>1. ~(j > calls)
        BY <2>4 DEF Tasks, Ended
      <4>. QED  BY <1>0, <2>2, <4>1
    <3>2. task'[j] = Cancelled(S)[j]
      BY <2>3, <3>1, CancelledTasks
    <3>3. Cancelled(S)[j].st = "cancelled" \/ Cancelled(S)[j] = task[j]
      BY CancelledTasks
    <3>. QED  BY <2>4, <3>2, <3>3 DEF Ended
  <2>. QED  BY <2>2, <2>3, <2>4
<1>2. ASSUME async_will_remove_from_hass
      PROVE  /\ program' = program /\ calls' = calls
             /\ \A j \in Ids : task[j].st \in Ended => task'[j].st \in Ended
  <2>1. PICK S : program' = program /\ calls' = calls /\ task' = Cancelled(S)
    BY <1>2 DEF async_will_remove_from_hass
  <2>2. ASSUME NEW j \in Ids, task[j].st \in Ended PROVE task'[j].st \in Ended
    <3>1. Cancelled(S)[j].st = "cancelled" \/ Cancelled(S)[j] = task[j]
      BY CancelledTasks
    <3>. QED  BY <2>1, <2>2, <3>1 DEF Ended
  <2>. QED  BY <2>1, <2>2
<1>3. ASSUME NEW i \in Ids, LightTask(i)
      PROVE  /\ program' = program /\ calls' = calls
             /\ \A j \in Ids : task[j].st \in Ended => task'[j].st \in Ended
  <2>1. Moves(i)
    BY <1>3, TaskMoves
  <2>. QED  BY <2>1 DEF Moves, Live
<1>4. ASSUME Elsewhere \/ UNCHANGED vars
      PROVE  /\ program' = program /\ calls' = calls
             /\ \A j \in Ids : task[j].st \in Ended => task'[j].st \in Ended
  <2>1. UNCHANGED lightVars
    BY <1>4, ElsewhereFrame DEF vars
  <2>. QED  BY <2>1 DEF lightVars
<1>5. /\ program' = program /\ calls' \in {calls, calls + 1}
      /\ \A j \in Ids : task[j].st \in Ended => task'[j].st \in Ended
  BY <1>1, <1>2, <1>3, <1>4, NextCases
<1>6. ASSUME NEW j \in Ids, Live(j)', j # calls + 1 PROVE Live(j)
  <2>1. j \in 1..calls' /\ task'[j].st \notin Ended
    BY <1>6 DEF Live
  <2>2. j \in 1..calls
    BY <1>0, <1>5, <1>6, <2>1
  <2>. QED  BY <1>5, <2>1, <2>2 DEF Live
<1>. QED  BY <1>5, <1>6

\* Whoever sends is the youngest call there is, but for debounced calls that a
\* plain turn_off passes.
LEMMA SenderInTurn ==
  ASSUME Tasks, Lines, Stage, NEW i \in Ids, Live(i), task[i].st \in Sending,
         NEW j \in Ids, Live(j)
  PROVE  InTurn(i, j)
<1> SUFFICES ASSUME j < i PROVE Overtakes(i, j)
  BY DEF InTurn
<1>1. j < i /\ i <= calls /\ calls \in Nat /\ i \in Nat /\ j \in Nat /\ j >= 1
  BY DEF Live, Ids, Tasks
<1>2. /\ Kind(program[j]) # "transition" /\ Kind(program[j]) # "off"
      /\ Kind(program[j]) # "effect" /\ task[j].st # "window"
  <2>1. /\ Kind(program[j]) = "transition" => transition = j
        /\ Kind(program[j]) = "off" => j = calls
        /\ task[j].st = "window" => pending = j
        /\ Kind(program[j]) # "effect"
    BY DEF Stage
  <2>2. transition \in {0, calls} /\ pending \in {0, calls}
    BY DEF Lines
  <2>. QED  BY <1>1, <2>1, <2>2
<1>3. Kind(program[j]) = "debounced"
  BY <1>2 DEF Kind
<1>4. Kind(program[i]) = "off"
  <2>1. ASSUME Kind(program[i]) # "off" PROVE FALSE
    <3>1. Holds(tlock, i) /\ j \in ToSet(tlock)
      BY <1>2, <2>1 DEF Stage
    <3>2. tlock \in Seq(Ids) /\ Rising(tlock)
      BY DEF Lines
    <3>3. i <= j
      BY <3>1, <3>2, HolderIsOldest
    <3>. QED  BY <1>1, <3>3
  <2>. QED  BY <2>1
<1>. QED  BY <1>3, <1>4 DEF Overtakes

-----------------------------------------------------------------------------
(* What the coordinator and the bridge device believe.                     *)

LEMMA Availability ==
  ASSUME Beliefs, NEW b \in BOOLEAN, state' = [state EXCEPT !.available = b], tracked' = tracked
  PROVE  Beliefs'
<1>1. /\ DOMAIN state' = {"shown", "available"} /\ state'.shown = state.shown
      /\ state'.available = b
  BY DEF Beliefs
<1>. QED  BY <1>1 DEF Beliefs

\* What a task gets done, and hears of it.
PollSucceeds(i) ==
  /\ tracked' = Tracked(task[i].cmd)
  /\ state' = [shown |-> _on_status_update(_fire_status(Tracked(task[i].cmd))),
               available |-> TRUE]
  /\ shownBy' = i

LEMMA DeviceCases ==
  ASSUME [Next]_vars
  PROVE  \/ UNCHANGED deviceVars
         \/ \E b \in BOOLEAN :
              state' = [state EXCEPT !.available = b] /\ UNCHANGED <<tracked, shownBy>>
         \/ \E i \in Ids : task[i].st = "polling" /\ Poll(i) /\ PollSucceeds(i)
<1>1. ASSUME async_turn_on \/ async_turn_off PROVE UNCHANGED deviceVars
  BY <1>1, Zenon DEF async_turn_on, async_turn_off, Begins
<1>2. ASSUME async_will_remove_from_hass PROVE UNCHANGED deviceVars
  BY <1>2, Zenon DEF async_will_remove_from_hass
<1>3. ASSUME NEW i \in Ids, LightTask(i)
      PROVE  \/ UNCHANGED deviceVars
             \/ \E b \in BOOLEAN :
                  state' = [state EXCEPT !.available = b] /\ UNCHANGED <<tracked, shownBy>>
             \/ Poll(i) /\ task[i].st = "polling" /\ PollSucceeds(i)
  <2>1. CASE Poll(i)
    BY <2>1, Zenon DEF Poll, PollSucceeds, _fire_disconnect
  <2>2. CASE ~Poll(i)
    BY <1>3, <2>2, Zenon DEF LightTask, WindowOver, LockTaken, PauseOver, Post, PollFails,
       BackoffOver
  <2>. QED  BY <2>1, <2>2
<1>4. ASSUME Elsewhere
      PROVE  \/ UNCHANGED deviceVars
             \/ \E b \in BOOLEAN :
                  state' = [state EXCEPT !.available = b] /\ UNCHANGED <<tracked, shownBy>>
  <2>1. CASE connect
    BY <2>1, Zenon DEF connect
  <2>2. CASE ~connect
    BY <1>4, <2>2 DEF Elsewhere, SwitchTurned, PlugTask, DelayOver, PlugPost, PlugPoll,
       PlugPollFails, PlugBackoffOver, PlugConnect, disconnect, Daemon, ReadPending, ReadFails,
       RemovePending, wifi_down, WifiStaysUp, _restart_bluetooth, execute_ble_command, wifi_up,
       WriteResult, DaemonOnly
  <2>. QED  BY <2>1, <2>2
<1>5. UNCHANGED vars => UNCHANGED deviceVars
  BY DEF vars
<1>. QED  BY <1>1, <1>2, <1>3, <1>4, <1>5, NextCases

LEMMA BeliefSteps == ASSUME Tasks, Beliefs, [Next]_vars PROVE Beliefs'
<1>1. ASSUME UNCHANGED deviceVars PROVE Beliefs'
  BY <1>1 DEF deviceVars, Beliefs
<1>2. ASSUME NEW b \in BOOLEAN, state' = [state EXCEPT !.available = b], tracked' = tracked
      PROVE  Beliefs'
  BY <1>2, Availability
<1>3. ASSUME NEW i \in Ids, task[i].st = "polling", PollSucceeds(i) PROVE Beliefs'
  <2>1. CommandTrue(task[i].cmd)
    <3>1. Live(i)
      BY <1>3, SomeStays DEF Waits
    <3>. QED  BY <1>3, <3>1 DEF Tasks, LiveTrue, Sending
  <2>2. PICK s, b : /\ s = _on_status_update(_fire_status(Tracked(task[i].cmd))) /\ b = TRUE
                    /\ state' = [shown |-> s, available |-> b]
    BY <1>3, Zenon DEF PollSucceeds
  <2>3. s \in LightState /\ tracked' \in LightState
    BY <1>3, <2>1, <2>2, StatusTyped, TrackedTyped, Zenon DEF PollSucceeds
  <2>4. /\ DOMAIN state' = {"shown", "available"} /\ state'.shown = s /\ state'.available = b
    BY <2>2
  <2>5. state'.available \in BOOLEAN
    BY <2>2, <2>4, Zenon
  <2>. QED  BY <2>3, <2>4, <2>5 DEF Beliefs
<1>. QED  BY <1>1, <1>2, <1>3, DeviceCases

-----------------------------------------------------------------------------
(* The order of the calls, from the tasks to the light.                    *)

\* What a step does to the chain: nothing; a request is put in the slot, or the
\* slot is emptied; the worker takes the slot's command, makes the light obey it,
\* or is done with it.
ChainSame == slot' = slot /\ daemon'.cmd = daemon.cmd /\ lightBy' = lightBy
Posts(i) ==
  /\ task[i].st = "queued" /\ daemon' = daemon /\ lightBy' = lightBy
  /\ slot' = slot \/ (Telink(slot') /\ slot'.by = i)
SlotOther ==
  ~Telink(slot') /\ daemon'.cmd = daemon.cmd /\ lightBy' = lightBy
Reads == slot' = slot /\ daemon'.cmd = slot /\ lightBy' = lightBy
Obeys ==
  /\ slot' = slot /\ daemon'.cmd = daemon.cmd
  /\ Telink(daemon.cmd) /\ lightBy' = daemon.cmd.by
Forgets == slot' = slot /\ ~Telink(daemon'.cmd) /\ lightBy' = lightBy

LEMMA DaemonSteps ==
  ASSUME DOMAIN daemon = {"pc", "cmd", "res"}, Daemon
  PROVE  ChainSame \/ SlotOther \/ Reads \/ Obeys \/ Forgets
<1>1. CASE ReadPending
  BY <1>1 DEF ReadPending, Reads
<1>2. CASE ReadFails
  BY <1>2 DEF ReadFails, SlotOther, NoCmd, Telink
<1>3. CASE RemovePending
  BY <1>3 DEF RemovePending, DaemonGoes, SlotOther, NoCmd, Telink
<1>4. CASE wifi_down
  BY <1>4 DEF wifi_down, DaemonGoes, ChainSame
<1>5. CASE WifiStaysUp
  BY <1>5 DEF WifiStaysUp, DaemonGoes, ChainSame
<1>6. CASE _restart_bluetooth
  BY <1>6 DEF _restart_bluetooth, DaemonGoes, ChainSame
<1>7. CASE execute_ble_command
  <2>1. PICK r : daemon' = [daemon EXCEPT !.pc = "up", !.res = r]
    BY <1>7, Zenon DEF execute_ble_command
  <2>2. daemon'.cmd = daemon.cmd
    BY <2>1
  <2>3. slot' = slot /\ (lightBy' = lightBy \/ (lightBy' = daemon.cmd.by /\ Telink(daemon.cmd)))
    BY <1>7 DEF execute_ble_command, Telink
  <2>. QED  BY <2>2, <2>3 DEF ChainSame, Obeys
<1>8. CASE wifi_up
  BY <1>8 DEF wifi_up, DaemonGoes, ChainSame
<1>9. CASE WriteResult
  BY <1>9 DEF WriteResult, Forgets, NoCmd, Telink
<1>. QED  BY <1>1, <1>2, <1>3, <1>4, <1>5, <1>6, <1>7, <1>8, <1>9 DEF Daemon

LEMMA ChainCases ==
  ASSUME DOMAIN daemon = {"pc", "cmd", "res"}, [Next]_vars
  PROVE  \/ ChainSame \/ SlotOther \/ Reads \/ Obeys \/ Forgets
         \/ \E i \in Ids : Posts(i)
<1>0. UNCHANGED daemonVars => ChainSame
  BY DEF daemonVars, ChainSame
<1>1. ASSUME async_turn_on \/ async_turn_off \/ async_will_remove_from_hass PROVE ChainSame
  BY <1>0, <1>1, Zenon DEF async_turn_on, async_turn_off, Begins, async_will_remove_from_hass
<1>2. ASSUME NEW i \in Ids, LightTask(i) PROVE ChainSame \/ Posts(i)
  <2>1. CASE Post(i)
    <3>1. task[i].st = "queued" /\ daemon' = daemon /\ lightBy' = lightBy
      BY <2>1 DEF Post, _http_post
    <3>2. slot' = slot \/ slot' = [type |-> "telink", action |-> task[i].cmd.action,
                                   value |-> task[i].cmd.value, by |-> i]
      BY <2>1, Zenon DEF Post, _http_post
    <3>3. slot' = slot \/ (Telink(slot') /\ slot'.by = i)
      BY <3>2 DEF Telink
    <3>. QED  BY <3>1, <3>3 DEF Posts
  <2>2. CASE ~Post(i)
    BY <1>0, <1>2, <2>2, Zenon DEF LightTask, WindowOver, LockTaken, PauseOver, Poll, PollFails,
       BackoffOver
  <2>. QED  BY <2>1, <2>2
<1>3. ASSUME Elsewhere PROVE ChainSame \/ SlotOther \/ Reads \/ Obeys \/ Forgets
  <2>1. CASE PlugPost
    <3>1. daemon' = daemon /\ lightBy' = lightBy
      BY <2>1 DEF PlugPost, _http_post
    <3>2. \/ slot' = slot
          \/ slot' = [type |-> "sig_mesh", action |-> PlugAction, value |-> 0, by |-> 0]
      BY <2>1, Zenon DEF PlugPost, _http_post
    <3>3. slot' = slot \/ ~Telink(slot')
      BY <3>2 DEF Telink
    <3>. QED  BY <3>1, <3>3 DEF ChainSame, SlotOther
  <2>2. CASE Daemon
    BY <2>2, DaemonSteps
  <2>3. CASE ~PlugPost /\ ~Daemon
    BY <1>0, <1>3, <2>3, Zenon DEF Elsewhere, SwitchTurned, PlugTask, DelayOver, PlugPoll,
       PlugPollFails, PlugBackoffOver, connect, PlugConnect, disconnect
  <2>. QED  BY <2>1, <2>2, <2>3
<1>4. UNCHANGED vars => ChainSame
  BY <1>0 DEF vars
<1>. QED  BY <1>1, <1>2, <1>3, <1>4, NextCases

LEMMA OrderSteps ==
  ASSUME Tasks, Lines, Stage, Beliefs, DaemonTrue, Order, [Next]_vars PROVE Order'
<1>1. /\ program' = program /\ \A j \in Ids : Live(j)' => Live(j) \/ j = calls + 1
  BY LiveBefore
<1>2. /\ calls \in Nat /\ lightBy \in 0..calls /\ shownBy \in 0..calls
      /\ Telink(slot) => slot.by \in 1..calls
      /\ Telink(daemon.cmd) => daemon.cmd.by \in 1..calls
  <2>1. \A c : CmdTrue(c) /\ Telink(c) => c.by \in 1..calls
    BY DEF CmdTrue, Telink, NoCmd
  <2>. QED  BY <2>1 DEF Tasks, DaemonTrue, BridgeTypes
\* A call that has just been made is younger than all.
<1>3. ASSUME NEW b \in 0..calls, \A j \in Ids : Live(j) => InTurn(b, j)
      PROVE  \A j \in Ids : Live(j)' => InTurn(b, j)
  BY <1>1, <1>2, <1>3 DEF InTurn
<1>4. PICK l, s, c, h : l = lightBy' /\ s = slot' /\ c = daemon'.cmd /\ h = shownBy'
  OBVIOUS
<1>5. \A j \in Ids : Live(j)' => InTurn(h, j)
  <2>1. CASE shownBy' = shownBy
    BY <1>2, <1>3, <1>4, <2>1 DEF Order
  <2>2. ASSUME NEW i \in Ids, task[i].st = "polling", shownBy' = i
        PROVE  \A j \in Ids : Live(j)' => InTurn(h, j)
    <3>1. Live(i) /\ i \in 0..calls
      BY <1>2, <2>2, SomeStays DEF Waits, Live
    <3>2. \A j \in Ids : Live(j) => InTurn(i, j)
      BY <2>2, <3>1, SenderInTurn DEF Sending
    <3>. QED  BY <1>3, <1>4, <2>2, <3>1, <3>2
  <2>. QED  BY <2>1, <2>2, DeviceCases DEF deviceVars, PollSucceeds
<1>6. /\ Telink(s) => InTurn(l, s.by)
      /\ Telink(c) => InTurn(l, c.by)
      /\ Telink(c) /\ Telink(s) => InTurn(c.by, s.by)
      /\ \A j \in Ids : Live(j)' =>
           /\ Telink(s) => InTurn(s.by, j)
           /\ Telink(c) => InTurn(c.by, j)
           /\ InTurn(l, j)
  <2>1. /\ Telink(slot) => \A j \in Ids : Live(j)' => InTurn(slot.by, j)
        /\ Telink(daemon.cmd) => \A j \in Ids : Live(j)' => InTurn(daemon.cmd.by, j)
        /\ \A j \in Ids : Live(j)' => InTurn(lightBy, j)
    <3>1. ASSUME Telink(slot) PROVE \A j \in Ids : Live(j)' => InTurn(slot.by, j)
      BY <1>2, <1>3, <3>1 DEF Order
    <3>2. ASSUME Telink(daemon.cmd) PROVE \A j \in Ids : Live(j)' => InTurn(daemon.cmd.by, j)
      BY <1>2, <1>3, <3>2 DEF Order
    <3>3. \A j \in Ids : Live(j)' => InTurn(lightBy, j)
      BY <1>2, <1>3 DEF Order
    <3>. QED  BY <3>1, <3>2, <3>3
  <2>2. CASE ChainSame
    BY <1>4, <2>1, <2>2 DEF ChainSame, Order
  <2>3. CASE SlotOther
    BY <1>4, <2>1, <2>3 DEF SlotOther, Order
  <2>4. CASE Reads
    <3>1. Telink(slot) => InTurn(slot.by, slot.by)
      BY <1>2 DEF InTurn
    <3>. QED  BY <1>4, <2>1, <2>4, <3>1 DEF Reads, Order
  <2>5. CASE Obeys
    <3>1. InTurn(daemon.cmd.by, daemon.cmd.by)
      BY <1>2, <2>5 DEF InTurn, Obeys
    <3>. QED  BY <1>4, <2>1, <2>5, <3>1 DEF Obeys, Order
  <2>6. CASE Forgets
    BY <1>4, <2>1, <2>6 DEF Forgets, Order
  <2>7. ASSUME NEW i \in Ids, Posts(i), slot' # slot
        PROVE  /\ Telink(s) => InTurn(l, s.by)
               /\ Telink(c) => InTurn(l, c.by)
               /\ Telink(c) /\ Telink(s) => InTurn(c.by, s.by)
               /\ \A j \in Ids : Live(j)' =>
                    /\ Telink(s) => InTurn(s.by, j)
                    /\ Telink(c) => InTurn(c.by, j)
                    /\ InTurn(l, j)
    <3>1. /\ task[i].st = "queued" /\ c = daemon.cmd /\ l = lightBy
          /\ Telink(s) /\ s.by = i
      BY <1>4, <2>7 DEF Posts
    <3>2. Live(i) /\ i \in 0..calls
      BY <1>2, <3>1, SomeStays DEF Waits, Live
    <3>3. \A j \in Ids : Live(j) => InTurn(i, j)
      BY <3>1, <3>2, SenderInTurn DEF Sending
    <3>4. \A j \in Ids : Live(j)' => InTurn(i, j)
      BY <1>3, <3>2, <3>3
    <3>5. InTurn(lightBy, i) /\ (Telink(daemon.cmd) => InTurn(daemon.cmd.by, i))
      BY <3>2 DEF Order
    <3>6. Telink(daemon.cmd) => InTurn(lightBy, daemon.cmd.by)
      BY DEF Order
    <3>. QED  BY <2>1, <3>1, <3>4, <3>5, <3>6
  <2>8. \A i \in Ids : Posts(i) /\ slot' = slot => ChainSame
    BY DEF Posts, ChainSame
  <2>. QED  BY <2>2, <2>3, <2>4, <2>5, <2>6, <2>7, <2>8, ChainCases DEF DaemonTrue
<1>. QED  BY <1>1, <1>4, <1>5, <1>6 DEF Order, InTurn, Overtakes, Telink

-----------------------------------------------------------------------------
(* The connections, the faults and the bridge.                             *)

LEMMA ConnectedCases ==
  ASSUME [Next]_vars
  PROVE  \/ UNCHANGED connected
         \/ \E d \in {"light", "plug"}, b \in BOOLEAN : connected' = [connected EXCEPT ![d] = b]
<1> DEFINE Changed ==
      \E d \in {"light", "plug"}, b \in BOOLEAN : connected' = [connected EXCEPT ![d] = b]
<1>1. ASSUME async_turn_on \/ async_turn_off \/ async_will_remove_from_hass
      PROVE  UNCHANGED connected
  BY <1>1, Zenon DEF async_turn_on, async_turn_off, Begins, async_will_remove_from_hass
<1>2. ASSUME NEW i \in Ids, LightTask(i) PROVE UNCHANGED connected \/ Changed
  BY <1>2, Zenon DEF LightTask, WindowOver, LockTaken, PauseOver, Post, Poll, PollFails, BackoffOver
<1>3. ASSUME Elsewhere PROVE UNCHANGED connected \/ Changed
  <2>1. CASE connect \/ PlugConnect \/ \E d \in {"light", "plug"} : disconnect(d)
    BY <2>1, Zenon DEF connect, PlugConnect, disconnect, Reached
  <2>2. CASE PlugTask
    BY <2>2, Zenon DEF PlugTask, DelayOver, PlugPost, PlugPoll, PlugPollFails, PlugBackoffOver
  <2>3. CASE Daemon \/ SwitchTurned
    BY <2>3, Zenon DEF Daemon, ReadPending, ReadFails, RemovePending, wifi_down, WifiStaysUp,
       _restart_bluetooth, execute_ble_command, wifi_up, WriteResult, DaemonOnly, SwitchTurned
  <2>. QED  BY <1>3, <2>1, <2>2, <2>3 DEF Elsewhere
<1>4. UNCHANGED vars => UNCHANGED connected
  BY DEF vars
<1>. QED  BY <1>1, <1>2, <1>3, <1>4, NextCases

LEMMA FaultCases == ASSUME [Next]_vars PROVE Fault \/ NoFault
<1>1. ASSUME async_turn_on \/ async_turn_off \/ async_will_remove_from_hass PROVE NoFault
  BY <1>1, Zenon DEF async_turn_on, async_turn_off, Begins, async_will_remove_from_hass, NoFault
<1>2. ASSUME NEW i \in Ids, LightTask(i) PROVE Fault \/ NoFault
  <2>1. CASE Post(i) \/ PollFails(i)
    BY <2>1, Zenon DEF Post, PollFails, _http_post
  <2>2. CASE ~(Post(i) \/ PollFails(i))
    BY <1>2, <2>2, Zenon DEF LightTask, WindowOver, LockTaken, PauseOver, Poll, BackoffOver, NoFault
  <2>. QED  BY <2>1, <2>2
<1>3. ASSUME Elsewhere PROVE Fault \/ NoFault
  <2>1. CASE connect \/ PlugConnect \/ \E d \in {"light", "plug"} : disconnect(d)
    BY <2>1, Zenon DEF connect, PlugConnect, disconnect, NoFault
  <2>2. CASE PlugTask
    BY <2>2, Zenon DEF PlugTask, DelayOver, PlugPost, PlugPoll, PlugPollFails, PlugBackoffOver,
       _http_post, NoFault
  <2>3. CASE Daemon \/ SwitchTurned
    BY <2>3, Zenon DEF Daemon, ReadPending, ReadFails, RemovePending, wifi_down, WifiStaysUp,
       _restart_bluetooth, execute_ble_command, wifi_up, WriteResult, SwitchTurned, NoFault
  <2>. QED  BY <1>3, <2>1, <2>2, <2>3 DEF Elsewhere
<1>4. UNCHANGED vars => NoFault
  BY DEF vars, NoFault
<1>. QED  BY <1>1, <1>2, <1>3, <1>4, NextCases

\* What the worker is at, and what it knows of the result.
Stages == {"idle", "read", "down", "bluetooth", "run", "up", "write"}
Statuses == {"none", "ON", "OFF"}
WorkerTrue(d) ==
  /\ DOMAIN d = {"pc", "cmd", "res"} /\ d.pc \in Stages
  /\ CmdTrue(d.cmd) /\ d.res.status \in Statuses

LEMMA WorkerSet ==
  ASSUME NEW d, WorkerTrue(d)
  PROVE  /\ \A pc \in Stages : WorkerTrue([d EXCEPT !.pc = pc])
         /\ \A s \in Statuses : \A ok, r :
              r = [type |-> d.cmd.type, action |-> d.cmd.action, success |-> ok, status |-> s]
                => WorkerTrue([d EXCEPT !.pc = "up", !.res = r])
         /\ \A pc \in Stages : \A c :
              CmdTrue(c) => WorkerTrue([pc |-> pc, cmd |-> c, res |-> NoResult])
<1>1. ASSUME NEW pc \in Stages PROVE WorkerTrue([d EXCEPT !.pc = pc])
  <2> DEFINE e == [d EXCEPT !.pc = pc]
  <2>1. DOMAIN e = DOMAIN d /\ e.pc = pc /\ e.cmd = d.cmd /\ e.res = d.res
    BY DEF WorkerTrue
  <2> HIDE DEF e
  <2>. QED  BY <2>1 DEF WorkerTrue, e
<1>2. ASSUME NEW s \in Statuses, NEW r, r.status = s
      PROVE  WorkerTrue([d EXCEPT !.pc = "up", !.res = r])
  <2> DEFINE e == [d EXCEPT !.pc = "up", !.res = r]
  <2>1. DOMAIN e = DOMAIN d /\ e.pc = "up" /\ e.cmd = d.cmd /\ e.res = r
    BY DEF WorkerTrue
  <2> HIDE DEF e
  <2>2. WorkerTrue(e)
    BY <1>2, <2>1 DEF WorkerTrue, Stages
  <2>. QED  BY <2>2 DEF e
<1>3. ASSUME NEW c, NEW pc \in Stages, CmdTrue(c)
      PROVE  WorkerTrue([pc |-> pc, cmd |-> c, res |-> NoResult])
  BY <1>3 DEF WorkerTrue, NoResult, Statuses
<1>4. \A ok, s, r :
        r = [type |-> d.cmd.type, action |-> d.cmd.action, success |-> ok, status |-> s]
          => r.status = s
  OBVIOUS
<1>. QED  BY <1>1, <1>2, <1>3, <1>4, Zenon

LEMMA WorkerSteps ==
  ASSUME CmdTrue(slot), WorkerTrue(daemon), Daemon, NEW d, d = daemon'
  PROVE  /\ WorkerTrue(d) /\ (slot' = slot \/ slot' = NoCmd)
         /\ last' = last \/ last' = daemon.res
         /\ wifi' = wifi \/ wifi' = TRUE \/ wifi' = FALSE
<1>1. /\ slot' = slot \/ slot' = NoCmd
      /\ last' = last \/ last' = daemon.res
      /\ wifi' = wifi \/ wifi' = TRUE \/ wifi' = FALSE
  BY Zenon DEF Daemon, ReadPending, ReadFails, RemovePending, wifi_down, WifiStaysUp,
     _restart_bluetooth, execute_ble_command, wifi_up, WriteResult
<1>2. CASE ReadPending \/ WriteResult
  <2>1. CmdTrue(NoCmd) /\ "read" \in Stages /\ "idle" \in Stages
    BY DEF CmdTrue, Stages
  <2>2. \E pc \in Stages : \E c : CmdTrue(c) /\ d = [pc |-> pc, cmd |-> c, res |-> NoResult]
    BY <1>2, <2>1, Zenon DEF ReadPending, WriteResult
  <2>. QED  BY <1>1, <2>2, WorkerSet, Zenon
<1>3. CASE ReadFails
  BY <1>1, <1>3 DEF ReadFails
<1>4. CASE RemovePending \/ wifi_down \/ WifiStaysUp \/ _restart_bluetooth \/ wifi_up
  <2>1. \E pc \in {"down", "bluetooth", "write", "run", "up"} : d = [daemon EXCEPT !.pc = pc]
    BY <1>4, Zenon DEF RemovePending, wifi_down, WifiStaysUp, _restart_bluetooth, wifi_up,
       DaemonGoes
  <2>2. {"down", "bluetooth", "write", "run", "up"} \subseteq Stages
    BY DEF Stages
  <2>3. PICK pc \in Stages : d = [daemon EXCEPT !.pc = pc]
    BY <2>1, <2>2
  <2>4. WorkerTrue([daemon EXCEPT !.pc = pc])
    BY WorkerSet
  <2>. QED  BY <1>1, <2>3, <2>4
<1>5. CASE execute_ble_command
  <2>1. \A a : OnOff(a) \in Statuses
    BY DEF OnOff, Statuses
  <2>2. "none" \in Statuses
    BY DEF Statuses
  <2>3. ASSUME NEW ok PROVE \E s \in Statuses : _execute_telink(ok) = Result(ok, s)
    BY <2>1, <2>2, Zenon DEF _execute_telink
  <2>4. ASSUME NEW ok, NEW heard
        PROVE  \E s \in Statuses : _execute_sig_mesh(ok, heard) = Result(ok, s)
    BY <2>1, <2>2, Zenon DEF _execute_sig_mesh
  <2>5. PICK r : /\ d = [daemon EXCEPT !.pc = "up", !.res = r]
                 /\ \/ \E ok : r = _execute_telink(ok)
                    \/ \E ok, heard : r = _execute_sig_mesh(ok, heard)
    BY <1>5, Zenon DEF execute_ble_command
  <2>6. PICK s \in Statuses : \E ok : r = Result(ok, s)
    BY <2>3, <2>4, <2>5
  <2>7. PICK ok : r = [type |-> daemon.cmd.type, action |-> daemon.cmd.action, success |-> ok,
                       status |-> s]
    BY <2>6 DEF Result
  <2>8. WorkerTrue([daemon EXCEPT !.pc = "up", !.res = r])
    BY <2>7, WorkerSet
  <2>. QED  BY <1>1, <2>5, <2>8
<1>. QED  BY <1>2, <1>3, <1>4, <1>5 DEF Daemon

LEMMA ServerCases ==
  ASSUME [Next]_vars
  PROVE  \/ UNCHANGED <<slot, daemon, wifi, last>>
         \/ UNCHANGED <<daemon, wifi, last>> /\ \E i \in Ids :
              /\ task[i].st = "queued"
              /\ slot' = [type |-> "telink", action |-> task[i].cmd.action,
                          value |-> task[i].cmd.value, by |-> i]
         \/ /\ UNCHANGED <<daemon, wifi, last>>
            /\ slot' = [type |-> "sig_mesh", action |-> PlugAction, value |-> 0, by |-> 0]
         \/ Daemon
<1>0. UNCHANGED daemonVars => UNCHANGED <<slot, daemon, wifi, last>>
  BY DEF daemonVars
<1>1. ASSUME async_turn_on \/ async_turn_off \/ async_will_remove_from_hass
      PROVE  UNCHANGED daemonVars
  BY <1>1, Zenon DEF async_turn_on, async_turn_off, Begins, async_will_remove_from_hass
<1>2. ASSUME NEW i \in Ids, LightTask(i)
      PROVE  \/ UNCHANGED <<slot, daemon, wifi, last>>
             \/ /\ UNCHANGED <<daemon, wifi, last>> /\ task[i].st = "queued"
                /\ slot' = [type |-> "telink", action |-> task[i].cmd.action,
                            value |-> task[i].cmd.value, by |-> i]
  <2>1. CASE Post(i)
    <3>1. task[i].st = "queued" /\ UNCHANGED <<daemon, wifi, last>>
      BY <2>1 DEF Post, _http_post
    <3>2. slot' = slot \/ slot' = [type |-> "telink", action |-> task[i].cmd.action,
                                   value |-> task[i].cmd.value, by |-> i]
      BY <2>1, Zenon DEF Post, _http_post
    <3>. QED  BY <3>1, <3>2
  <2>2. CASE ~Post(i)
    <3>1. UNCHANGED daemonVars
      BY <1>2, <2>2, Zenon DEF LightTask, WindowOver, LockTaken, PauseOver, Poll, PollFails,
         BackoffOver
    <3>. QED  BY <1>0, <3>1
  <2>. QED  BY <2>1, <2>2
<1>3. ASSUME Elsewhere, ~Daemon
      PROVE  \/ UNCHANGED <<slot, daemon, wifi, last>>
             \/ /\ UNCHANGED <<daemon, wifi, last>>
                /\ slot' = [type |-> "sig_mesh", action |-> PlugAction, value |-> 0, by |-> 0]
  <2>1. CASE PlugPost
    <3>1. UNCHANGED <<daemon, wifi, last>>
      BY <2>1 DEF PlugPost, _http_post
    <3>2. \/ slot' = slot
          \/ slot' = [type |-> "sig_mesh", action |-> PlugAction, value |-> 0, by |-> 0]
      BY <2>1, Zenon DEF PlugPost, _http_post
    <3>. QED  BY <3>1, <3>2
  <2>2. CASE ~PlugPost
    <3>1. UNCHANGED daemonVars
      BY <1>3, <2>2, Zenon DEF Elsewhere, SwitchTurned, PlugTask, DelayOver, PlugPoll,
         PlugPollFails, PlugBackoffOver, connect, PlugConnect, disconnect
    <3>. QED  BY <1>0, <3>1
  <2>. QED  BY <2>1, <2>2
<1>4. UNCHANGED vars => UNCHANGED daemonVars
  BY DEF vars
<1>. QED  BY <1>0, <1>1, <1>2, <1>3, <1>4, NextCases

LEMMA CmdLasts ==
  ASSUME calls \in Nat, calls' \in {calls, calls + 1}, NEW c, CmdTrue(c) PROVE CmdTrue(c)'
<1>1. 1..calls \subseteq 1..calls'
  OBVIOUS
<1>. QED  BY <1>1 DEF CmdTrue

LEMMA SlotTyped ==
  ASSUME Tasks, CmdTrue(slot), WorkerTrue(daemon), [Next]_vars, NEW s, s = slot'
  PROVE  CmdTrue(s)
<1>1. CmdTrue(NoCmd)
  BY DEF CmdTrue
<1>2. ASSUME NEW i \in Ids, task[i].st = "queued",
             s = [type |-> "telink", action |-> task[i].cmd.action,
                  value |-> task[i].cmd.value, by |-> i]
      PROVE  CmdTrue(s)
  <2>1. Live(i)
    BY <1>2, SomeStays DEF Waits
  <2>2. CommandTrue(task[i].cmd) /\ i \in 1..calls
    BY <1>2, <2>1 DEF Tasks, LiveTrue, Sending, Live
  <2>3. task[i].cmd.action \in Actions
    BY <2>2 DEF CommandTrue, Actions
  <2>. QED  BY <1>2, <2>2, <2>3 DEF CmdTrue
<1>3. ASSUME s = [type |-> "sig_mesh", action |-> PlugAction, value |-> 0, by |-> 0]
      PROVE  CmdTrue(s)
  BY <1>3 DEF CmdTrue, PlugAction, Actions
<1>4. ASSUME Daemon PROVE CmdTrue(s)
  <2>1. slot' = slot \/ slot' = NoCmd
    BY <1>4, WorkerSteps
  <2>. QED  BY <1>1, <2>1
<1>. QED  BY <1>2, <1>3, <1>4, ServerCases

LEMMA BridgeSteps ==
  ASSUME Tasks, Lines, Stage, Beliefs, DaemonTrue, [Next]_vars PROVE DaemonTrue'
<1>1. calls \in Nat /\ calls' \in {calls, calls + 1}
  BY LiveBefore DEF Tasks
<1>2. CmdTrue(slot) /\ WorkerTrue(daemon)
  BY DEF DaemonTrue, BridgeTypes, WorkerTrue, Stages, Statuses
<1>3. PICK s, d : s = slot' /\ d = daemon'
  OBVIOUS
<1>4. CmdTrue(s) /\ WorkerTrue(d)
  <2>1. CmdTrue(s)
    BY <1>2, <1>3, SlotTyped
  <2>2. daemon' = daemon \/ Daemon
    BY ServerCases
  <2>3. ASSUME Daemon PROVE WorkerTrue(d)
    BY <1>2, <1>3, <2>3, WorkerSteps
  <2>. QED  BY <1>2, <1>3, <2>1, <2>2, <2>3
<1>5. CmdTrue(slot)' /\ CmdTrue(daemon.cmd)'
  <2>1. \A c : CmdTrue(c) => CmdTrue(c)'
    BY <1>1, CmdLasts
  <2>2. CmdTrue(d.cmd)
    BY <1>4 DEF WorkerTrue
  <2>. QED  BY <1>3, <1>4, <2>1, <2>2 DEF CmdTrue
<1>6. wifi' \in BOOLEAN
  <2>1. wifi \in BOOLEAN
    BY DEF DaemonTrue, BridgeTypes
  <2>2. wifi' = wifi \/ wifi' = TRUE \/ wifi' = FALSE
    BY <1>2, <1>3, ServerCases, WorkerSteps
  <2>. QED  BY <2>1, <2>2, Zenon
<1>7. last'.status \in {"none", "ON", "OFF"}
  <2>1. last' = last \/ last' = daemon.res
    BY <1>2, <1>3, ServerCases, WorkerSteps
  <2>. QED  BY <2>1 DEF DaemonTrue, BridgeTypes
<1>8. connected' \in [{"light", "plug"} -> BOOLEAN]
  <2>1. connected \in [{"light", "plug"} -> BOOLEAN]
    BY DEF DaemonTrue, BridgeTypes
  <2>2. ASSUME NEW e \in {"light", "plug"}, NEW b \in BOOLEAN
        PROVE  [connected EXCEPT ![e] = b] \in [{"light", "plug"} -> BOOLEAN]
    BY <2>1
  <2>. QED  BY <2>1, <2>2, ConnectedCases
<1>9. faults' \in 0..MaxFaults
  BY FaultCases, BridgeAssumption DEF DaemonTrue, BridgeTypes, Fault, NoFault
<1>10. lightBy' \in 0..calls'
  <2>1. lightBy \in 0..calls
    BY DEF DaemonTrue, BridgeTypes
  <2>2. lightBy' = lightBy \/ (Telink(daemon.cmd) /\ lightBy' = daemon.cmd.by)
    BY ChainCases DEF DaemonTrue, ChainSame, SlotOther, Reads, Obeys, Forgets, Posts
  <2>3. Telink(daemon.cmd) => daemon.cmd.by \in 1..calls
    BY DEF DaemonTrue, CmdTrue, NoCmd, Telink
  <2>. QED  BY <1>1, <2>1, <2>2, <2>3
<1>11. shownBy' \in 0..calls'
  <2>1. shownBy \in 0..calls
    BY DEF DaemonTrue, BridgeTypes
  <2>2. ASSUME NEW i \in Ids, task[i].st = "polling" PROVE i \in 1..calls
    BY <2>2, SomeStays DEF Waits, Live
  <2>3. shownBy' = shownBy \/ shownBy' \in 1..calls
    BY <2>2, DeviceCases DEF deviceVars, PollSucceeds
  <2>. QED  BY <1>1, <2>1, <2>3
<1>12. slot' = NoCmd \/ slot'.action \in Actions
  BY <1>3, <1>4 DEF CmdTrue
<1>13. /\ DOMAIN daemon' = {"pc", "cmd", "res"} /\ daemon'.res.status \in {"none", "ON", "OFF"}
       /\ daemon'.pc \in {"idle", "read", "down", "bluetooth", "run", "up", "write"}
  BY <1>3, <1>4 DEF WorkerTrue, Stages, Statuses
<1>. QED  BY <1>5, <1>6, <1>7, <1>8, <1>9, <1>10, <1>11, <1>12, <1>13 DEF DaemonTrue, BridgeTypes

-----------------------------------------------------------------------------
(* The plug.                                                               *)

PlugCall(p) ==
  /\ DOMAIN p = {"st", "on", "outer", "attempt", "polls"}
  /\ p.outer \in 0..command_retries /\ p.attempt \in 0..max_retries /\ p.polls \in 0..MaxPolls
PlugFine(p) ==
  /\ PlugCall(p) /\ p.st \in {"idle", "posting", "polling", "backoff", "waiting"}
  /\ p.st = "backoff" => p.attempt < max_retries
  /\ p.st = "waiting" => p.outer < command_retries

LEMMA NoCallFine == PlugFine(NoCall)
BY BridgeAssumption DEF PlugFine, PlugCall, NoCall

\* The next attempt at a call, which counts it already.
LEMMA SendFine ==
  ASSUME NEW p, PlugCall(p), send_command_with_retry(p), NEW e, e = plug' PROVE PlugFine(e)
<1>1. CASE e = [p EXCEPT !.st = "posting", !.attempt = 1]
  <2>1. /\ DOMAIN e = DOMAIN p /\ e.st = "posting" /\ e.attempt = 1 /\ e.outer = p.outer
        /\ e.polls = p.polls
    BY <1>1 DEF PlugCall
  <2>. QED  BY <2>1, BridgeAssumption DEF PlugFine, PlugCall
<1>2. CASE e = [p EXCEPT !.st = "waiting"] /\ p.outer < command_retries
  <2>1. /\ DOMAIN e = DOMAIN p /\ e.st = "waiting" /\ e.attempt = p.attempt /\ e.outer = p.outer
        /\ e.polls = p.polls
    BY <1>2 DEF PlugCall
  <2>. QED  BY <1>2, <2>1 DEF PlugFine, PlugCall
<1>3. CASE e = NoCall
  BY <1>3, NoCallFine
<1>4. \/ e = [p EXCEPT !.st = "posting", !.attempt = 1]
      \/ e = [p EXCEPT !.st = "waiting"] /\ p.outer < command_retries
      \/ e = NoCall
  BY Zenon DEF send_command_with_retry
<1>. QED  BY <1>1, <1>2, <1>3, <1>4

LEMMA RaisesFine == ASSUME PlugFine(plug), PlugRaises, NEW e, e = plug' PROVE PlugFine(e)
<1>1. CASE plug.outer < command_retries
  <2>1. e = [plug EXCEPT !.st = "waiting", !.attempt = 0, !.polls = 0]
    BY <1>1, Zenon DEF PlugRaises
  <2>2. /\ DOMAIN e = DOMAIN plug /\ e.st = "waiting" /\ e.attempt = 0 /\ e.outer = plug.outer
        /\ e.polls = 0
    BY <2>1 DEF PlugFine, PlugCall
  <2>. QED  BY <1>1, <2>2, BridgeAssumption DEF PlugFine, PlugCall
<1>2. CASE ~(plug.outer < command_retries)
  <2>1. e = NoCall
    BY <1>2, Zenon DEF PlugRaises
  <2>. QED  BY <2>1, NoCallFine
<1>. QED  BY <1>1, <1>2

LEMMA RetriesFine == ASSUME PlugFine(plug), PlugRetries, NEW e, e = plug' PROVE PlugFine(e)
<1>1. CASE plug.attempt < max_retries
  <2>1. e = [plug EXCEPT !.st = "backoff", !.polls = 0]
    BY <1>1, Zenon DEF PlugRetries
  <2>2. /\ DOMAIN e = DOMAIN plug /\ e.st = "backoff" /\ e.attempt = plug.attempt
        /\ e.outer = plug.outer /\ e.polls = 0
    BY <2>1 DEF PlugFine, PlugCall
  <2>. QED  BY <1>1, <2>2, BridgeAssumption DEF PlugFine, PlugCall
<1>2. CASE ~(plug.attempt < max_retries)
  BY <1>2, RaisesFine DEF PlugRetries
<1>. QED  BY <1>1, <1>2

LEMMA PlugCases ==
  ASSUME [Next]_vars
  PROVE  UNCHANGED <<plug, plugState>> \/ PlugConnect \/ SwitchTurned \/ PlugTask
<1>1. UNCHANGED plugVars => UNCHANGED <<plug, plugState>>
  BY DEF plugVars
<1>2. ASSUME async_turn_on \/ async_turn_off \/ async_will_remove_from_hass
      PROVE  UNCHANGED plugVars
  BY <1>2, Zenon DEF async_turn_on, async_turn_off, Begins, async_will_remove_from_hass
<1>3. ASSUME NEW i \in Ids, LightTask(i) PROVE UNCHANGED plugVars
  BY <1>3, Zenon DEF LightTask, WindowOver, LockTaken, PauseOver, Post, Poll, PollFails, BackoffOver
<1>4. ASSUME connect \/ (\E d \in {"light", "plug"} : disconnect(d)) \/ Daemon
      PROVE  UNCHANGED plugVars
  BY <1>4, Zenon DEF connect, disconnect, Daemon, ReadPending, ReadFails, RemovePending, wifi_down,
     WifiStaysUp, _restart_bluetooth, execute_ble_command, wifi_up, WriteResult, DaemonOnly
<1>5. UNCHANGED vars => UNCHANGED plugVars
  BY DEF vars
<1>. QED  BY <1>1, <1>2, <1>3, <1>4, <1>5, NextCases DEF Elsewhere

LEMMA PlugGoesOn ==
  ASSUME PlugFine(plug), SwitchTurned \/ PlugTask, NEW e, e = plug' PROVE PlugFine(e)
<1>1. CASE SwitchTurned
  <2> DEFINE p == [NoCall EXCEPT !.on = Head(switches), !.outer = 1]
  <2>1. DOMAIN p = {"st", "on", "outer", "attempt", "polls"}
        /\ p.outer = 1 /\ p.attempt = 0 /\ p.polls = 0
    BY DEF NoCall
  <2>2. send_command_with_retry(p)
    BY <1>1, Zenon DEF SwitchTurned
  <2> HIDE DEF p
  <2>3. PlugCall(p)
    BY <2>1, BridgeAssumption DEF PlugCall
  <2>. QED  BY <2>2, <2>3, SendFine
<1>2. CASE DelayOver
  <2> DEFINE p == [plug EXCEPT !.outer = @ + 1]
  <2>1. DOMAIN p = DOMAIN plug /\ p.outer = plug.outer + 1 /\ p.attempt = plug.attempt
        /\ p.polls = plug.polls
    BY DEF PlugFine, PlugCall
  <2>2. send_command_with_retry(p) /\ plug.st = "waiting"
    BY <1>2, Zenon DEF DelayOver
  <2> HIDE DEF p
  <2>3. PlugCall(p)
    BY <2>1, <2>2, BridgeAssumption DEF PlugCall, PlugFine
  <2>. QED  BY <2>2, <2>3, SendFine
<1>3. CASE PlugPost
  <2>1. PlugRaises \/ e = [plug EXCEPT !.st = "polling", !.polls = 0]
    BY <1>3, Zenon DEF PlugPost
  <2>2. ASSUME e = [plug EXCEPT !.st = "polling", !.polls = 0] PROVE PlugFine(e)
    <3>1. /\ DOMAIN e = DOMAIN plug /\ e.st = "polling" /\ e.attempt = plug.attempt
          /\ e.outer = plug.outer /\ e.polls = 0
      BY <2>2 DEF PlugFine, PlugCall
    <3>. QED  BY <3>1, BridgeAssumption DEF PlugFine, PlugCall
  <2>. QED  BY <2>1, <2>2, RaisesFine
<1>4. CASE PlugPoll
  <2>1. \/ e = NoCall \/ PlugRetries
        \/ plug.st = "polling" /\ plug.polls + 1 < MaxPolls /\ e = [plug EXCEPT !.polls = @ + 1]
    BY <1>4, Zenon DEF PlugPoll
  <2>2. ASSUME plug.polls + 1 < MaxPolls, plug.st = "polling", e = [plug EXCEPT !.polls = @ + 1]
        PROVE  PlugFine(e)
    <3>1. /\ DOMAIN e = DOMAIN plug /\ e.st = "polling" /\ e.attempt = plug.attempt
          /\ e.outer = plug.outer /\ e.polls = plug.polls + 1
      BY <2>2 DEF PlugFine, PlugCall
    <3>. QED  BY <2>2, <3>1, BridgeAssumption DEF PlugFine, PlugCall
  <2>. QED  BY <2>1, <2>2, NoCallFine, RetriesFine
<1>5. CASE PlugPollFails
  BY <1>5, RaisesFine DEF PlugPollFails
<1>6. CASE PlugBackoffOver
  <2>1. plug.st = "backoff" /\ e = [plug EXCEPT !.st = "posting", !.attempt = @ + 1]
    BY <1>6, Zenon DEF PlugBackoffOver
  <2>2. /\ DOMAIN e = DOMAIN plug /\ e.st = "posting" /\ e.attempt = plug.attempt + 1
        /\ e.outer = plug.outer /\ e.polls = plug.polls
    BY <2>1 DEF PlugFine, PlugCall
  <2>. QED  BY <2>1, <2>2, BridgeAssumption DEF PlugFine, PlugCall
<1>. QED  BY <1>1, <1>2, <1>3, <1>4, <1>5, <1>6 DEF PlugTask

LEMMA PlugSteps == ASSUME PlugTrue, [Next]_vars PROVE PlugTrue'
<1> DEFINE Shown == [is_on: BOOLEAN, available: BOOLEAN]
<1>1. PlugFine(plug) /\ plugState \in Shown
  BY DEF PlugTrue, PlugTypes, PlugFine, PlugCall
<1>2. PICK e : e = plug'
  OBVIOUS
<1>3. PlugFine(e)
  <2>1. plug' = plug \/ SwitchTurned \/ PlugTask
    BY PlugCases DEF PlugConnect
  <2>. QED  BY <1>1, <1>2, <2>1, PlugGoesOn
<1>4. plugState' \in Shown
  <2>1. ASSUME NEW b \in BOOLEAN PROVE [plugState EXCEPT !.available = b] \in Shown
    BY <1>1
  <2>2. ASSUME NEW a \in BOOLEAN, NEW b \in BOOLEAN PROVE [is_on |-> a, available |-> b] \in Shown
    OBVIOUS
  <2>3. \/ plugState' = plugState
        \/ \E b \in BOOLEAN : plugState' = [plugState EXCEPT !.available = b]
        \/ \E a, b \in BOOLEAN : plugState' = [is_on |-> a, available |-> b]
    <3>1. CASE UNCHANGED <<plug, plugState>>
      BY <3>1
    <3>2. CASE PlugConnect
      BY <3>2, Zenon DEF PlugConnect
    <3>3. CASE PlugPoll
      <4>1. (last.status = "ON") \in BOOLEAN
        OBVIOUS
      <4>. QED  BY <3>3, <4>1, Zenon DEF PlugPoll
    <3>4. CASE SwitchTurned \/ DelayOver \/ PlugPost \/ PlugPollFails \/ PlugBackoffOver
      BY <3>4, Zenon DEF SwitchTurned, DelayOver, PlugPost, PlugPollFails, PlugBackoffOver
    <3>. QED  BY <3>1, <3>2, <3>3, <3>4, PlugCases DEF PlugTask
  <2> HIDE DEF Shown
  <2>. QED  BY <1>1, <2>1, <2>2, <2>3
<1>5. plugState' \in [is_on: BOOLEAN, available: BOOLEAN]
  BY <1>4
<1>6. /\ DOMAIN plug' = {"st", "on", "outer", "attempt", "polls"}
      /\ plug'.outer \in 0..command_retries /\ plug'.attempt \in 0..max_retries
      /\ plug'.polls \in 0..MaxPolls
      /\ plug'.st \in {"idle", "posting", "polling", "backoff", "waiting"}
      /\ plug'.st = "backoff" => plug'.attempt < max_retries
      /\ plug'.st = "waiting" => plug'.outer < command_retries
  BY <1>2, <1>3 DEF PlugFine, PlugCall
<1>. QED  BY <1>5, <1>6 DEF PlugTrue, PlugTypes

-----------------------------------------------------------------------------
(* The theorems.                                                           *)

LEMMA InitInv == Init => IInv
<1> SUFFICES ASSUME Init PROVE IInv
  OBVIOUS
<1>1. /\ calls = 0 /\ \A i : ~Live(i)
      /\ \A i \in Ids : task[i] = NoTask /\ NoTask.st = "none" /\ i > 0
  BY DEF Init, Live, Ids, NoTask
<1>2. PICK p \in Programs : program = p.light
  BY DEF Init
<1>3. Tasks
  <2>1. program \in Seq(Calls) /\ Len(program) <= MaxCalls /\ calls \in 0..Len(program)
    BY <1>1, <1>2, ProgramsAssumption
  <2>2. Off \in LightState
    BY DEF Off, LightState
  <2>3. TaskTrue(NoTask)
    BY <2>2, BridgeAssumption DEF TaskTrue, NoTask, Fields
  <2>4. DOMAIN task = Ids
    BY DEF Init
  <2>. QED  BY <1>1, <1>2, <2>1, <2>3, <2>4 DEF Tasks, Waits
<1>4. Lines
  <2>1. <<>> \in Seq(Ids) /\ IsInjective(<<>>) /\ Rising(<<>>) /\ ToSet(<<>>) = {}
    BY DEF IsInjective, Rising, ToSet
  <2>2. tlock = <<>> /\ clock = <<>> /\ pending = 0 /\ transition = 0
    BY DEF Init
  <2>. QED  BY <2>1, <2>2 DEF Lines
<1>5. Stage
  BY <1>1 DEF Stage
<1>6. Beliefs
  <2>1. PICK b \in BOOLEAN : state = [shown |-> Off, available |-> b]
    BY Zenon DEF Init
  <2>2. tracked = Off
    BY DEF Init
  <2>. QED  BY <2>1, <2>2 DEF Beliefs, Off, LightState
<1>7. PlugTrue
  <2>1. plug = NoCall
    BY DEF Init
  <2>2. PlugFine(plug)
    BY <2>1, NoCallFine
  <2>3. PICK a \in BOOLEAN, b \in BOOLEAN : plugState = [is_on |-> a, available |-> b]
    BY Zenon DEF Init
  <2>4. plugState \in [is_on: BOOLEAN, available: BOOLEAN]
    BY <2>3
  <2>. QED  BY <2>2, <2>4 DEF PlugTrue, PlugTypes, PlugFine, PlugCall
<1>8. DaemonTrue
  <2>1. wifi \in BOOLEAN
    BY Zenon DEF Init
  <2>2. PICK b \in BOOLEAN : connected = [d \in {"light", "plug"} |-> b]
    BY Zenon DEF Init
  <2>3. connected \in [{"light", "plug"} -> BOOLEAN]
    BY <2>2
  <2>4. slot = NoCmd /\ CmdTrue(NoCmd)
    BY DEF Init, CmdTrue
  <2>5. /\ DOMAIN daemon = {"pc", "cmd", "res"} /\ daemon.cmd = NoCmd /\ daemon.pc = "idle"
        /\ daemon.res = NoResult /\ last = NoResult /\ NoResult.status = "none"
    BY DEF Init, NoResult
  <2>6. faults = 0 /\ lightBy = 0 /\ shownBy = 0
    BY DEF Init
  <2>. QED  BY <1>1, <2>1, <2>3, <2>4, <2>5, <2>6, BridgeAssumption DEF DaemonTrue, BridgeTypes
<1>9. Order
  <2>1. ~Telink(slot) /\ ~Telink(daemon.cmd)
    BY DEF Init, Telink, NoCmd
  <2>. QED  BY <1>1, <2>1 DEF Order
<1>. QED  BY <1>3, <1>4, <1>5, <1>6, <1>7, <1>8, <1>9 DEF IInv

LEMMA NextInv == IInv /\ [Next]_vars => IInv'
<1> SUFFICES ASSUME IInv, [Next]_vars PROVE IInv'
  OBVIOUS
<1>1. Tasks' /\ Lines' /\ Stage'
  BY LightSteps DEF IInv
<1>2. Beliefs'
  BY BeliefSteps DEF IInv
<1>3. PlugTrue'
  BY PlugSteps DEF IInv
<1>4. DaemonTrue'
  BY BridgeSteps DEF IInv
<1>5. Order'
  BY OrderSteps DEF IInv
<1>. QED  BY <1>1, <1>2, <1>3, <1>4, <1>5 DEF IInv

\* The tasks of the light entity, the lines they stand in and the commands on
\* their way over the bridge keep to IInv (light.py: TuyaBLEMeshLight,
\* sig_mesh_bridge.py, ble_mesh_daemon.py).
THEOREM Invariant == Spec => []IInv
BY InitInv, NextInv, PTL DEF Spec

LEMMA LockTyped ==
  ASSUME NEW q \in Seq(Ids), \A i \in ToSet(q) : Live(i) PROVE q \in Seq(1..calls)
<1> DEFINE S == 1..calls
<1>1. Len(q) \in Nat /\ DOMAIN q = 1..Len(q) /\ q = [k \in 1..Len(q) |-> q[k]]
  OBVIOUS
<1>2. \A k \in 1..Len(q) : q[k] \in S
  BY <1>1 DEF ToSet, Live
<1> HIDE DEF S
<1>3. q \in Seq(S)
  BY <1>1, <1>2
<1>. QED  BY <1>3 DEF S

LEMMA ShownTyped == ASSUME Beliefs PROVE ShownTypes
<1>1. PICK s \in LightState : s = state.shown
  BY DEF Beliefs
<1>2. s.brightness \in Int /\ s.color_temp \in Int
      /\ s.color_brightness \in 0..255 /\ s.rgb \in 0..255
  BY DEF LightState
<1>3. brightness(s) \in 0..255 \cup {None}
  <2>1. PICK v : v = brightness_to_ha(s.brightness)
    OBVIOUS
  <2>2. v \in Int /\ 0 <= v /\ v <= 255
    BY <1>2, <2>1, BrightnessToHA
  <2>. QED  BY <1>2, <2>1, <2>2 DEF brightness
<1>4. rgb_color(s) \in 0..255 \cup {None}
  BY <1>2 DEF rgb_color
<1>5. color_temp_kelvin(s) \in 2703..6536 \cup {None}
  <2> DEFINE m == color_temp_to_ha(s.color_temp)
             k == Round(1000000, m)
  <2>1. m \in Int /\ 153 <= m /\ m <= 370
    BY <1>2, ColorTempToHA
  <2> HIDE DEF m
  <2>2. k \in Int /\ 2703 <= k /\ k <= 6536
    BY <2>1, Kelvin
  <2>3. color_temp_kelvin(s) \in {None, k}
    BY DEF color_temp_kelvin, m
  <2> HIDE DEF k
  <2> DEFINE S == 2703..6536
  <2>4. k \in S
    BY <2>2
  <2> HIDE DEF S
  <2>5. color_temp_kelvin(s) \in S \cup {None}
    BY <2>3, <2>4
  <2>. QED  BY <2>5 DEF S
<1>. QED  BY <1>1, <1>3, <1>4, <1>5 DEF ShownTypes, Beliefs

\* Values keep to their ranges for every program of calls: attempts and polls to
\* their limits, a task to one place in a lock's line, what is shown to what Home
\* Assistant expects (light.py 135-195, sig_mesh_bridge.py _send_telink_cmd).
THEOREM TypeCorrect == Spec => []TypeOK
<1>1. IInv => TypeOK
  <2> SUFFICES ASSUME IInv PROVE TypeOK
    OBVIOUS
  <2> USE DEF IInv
  <2>1. TaskTypes
    <3>1. pending \in 0..calls /\ transition \in 0..calls
      BY DEF Lines, Tasks
    <3>. QED  BY <3>1 DEF TaskTypes, Tasks, TaskTrue
  <2>2. LockTypes
    <3>1. tlock \in Seq(1..calls) /\ clock \in Seq(1..calls)
      BY LockTyped, Zenon DEF Lines
    <3>2. ASSUME NEW i \in Ids, task[i].st = "polling" PROVE clock # <<>> /\ Head(clock) = i
      <4>1. Live(i)
        BY <3>2, SomeStays DEF Waits
      <4>. QED  BY <3>2, <4>1 DEF Stage, Holds
    <3>. QED  BY <3>1, <3>2 DEF LockTypes, Lines
  <2>3. ShownTypes
    BY ShownTyped
  <2>. QED  BY <2>1, <2>2, <2>3 DEF TypeOK, PlugTrue, DaemonTrue
<1>. QED  BY <1>1, Invariant, PTL

\* What the light obeys and what is shown do not go back to an older call, however
\* many calls are made and whatever is cancelled, tried again or lost, but for a
\* plain turn_off that passes a debounced turn_on (async_turn_off,
\* _debounced_send_turn_on, ble_mesh_daemon.py process_pending).
THEOREM CallOrder == Spec => InCallOrder
<1>1. ASSUME IInv, [Next]_vars
      PROVE  [/\ lightBy' < lightBy => Overtakes(lightBy, lightBy')
              /\ shownBy' < shownBy => Overtakes(shownBy, shownBy')]_vars
  <2>1. ASSUME lightBy' < lightBy PROVE Overtakes(lightBy, lightBy')
    <3>1. lightBy \in Nat
      BY <1>1 DEF IInv, DaemonTrue, BridgeTypes, Tasks
    <3>2. lightBy' = lightBy \/ (Telink(daemon.cmd) /\ lightBy' = daemon.cmd.by)
      BY <1>1, ChainCases
      DEF IInv, DaemonTrue, ChainSame, SlotOther, Reads, Obeys, Forgets, Posts
    <3>. QED  BY <1>1, <2>1, <3>1, <3>2 DEF IInv, Order, InTurn
  <2>2. ASSUME shownBy' < shownBy PROVE Overtakes(shownBy, shownBy')
    <3>1. shownBy \in Nat
      BY <1>1 DEF IInv, DaemonTrue, BridgeTypes, Tasks
    <3>2. shownBy' = shownBy \/ \E i \in Ids : task[i].st = "polling" /\ shownBy' = i
      BY <1>1, DeviceCases DEF deviceVars, PollSucceeds
    <3>3. PICK i \in Ids : task[i].st = "polling" /\ shownBy' = i
      BY <2>2, <3>1, <3>2
    <3>4. Live(i)
      BY <1>1, <3>3, SomeStays DEF Waits, IInv
    <3>. QED  BY <1>1, <2>2, <3>3, <3>4 DEF IInv, Order, InTurn
  <2>. QED  BY <2>1, <2>2
<1>. QED  BY <1>1, Invariant, PTL DEF InCallOrder, Spec

=============================================================================
