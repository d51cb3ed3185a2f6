---------------------------- MODULE BridgeLight ----------------------------
(***************************************************************************)
(* A Telink light and a SIG plug behind one BLE bridge: the light entity   *)
(* (light.py: TuyaBLEMeshLight), the switch entity (switch.py), the bridge *)
(* devices (lib/sig_mesh_bridge.py) and the daemon on the bridge           *)
(* (scripts/ble_mesh_daemon.py), which has one slot for a command, one for *)
(* a result, and no WiFi while it uses Bluetooth.  Every await of Home     *)
(* Assistant's side and every call of the daemon's worker thread is a step *)
(* boundary.                                                               *)
(*                                                                         *)
(* The calls on the light are numbered in the order they are made and each *)
(* is followed as one task, whether the entity makes an asyncio task of it *)
(* (a transition, a debounced turn_on) or awaits it in the call (a plain   *)
(* turn_off).  Both entities have PARALLEL_UPDATES = 1: Home Assistant     *)
(* makes the next call when the one before has returned.                   *)
(*                                                                         *)
(* One colour channel stands for the three, which the code treats alike.   *)
(* A request reaches the daemon while its sender waits for it, or never.   *)
(***************************************************************************)
EXTENDS Integers, Sequences, SequencesExt, FiniteSets

CONSTANTS
  Programs,        \* what is asked: sequences of calls on the light and on the plug
  MaxCalls,        \* bound on the calls on the light
  max_retries,     \* attempts of a bridge device at one command
  command_retries, \* attempts of send_command_with_retry
  MaxPolls,        \* polls for a result
  MaxFaults        \* bound on failures of requests, of the daemon and of BLE

None == -1

\* A call on the light: Home Assistant checks the ranges of what it passes on.
Calls == [op: {"on", "off", "effect"}, brightness: 0..255 \cup {None}, mireds: Nat \cup {None},
          rgb: 0..255 \cup {None}, tenths: Nat]

ASSUME ProgramsAssumption ==
  /\ Programs \subseteq [light: Seq(Calls), plug: Seq(BOOLEAN)]
  /\ MaxCalls \in Nat /\ \A p \in Programs : Len(p.light) <= MaxCalls
ASSUME BridgeAssumption ==
  /\ max_retries \in Nat \ {0} /\ command_retries \in Nat \ {0}
  /\ MaxPolls \in Nat \ {0} /\ MaxFaults \in Nat

VARIABLES
  program,     \* the calls that are going to be made on the light
  calls,       \* how many have been made
  task,        \* the task of each call
  pending,     \* _pending_command_task: a call, 0 is None
  transition,  \* _transition_task
  tlock,       \* _transition_lock: its holder and those waiting, in order
  clock,       \* the light's _cmd_lock, likewise
  connected,   \* _connected of the two bridge devices
  tracked,     \* the last known state the Telink bridge device keeps
  state,       \* the light coordinator's state
  switches,    \* the calls still to be made on the plug
  plug,        \* the plug's call in progress
  plugState,   \* the plug coordinator's state
  slot,        \* PENDING_CMD
  daemon,      \* the daemon's worker: where it is, its command, its result
  wifi,        \* the bridge is on the network
  last,        \* LAST_RESULT
  faults,      \* failures so far
  lightBy,     \* history: the call whose command the light obeyed last
  shownBy      \* history: the call that updated the coordinator's state last

lightVars == <<program, calls, task, pending, transition, tlock, clock>>
deviceVars == <<tracked, state, shownBy>>
plugVars == <<switches, plug, plugState>>
daemonVars == <<slot, daemon, wifi, last, lightBy>>
vars == <<lightVars, connected, deviceVars, plugVars, daemonVars, faults>>

NoCmd == [type |-> "none", action |-> "none", value |-> 0, by |-> 0]
NoResult == [type |-> "none", action |-> "none", success |-> FALSE, status |-> "none"]
Ended == {"done", "failed", "cancelled"}
Ids == 1..MaxCalls
Actions == {"on", "off", "brightness", "color_temp", "color", "light_mode", "color_brightness"}

Bounded(lo, v, hi) == IF v < lo THEN lo ELSE IF v > hi THEN hi ELSE v

\* round(n / d): a half goes to the even neighbour.
Round(n, d) ==
  LET q == n \div d
      r == n % d
  IN IF 2 * r > d \/ (2 * r = d /\ q % 2 = 1) THEN q + 1 ELSE q

brightness_to_device(v) == Round(254 + (Bounded(1, v, 255) - 1) * 99, 254)
color_temp_to_device(m) == Round(127 * 217 - (Bounded(153, m, 370) - 153) * 127, 217)
brightness_to_ha(v) == Round(99 + (Bounded(1, v, 100) - 1) * 254, 99)
color_temp_to_ha(v) == Round(370 * 127 - Bounded(0, v, 127) * 217, 127)

----------------------------------------------------------------------------
(* What a call sends, item by item.                                        *)

has_target(c) == c.brightness # None \/ c.mireds # None \/ c.rgb # None

If(b, s) == IF b THEN s ELSE <<>>

_debounced_send_turn_on(c) ==
  IF c.rgb # None
  THEN <<"color", "mode1">> \o If(c.brightness # None, <<"color_brightness">>)
  ELSE If(c.mireds # None, <<"mode0", "temp">>) \o If(c.brightness # None, <<"level">>)
         \o If(~has_target(c), <<"on">>)

steps(c) == LET n == IF c.tenths > 50 THEN 50 ELSE c.tenths IN IF n < 2 THEN 2 ELSE n

_run_transition(c) ==
  LET wants == IF c.op = "off" THEN [c EXCEPT !.brightness = 1] ELSE c
      step == If(wants.brightness # None, <<"bright">>) \o If(wants.mireds # None, <<"warm">>)
                \o If(wants.rgb # None, <<"tint">>) \o <<"pause">>
  IN [k \in 1..steps(c) * Len(step) - 1 |-> step[1 + ((k - 1) % Len(step))]]
       \o If(c.op = "off", <<"off">>)

Kind(c) ==
  CASE c.op = "effect" -> "effect"
    [] c.op = "on" -> IF c.tenths > 0 /\ has_target(c) THEN "transition" ELSE "debounced"
    [] OTHER -> IF c.tenths > 0 THEN "transition" ELSE "off"

Plan(c) ==
  CASE Kind(c) = "transition" -> _run_transition(c)
    [] Kind(c) = "debounced" -> _debounced_send_turn_on(c)

\* The interpolated value of a transition step.
Between(t, s, goal, lo, hi) ==
  LET i == t.pauses + 1 IN Bounded(lo, Round(s * steps(t.call) + (goal - s) * i, steps(t.call)), hi)

_apply_transition_step(t, item) ==
  CASE item = "bright" ->
         [action |-> "brightness",
          value |-> Between(t, t.start.brightness,
                            IF t.call.op = "off" THEN 1 ELSE brightness_to_device(t.call.brightness),
                            1, 100)]
    [] item = "warm" ->
         [action |-> "color_temp",
          value |-> Between(t, t.start.color_temp, color_temp_to_device(t.call.mireds), 0, 127)]
    [] item = "tint" ->
         [action |-> "color", value |-> Between(t, t.start.rgb, t.call.rgb, 0, 255)]

\* The command an item stands for, given the state at that moment.
Command(t, item, st) ==
  CASE item \in {"on", "off"} -> [action |-> item, value |-> 0]
    [] item \in {"bright", "warm", "tint"} -> _apply_transition_step(t, item)
    [] item = "color" -> [action |-> "color", value |-> t.call.rgb]
    [] item = "mode1" -> [action |-> "light_mode", value |-> 1]
    [] item = "mode0" -> [action |-> "light_mode", value |-> 0]
    [] item = "temp" -> [action |-> "color_temp", value |-> color_temp_to_device(t.call.mireds)]
    [] item = "color_brightness" -> [action |-> "color_brightness", value |-> t.call.brightness]
    [] item = "level" ->
         IF st.mode = 1
         THEN [action |-> "color_brightness", value |-> t.call.brightness]
         ELSE [action |-> "brightness", value |-> brightness_to_device(t.call.brightness)]

----------------------------------------------------------------------------
LightState == [is_on: BOOLEAN, mode: 0..1, brightness: 0..100, color_temp: 0..127,
               color_brightness: 0..255, rgb: 0..255]
Off == [is_on |-> FALSE, mode |-> 0, brightness |-> 0, color_temp |-> 0,
        color_brightness |-> 0, rgb |-> 0]

\* The properties of the entity, as Home Assistant reads them from the state.
brightness(s) ==
  IF ~s.is_on THEN None ELSE IF s.mode = 1 THEN s.color_brightness ELSE brightness_to_ha(s.brightness)
color_temp_kelvin(s) == IF ~s.is_on THEN None ELSE Round(1000000, color_temp_to_ha(s.color_temp))
rgb_color(s) == IF s.is_on /\ s.mode = 1 THEN s.rgb ELSE None

NoTask == [call |-> [op |-> "none"], st |-> "none", todo |-> <<>>, start |-> Off,
           pauses |-> 0, attempt |-> 0, polls |-> 0, cmd |-> [action |-> "none", value |-> 0]]
NoCall == [st |-> "idle", on |-> FALSE, outer |-> 0, attempt |-> 0, polls |-> 0]

Waits == {"none", "window", "lock", "pause", "queued", "polling", "backoff"}
TaskTypes ==
  /\ (\E p \in Programs : program = p.light) /\ calls \in 0..Len(program)
  /\ DOMAIN task = Ids
  /\ \A i \in Ids :
       /\ task[i].st \in Waits \cup Ended
       /\ (task[i].st = "none") <=> (i > calls)
       /\ task[i].attempt \in 0..max_retries /\ task[i].polls \in 0..MaxPolls
       /\ task[i].start \in LightState
  /\ pending \in 0..calls /\ transition \in 0..calls
LockTypes ==
  /\ tlock \in Seq(1..calls) /\ IsInjective(tlock)
  /\ clock \in Seq(1..calls) /\ IsInjective(clock)
  /\ \A i \in Ids : task[i].st = "polling" => clock # <<>> /\ Head(clock) = i
ShownTypes ==
  /\ tracked \in LightState
  /\ state.shown \in LightState /\ state.available \in BOOLEAN
  /\ brightness(state.shown) \in 0..255 \cup {None}
  /\ rgb_color(state.shown) \in 0..255 \cup {None}
  /\ color_temp_kelvin(state.shown) \in 2703..6536 \cup {None}
PlugTypes ==
  /\ plug.st \in {"idle", "posting", "polling", "backoff", "waiting"}
  /\ plug.outer \in 0..command_retries /\ plug.attempt \in 0..max_retries
  /\ plug.polls \in 0..MaxPolls /\ plugState \in [is_on: BOOLEAN, available: BOOLEAN]
BridgeTypes ==
  /\ connected \in [{"light", "plug"} -> BOOLEAN]
  /\ slot = NoCmd \/ slot.action \in Actions
  /\ daemon.pc \in {"idle", "read", "down", "bluetooth", "run", "up", "write"}
  /\ wifi \in BOOLEAN /\ last.status \in {"none", "ON", "OFF"}
  /\ faults \in 0..MaxFaults
  /\ lightBy \in 0..calls /\ shownBy \in 0..calls
\* Values keep to their ranges, attempts and polls to their limits; a task stands
\* in a lock's line once, and polls only while it holds the _cmd_lock.  What the
\* entity reports stays in Home Assistant's ranges, but for the coolest white:
\* 153 mireds are 6536 K, one more than _attr_max_color_temp_kelvin.
TypeOK == TaskTypes /\ LockTypes /\ ShownTypes /\ PlugTypes /\ BridgeTypes

Init ==
  /\ \E p \in Programs : program = p.light /\ switches = p.plug
  /\ calls = 0 /\ task = [i \in Ids |-> NoTask]
  /\ pending = 0 /\ transition = 0 /\ tlock = <<>> /\ clock = <<>>
  /\ connected = [d \in {"light", "plug"} |-> TRUE]
  /\ tracked = Off /\ state = [shown |-> Off, available |-> TRUE]
  /\ plug = NoCall /\ plugState = [is_on |-> FALSE, available |-> TRUE]
  /\ slot = NoCmd /\ daemon = [pc |-> "idle", cmd |-> NoCmd, res |-> NoResult]
  /\ wifi = TRUE /\ last = NoResult
  /\ faults = 0 /\ lightBy = 0 /\ shownBy = 0

Fault == faults < MaxFaults /\ faults' = faults + 1
NoFault == UNCHANGED faults

----------------------------------------------------------------------------
(* The light entity.                                                       *)

\* Mutant: nothing is cancelled.
NothingCancelled == {}

\* What the entity cancels before it does anything else.
_cancel_transition == {transition} \ {0}
_cancel_pending_command == {pending} \ {0}

\* A task lets go of a lock, or leaves its line.
Leave(q, i) ==
  IF i \in ToSet(q) THEN RemoveAt(q, CHOOSE k \in DOMAIN q : q[k] = i) ELSE q

\* Mutant: a cancelled task keeps its lock.
LockKept(q, S) == q

\* A lock after the tasks of S were cancelled, one at most, because every call
\* forgets the tasks of those before it: async with lets go of it.
Released(q, S) == IF S = {} THEN q ELSE Leave(q, CHOOSE i \in S : TRUE)

\* A task that has no more to do, or goes down with an exception.
Ends(i, how) ==
  /\ task' = [task EXCEPT ![i] = [NoTask EXCEPT !.st = how]]
  /\ tlock' = Leave(tlock, i) /\ clock' = Leave(clock, i)

\* A task goes on to its next item: a pause, or a command, for which it stands
\* in line unless the bridge is known to be gone (_send_telink_cmd).
GoesOn(i, t, shown) ==
  IF t.todo = <<>> THEN Ends(i, "done")
  ELSE IF Head(t.todo) = "pause"
  THEN /\ task' = [task EXCEPT ![i] = [t EXCEPT !.st = "pause", !.todo = Tail(t.todo),
                                                 !.pauses = @ + 1, !.cmd = NoTask.cmd,
                                                 !.attempt = 0, !.polls = 0]]
       /\ clock' = Leave(clock, i)
       /\ UNCHANGED tlock
  ELSE IF ~connected["light"] THEN Ends(i, "failed")
  ELSE /\ task' = [task EXCEPT ![i] = [t EXCEPT !.st = "queued", !.todo = Tail(t.todo),
                                                 !.cmd = Command(t, Head(t.todo), shown),
                                                 !.attempt = 1, !.polls = 0]]
       /\ clock' = Append(Leave(clock, i), i)
       /\ UNCHANGED tlock

Cancelled(live) ==
  [i \in Ids |-> IF i \in live THEN [NoTask EXCEPT !.st = "cancelled"] ELSE task[i]]

\* A call cancels what the entity has in hand and starts its own task, which
\* sleeps out its window, asks for _transition_lock, asks for the _cmd_lock, or
\* has already failed.
Begins(st) ==
  LET n == calls + 1
      c == program[n]
      live == {i \in _cancel_transition \cup _cancel_pending_command : task[i].st \notin Ended}
      t == CASE st = "failed" -> [NoTask EXCEPT !.st = st]
             [] st = "queued" -> [NoTask EXCEPT !.call = c, !.st = st, !.attempt = 1,
                                                !.cmd = [action |-> "off", value |-> 0]]
             [] OTHER -> [NoTask EXCEPT !.call = c, !.st = st, !.todo = Plan(c)]
  IN /\ state.available
     /\ \A i \in 1..calls : Kind(program[i]) = "off" => task[i].st \in Ended
     /\ calls' = n
     /\ task' = [Cancelled(live) EXCEPT ![n] = t]
     /\ pending' = IF st = "window" THEN n ELSE 0
     /\ transition' = IF st = "lock" THEN n ELSE 0
     /\ tlock' = Released(tlock, live) \o If(st = "lock", <<n>>)
     /\ clock' = Released(clock, live) \o If(st = "queued", <<n>>)
     /\ UNCHANGED <<program, connected, deviceVars, plugVars, daemonVars, faults>>

\* A scene is not debounced, and TelinkBridgeDevice has no send_scene: it raises.
async_turn_on ==
  /\ calls < Len(program) /\ program[calls + 1].op # "off"
  /\ \/ Kind(program[calls + 1]) = "debounced" /\ Begins("window")
     \/ Kind(program[calls + 1]) = "transition" /\ Begins("lock")
     \/ Kind(program[calls + 1]) = "effect" /\ Begins("failed")

async_turn_off ==
  /\ calls < Len(program) /\ program[calls + 1].op = "off"
  /\ \/ Kind(program[calls + 1]) = "transition" /\ Begins("lock")
     \/ Kind(program[calls + 1]) = "off" /\ Begins(IF connected["light"] THEN "queued" ELSE "failed")

\* The entity is removed: what it has in hand is cancelled, and no call follows.
async_will_remove_from_hass ==
  LET live == {i \in _cancel_transition \cup _cancel_pending_command : task[i].st \notin Ended}
  IN /\ calls = Len(program) /\ pending + transition > 0
     /\ task' = Cancelled(live)
     /\ tlock' = Released(tlock, live) /\ clock' = Released(clock, live)
     /\ pending' = 0 /\ transition' = 0
     /\ UNCHANGED <<program, calls, connected, deviceVars, plugVars, daemonVars, faults>>

\* The 50 ms of a debounced command are over: it can no longer be cancelled.
WindowOver(i) ==
  /\ task[i].st = "window"
  /\ task' = [task EXCEPT ![i].st = "lock"]
  /\ tlock' = Append(tlock, i)
  /\ pending' = 0
  /\ UNCHANGED <<program, calls, transition, clock, connected, deviceVars, plugVars, daemonVars, faults>>

\* It has _transition_lock: a transition starts from the state shown now, and a
\* white tone leaves colour mode first.
LockTaken(i) ==
  LET t == [task[i] EXCEPT !.start = IF Kind(program[i]) = "transition" THEN state.shown ELSE Off]
      skip == Head(t.todo) = "mode0" /\ state.shown.mode # 1
  IN /\ task[i].st = "lock" /\ Head(tlock) = i
     /\ GoesOn(i, IF skip THEN [t EXCEPT !.todo = Tail(t.todo)] ELSE t, state.shown)
     /\ UNCHANGED <<program, calls, pending, transition, connected, deviceVars, plugVars, daemonVars, faults>>

PauseOver(i) ==
  /\ task[i].st = "pause"
  /\ GoesOn(i, task[i], state.shown)
  /\ UNCHANGED <<program, calls, pending, transition, connected, deviceVars, plugVars, daemonVars, faults>>

----------------------------------------------------------------------------
(* TelinkBridgeDevice: one attempt under _cmd_lock, let go between two.    *)

\* The daemon has the request; its answer may be lost.  Without the network the
\* request fails, and MeshConnectionError is neither tried again nor counted as
\* the bridge's absence.
_http_post(cmd, delivered, answered) ==
  /\ IF delivered THEN wifi /\ slot' = cmd ELSE UNCHANGED slot
  /\ answered => delivered
  /\ IF wifi /\ ~answered THEN Fault ELSE NoFault
  /\ UNCHANGED <<daemon, wifi, last, lightBy>>

Post(i) ==
  /\ task[i].st = "queued" /\ Head(clock) = i
  /\ \E delivered, answered \in BOOLEAN :
       /\ _http_post([type |-> "telink", action |-> task[i].cmd.action,
                      value |-> task[i].cmd.value, by |-> i], delivered, answered)
       /\ IF answered
          THEN task' = [task EXCEPT ![i].st = "polling", ![i].polls = 0] /\ UNCHANGED <<tlock, clock>>
          ELSE Ends(i, "failed")
  /\ UNCHANGED <<program, calls, pending, transition, connected, deviceVars, plugVars>>

\* The bridge device's own idea of the light after a command, and the status it
\* makes up from it (_fire_status, coordinator._on_status_update).
Tracked(c) ==
  CASE c.action = "on" -> [tracked EXCEPT !.is_on = TRUE, !.brightness = IF @ = 0 THEN 100 ELSE @]
    [] c.action = "off" -> [tracked EXCEPT !.is_on = FALSE]
    [] c.action = "light_mode" -> [tracked EXCEPT !.mode = c.value]
    [] c.action = "brightness" -> [tracked EXCEPT !.is_on = TRUE, !.brightness = c.value]
    [] c.action = "color_temp" -> [tracked EXCEPT !.is_on = TRUE, !.color_temp = c.value]
    [] c.action = "color" -> [tracked EXCEPT !.is_on = TRUE, !.rgb = c.value]
    [] c.action = "color_brightness" -> [tracked EXCEPT !.is_on = TRUE, !.color_brightness = c.value]

_fire_status(t) ==
  [t EXCEPT !.brightness = IF t.is_on THEN @ ELSE 0,
            !.color_brightness = IF t.is_on THEN @ ELSE 0]

_on_status_update(s) == [s EXCEPT !.is_on = s.brightness > 0 \/ s.color_brightness > 0]

\* The coordinator hears that the bridge is gone.
_fire_disconnect == state' = [state EXCEPT !.available = FALSE]

\* Mutant: one attempt too many.
OneAttemptMore(i) == task[i].attempt <= max_retries /\ connected["light"]

\* Another attempt may be made: the bridge is not known to be gone.
MayRetry(i) == task[i].attempt < max_retries /\ connected["light"]

\* A result that matches is taken, whichever command it is the result of; when
\* none has come after the last poll the bridge counts as gone.
Poll(i) ==
  LET matches == last.action = task[i].cmd.action /\ last.type = "telink"
      now == Tracked(task[i].cmd)
      shown == _on_status_update(_fire_status(now))
  IN /\ task[i].st = "polling" /\ wifi
     /\ \/ /\ matches /\ last.success
           /\ tracked' = now
           /\ state' = [shown |-> shown, available |-> TRUE]
           /\ shownBy' = i
           /\ GoesOn(i, task[i], shown)
           /\ UNCHANGED connected
        \/ /\ matches /\ ~last.success
           /\ IF MayRetry(i)
              THEN /\ task' = [task EXCEPT ![i].st = "backoff", ![i].polls = 0]
                   /\ clock' = Leave(clock, i)
                   /\ UNCHANGED tlock
              ELSE Ends(i, "failed")
           /\ UNCHANGED <<connected, deviceVars>>
        \/ /\ ~matches /\ task[i].polls + 1 < MaxPolls
           /\ task' = [task EXCEPT ![i].polls = @ + 1]
           /\ UNCHANGED <<tlock, clock, connected, deviceVars>>
        \/ /\ ~matches /\ task[i].polls + 1 = MaxPolls
           /\ connected' = [connected EXCEPT !["light"] = FALSE]
           /\ _fire_disconnect
           /\ Ends(i, "failed")
           /\ UNCHANGED <<tracked, shownBy>>
     /\ UNCHANGED <<program, calls, pending, transition, plugVars, daemonVars, faults>>

PollFails(i) ==
  /\ task[i].st = "polling"
  /\ IF wifi THEN Fault ELSE NoFault
  /\ Ends(i, "failed")
  /\ UNCHANGED <<program, calls, pending, transition, connected, deviceVars, plugVars, daemonVars>>

BackoffOver(i) ==
  /\ task[i].st = "backoff"
  /\ task' = [task EXCEPT ![i].st = "queued", ![i].attempt = @ + 1]
  /\ clock' = Append(clock, i)
  /\ UNCHANGED <<program, calls, pending, transition, tlock, connected, deviceVars, plugVars,
                 daemonVars, faults>>

\* The coordinator reconnects, or lets the device go; what is under way is not
\* stopped by that.
Reached(d) ==
  /\ ~connected[d] /\ wifi
  /\ connected' = [connected EXCEPT ![d] = TRUE]

connect ==
  /\ Reached("light")
  /\ state' = [state EXCEPT !.available = TRUE]
  /\ UNCHANGED <<lightVars, tracked, shownBy, plugVars, daemonVars, faults>>

PlugConnect ==
  /\ Reached("plug")
  /\ plugState' = [plugState EXCEPT !.available = TRUE]
  /\ UNCHANGED <<lightVars, deviceVars, switches, plug, daemonVars, faults>>

disconnect(d) ==
  /\ connected[d] /\ Fault
  /\ connected' = [connected EXCEPT ![d] = FALSE]
  /\ UNCHANGED <<lightVars, deviceVars, plugVars, daemonVars>>

----------------------------------------------------------------------------
(* The plug: the switch entity, send_command_with_retry and                *)
(* SIGMeshBridgeDevice.send_power, which holds its lock over its attempts. *)

\* send_power raised: the connection manager tries again, or the call fails.
PlugRaises ==
  plug' = IF plug.outer < command_retries
          THEN [plug EXCEPT !.st = "waiting", !.attempt = 0, !.polls = 0]
          ELSE NoCall

\* An attempt at send_power, from the entity's call or after the delay.
send_command_with_retry(p) ==
  plug' = IF connected["plug"] THEN [p EXCEPT !.st = "posting", !.attempt = 1]
          ELSE IF p.outer < command_retries THEN [p EXCEPT !.st = "waiting"]
          ELSE NoCall

SwitchTurned ==
  /\ plug.st = "idle" /\ switches # <<>> /\ plugState.available
  /\ switches' = Tail(switches)
  /\ send_command_with_retry([NoCall EXCEPT !.on = Head(switches), !.outer = 1])
  /\ UNCHANGED <<lightVars, connected, deviceVars, plugState, daemonVars, faults>>

DelayOver ==
  /\ plug.st = "waiting"
  /\ send_command_with_retry([plug EXCEPT !.outer = @ + 1])
  /\ UNCHANGED <<lightVars, connected, deviceVars, switches, plugState, daemonVars, faults>>

PlugAction == IF plug.on THEN "on" ELSE "off"

PlugPost ==
  /\ plug.st = "posting"
  /\ \E delivered, answered \in BOOLEAN :
       /\ _http_post([type |-> "sig_mesh", action |-> PlugAction, value |-> 0, by |-> 0],
                     delivered, answered)
       /\ IF answered THEN plug' = [plug EXCEPT !.st = "polling", !.polls = 0] ELSE PlugRaises
  /\ UNCHANGED <<lightVars, connected, deviceVars, switches, plugState>>

\* The result is not a success, or none has come: another attempt after a pause,
\* whether or not the bridge counts as gone.
PlugRetries ==
  IF plug.attempt < max_retries THEN plug' = [plug EXCEPT !.st = "backoff", !.polls = 0]
  ELSE PlugRaises

\* _send_and_wait looks at the action alone: the light's result will do.
PlugPoll ==
  /\ plug.st = "polling" /\ wifi
  /\ \/ /\ last.action = PlugAction /\ last.success
        /\ plugState' = [is_on |-> last.status = "ON", available |-> TRUE]
        /\ plug' = NoCall
        /\ UNCHANGED connected
     \/ /\ last.action = PlugAction /\ ~last.success
        /\ PlugRetries
        /\ UNCHANGED <<connected, plugState>>
     \/ /\ last.action # PlugAction /\ plug.polls + 1 < MaxPolls
        /\ plug' = [plug EXCEPT !.polls = @ + 1]
        /\ UNCHANGED <<connected, plugState>>
     \/ /\ last.action # PlugAction /\ plug.polls + 1 = MaxPolls
        /\ connected' = [connected EXCEPT !["plug"] = FALSE]
        /\ plugState' = [plugState EXCEPT !.available = FALSE]
        /\ PlugRetries
  /\ UNCHANGED <<lightVars, deviceVars, switches, daemonVars, faults>>

PlugPollFails ==
  /\ plug.st = "polling"
  /\ IF wifi THEN Fault ELSE NoFault
  /\ PlugRaises
  /\ UNCHANGED <<lightVars, connected, deviceVars, switches, plugState, daemonVars>>

PlugBackoffOver ==
  /\ plug.st = "backoff"
  /\ plug' = [plug EXCEPT !.st = "posting", !.attempt = @ + 1]
  /\ UNCHANGED <<lightVars, connected, deviceVars, switches, plugState, daemonVars, faults>>

----------------------------------------------------------------------------
(* The daemon's worker thread; requests are answered in between.           *)

DaemonGoes(pc) == daemon' = [daemon EXCEPT !.pc = pc]
DaemonOnly == UNCHANGED <<lightVars, connected, deviceVars, plugVars>>

\* process_pending reads the file, and then removes whatever is there.
ReadPending ==
  /\ daemon.pc = "idle" /\ slot # NoCmd
  /\ daemon' = [pc |-> "read", cmd |-> slot, res |-> NoResult]
  /\ DaemonOnly /\ UNCHANGED <<slot, wifi, last, lightBy, faults>>

ReadFails ==
  /\ daemon.pc = "idle" /\ slot # NoCmd /\ Fault
  /\ slot' = NoCmd
  /\ DaemonOnly /\ UNCHANGED <<daemon, wifi, last, lightBy>>

RemovePending ==
  /\ daemon.pc = "read" /\ DaemonGoes("down")
  /\ slot' = NoCmd
  /\ DaemonOnly /\ UNCHANGED <<wifi, last, lightBy, faults>>

wifi_down ==
  /\ daemon.pc = "down" /\ DaemonGoes("bluetooth")
  /\ wifi' = FALSE
  /\ DaemonOnly /\ UNCHANGED <<slot, last, lightBy, faults>>

\* The result names no action then, so nobody takes it.
WifiStaysUp ==
  /\ daemon.pc = "down" /\ Fault /\ DaemonGoes("write")
  /\ DaemonOnly /\ UNCHANGED <<slot, wifi, last, lightBy>>

_restart_bluetooth ==
  /\ daemon.pc = "bluetooth"
  /\ (DaemonGoes("run") /\ NoFault) \/ (DaemonGoes("up") /\ Fault)
  /\ DaemonOnly /\ UNCHANGED <<slot, wifi, last, lightBy>>

\* The command is carried out by a process of its own, which may fail before or
\* after the device obeyed, and may succeed without it: the Telink device queues
\* its commands and is disconnected half a second later.
Result(ok, status) ==
  [type |-> daemon.cmd.type, action |-> daemon.cmd.action, success |-> ok, status |-> status]

OnOff(a) == IF a = "on" THEN "ON" ELSE IF a = "off" THEN "OFF" ELSE "none"

_execute_telink(ok) == Result(ok, IF ok THEN OnOff(daemon.cmd.action) ELSE "none")

\* mesh_proxy_cmd.py: connect_with_retry makes up to seven attempts; the session
\* writes without response, waits for a status and prints the one that came; the
\* exit code is 0 whether or not one came.  After a minute the daemon kills it, and
\* then has neither exit code nor output.
Retries == 7
connect_with_retry(failures) == failures < Retries
send(up, obeyed, heard) == (obeyed => up) /\ (heard => obeyed)
run(up, killed) == up /\ ~killed
_execute_sig_mesh(ok, heard) ==
  Result(ok, IF ok /\ heard THEN OnOff(daemon.cmd.action) ELSE "none")

execute_ble_command ==
  /\ daemon.pc = "run"
  /\ \/ \E ok, obeyed \in BOOLEAN :
          /\ daemon.cmd.type = "telink"
          /\ daemon' = [daemon EXCEPT !.pc = "up", !.res = _execute_telink(ok)]
          /\ lightBy' = IF obeyed THEN daemon.cmd.by ELSE lightBy
          /\ IF ok /\ obeyed THEN NoFault ELSE Fault
     \/ \E failures \in 0..Retries, obeyed, heard, killed \in BOOLEAN :
          LET up == connect_with_retry(failures)
          IN  /\ daemon.cmd.type = "sig_mesh"
              /\ send(up, obeyed, heard)
              /\ daemon' = [daemon EXCEPT !.pc = "up", !.res = _execute_sig_mesh(run(up, killed), heard)]
              /\ UNCHANGED lightBy
              /\ IF run(up, killed) /\ obeyed /\ heard THEN NoFault ELSE Fault
  /\ DaemonOnly /\ UNCHANGED <<slot, wifi, last>>

wifi_up ==
  /\ daemon.pc = "up" /\ DaemonGoes("write")
  /\ (wifi' = TRUE /\ NoFault) \/ (UNCHANGED wifi /\ Fault)
  /\ DaemonOnly /\ UNCHANGED <<slot, last, lightBy>>

\* The result is in place, or cannot be written.
WriteResult ==
  /\ daemon.pc = "write"
  /\ (last' = daemon.res /\ NoFault) \/ (UNCHANGED last /\ Fault)
  /\ daemon' = [pc |-> "idle", cmd |-> NoCmd, res |-> NoResult]
  /\ DaemonOnly /\ UNCHANGED <<slot, wifi, lightBy>>

----------------------------------------------------------------------------
LightTask(i) ==
  \/ WindowOver(i) \/ LockTaken(i) \/ PauseOver(i)
  \/ Post(i) \/ Poll(i) \/ PollFails(i) \/ BackoffOver(i)

PlugTask ==
  DelayOver \/ PlugPost \/ PlugPoll \/ PlugPollFails \/ PlugBackoffOver

Daemon ==
  \/ ReadPending \/ ReadFails \/ RemovePending \/ wifi_down \/ WifiStaysUp
  \/ _restart_bluetooth \/ execute_ble_command \/ wifi_up \/ WriteResult

Next ==
  \/ async_turn_on \/ async_turn_off \/ async_will_remove_from_hass
  \/ \E i \in Ids : LightTask(i)
  \/ SwitchTurned \/ PlugTask
  \/ connect \/ PlugConnect \/ \E d \in {"light", "plug"} : disconnect(d)
  \/ Daemon

\* The event loop runs what is ready, sleeps end, and a request returns or times
\* out.  Nothing is asked of the daemon.
Spec ==
  /\ Init /\ [][Next]_vars
  /\ \A i \in Ids : WF_vars(LightTask(i))
  /\ WF_vars(PlugTask)

----------------------------------------------------------------------------
(* Properties.                                                             *)

\* A plain turn_off takes no _transition_lock and passes a debounced turn_on that
\* is still sending.
Overtakes(new, old) ==
  Kind(program[new]) = "off" /\ Kind(program[old]) = "debounced"

\* What the light obeys and what is shown never go back to an older call, through
\* cancellation, retries and the daemon's single slot, but for a plain turn_off
\* made while a debounced turn_on is sending (async_turn_off,
\* _debounced_send_turn_on).
InCallOrder ==
  [][/\ lightBy' < lightBy => Overtakes(lightBy, lightBy')
     /\ shownBy' < shownBy => Overtakes(shownBy, shownBy')]_vars

\* Every call ends, with the locks free for the next, whatever the bridge does:
\* polls and attempts are bounded and a cancelled task lets go of its locks
\* (_send_telink_cmd, _transition_lock, send_command_with_retry).
CallsEnd ==
  /\ \A i \in Ids : (task[i].st # "none") ~> (task[i].st \in Ended)
  /\ (plug.st # "idle") ~> (plug.st = "idle")
=============================================================================
