----------------------------- MODULE SeqStore -----------------------------
(***************************************************************************)
(* SIG Mesh sequence numbers of one network and source address: the        *)
(* process-wide HASequenceStore (ha_sequence.py), its load, save and merge *)
(* of per-entry legacy stores by the coordinators that share it            *)
(* (coordinator.py), the allocation of numbers by their devices            *)
(* (sig_mesh_device.py), and the two configuration flows that use numbers  *)
(* of the network before its entry exists (config_flow_sig.py).            *)
(*                                                                         *)
(* One entry is one lamp.  A lamp accepts a number only above the last one *)
(* it accepted from the source address (docs/DOMAIN.md, "Replay            *)
(* Protection"), and a number used twice on the network repeats a nonce.   *)
(***************************************************************************)
EXTENDS Naturals

CONSTANTS
  Entries,               \* config entries (lamps) of the network
  NoSeq,                 \* "no value stored"
  SEQ_SAFETY_MARGIN,     \* added to a stored value when it is loaded
  SEQ_PERSIST_INTERVAL,  \* notifications of one coordinator between saves
  MAX_SEQ,               \* largest 24-bit number (0xFFFFFF)
  InitialChoices,        \* values a user may give for CONF_INITIAL_SEQUENCE
  ProvisionSeqs,         \* how many numbers run_provision may send from its own store
  MaxRestarts            \* bound on process restarts

ASSUME NoSeqAssumption == NoSeq \notin Nat
ASSUME MarginAssumption == SEQ_SAFETY_MARGIN \in Nat
ASSUME IntervalAssumption == SEQ_PERSIST_INTERVAL \in Nat \ {0}
ASSUME MaxSeqAssumption == MAX_SEQ \in Nat
ASSUME ChoicesAssumption == InitialChoices \subseteq Nat
ASSUME ProvisionAssumption == ProvisionSeqs \subseteq 1..(MAX_SEQ + 1)
ASSUME RestartsAssumption == MaxRestarts \in Nat

VARIABLES
  \* The process: lost when it ends.
  seq,           \* HASequenceStore._seq (0 until get_ha_sequence_store makes it)
  netLoaded,     \* _network_loaded
  legacyLoaded,  \* _loaded_legacy_entries
  phase,         \* life cycle of each entry's coordinator
  count,         \* _seq_command_count of each coordinator
  saveTask,      \* a background _save_seq task waits to run
  pending,       \* data given to Store.async_save, not yet on disk
  importing,     \* entries whose import flow holds a connected device
  \* Home Assistant's storage and configuration: survive a restart.
  disk,          \* "seq" of the network store file
  legacy,        \* "seq" of each entry's legacy store file
  installed,     \* entries that exist
  initial,       \* CONF_INITIAL_SEQUENCE of each entry
  restarts,      \* process restarts so far
  \* The network, as the lamps see it (history variables).
  high,          \* every number below high may have been sent
  cache,         \* cache[e]: the least number lamp e still accepts
  broken,        \* promises broken so far: "nonce" reused, "replay" rejected
  doors          \* the first way in which the promise was given up, if any

procVars == <<seq, netLoaded, legacyLoaded, phase, count, saveTask, pending, importing>>
diskVars == <<disk, legacy, installed, initial, restarts>>
meshVars == <<high, cache, broken, doors>>
vars == <<procVars, diskVars, meshVars>>

Phases == {"off", "created", "merging", "running", "saving", "stopping"}
Promises == {"nonce", "replay"}
Doors == {"restart", "import", "provision"}

Larger(a, b) == IF a >= b THEN a ELSE b

\* The promise is given up through door d when lost holds.
OpenDoor(d, lost) == doors' = IF lost /\ doors = {} THEN {d} ELSE doors

\* What set_seq(value + SEQ_SAFETY_MARGIN) leaves in _seq for a stored value.
Merged(s, stored) ==
  IF stored = NoSeq THEN s ELSE Larger(s, stored + SEQ_SAFETY_MARGIN)

\* The device of entry e is connected: its coordinator is past _load_seq and
\* before async_disconnect.
Connected(e) == phase[e] \in {"running", "saving", "stopping"}

TypeOK ==
  /\ seq \in Nat
  /\ netLoaded \in BOOLEAN
  /\ legacyLoaded \in SUBSET Entries
  /\ phase \in [Entries -> Phases]
  /\ count \in [Entries -> 0..(SEQ_PERSIST_INTERVAL - 1)]
  /\ saveTask \in [Entries -> BOOLEAN]
  /\ pending \in Nat \cup {NoSeq}
  /\ importing \in SUBSET Entries
  /\ disk \in Nat \cup {NoSeq}
  /\ legacy \in [Entries -> Nat \cup {NoSeq}]
  /\ installed \in SUBSET Entries
  /\ initial \in [Entries -> Nat]
  /\ restarts \in 0..MaxRestarts
  /\ high \in Nat
  /\ cache \in [Entries -> Nat]
  /\ broken \in SUBSET Promises
  /\ doors \in SUBSET Doors

-----------------------------------------------------------------------------
(* Init: an installation that is upgraded (entries with a legacy store,    *)
(* whose lamps accepted at most a margin beyond it) or new.                *)

Init ==
  /\ seq = 0
  /\ netLoaded = FALSE
  /\ legacyLoaded = {}
  /\ phase = [e \in Entries |-> "off"]
  /\ count = [e \in Entries |-> 0]
  /\ saveTask = [e \in Entries |-> FALSE]
  /\ pending = NoSeq
  /\ importing = {}
  /\ disk = NoSeq
  /\ installed \in SUBSET Entries
  /\ initial \in [Entries -> {0} \cup InitialChoices]
  /\ \A e \in Entries : e \notin installed => initial[e] = 0
  /\ legacy \in [Entries -> {0, NoSeq}]
  /\ \A e \in Entries : e \notin installed => legacy[e] = NoSeq
  /\ cache = [e \in Entries |->
                IF legacy[e] = NoSeq THEN 0 ELSE legacy[e] + SEQ_SAFETY_MARGIN]
  /\ restarts = 0
  /\ high = 0
  /\ broken = {}
  /\ doors = {}

-----------------------------------------------------------------------------
(* Setup of an entry.                                                      *)

\* Mutant: the initial sequence overwrites the store, as
\* InMemorySeqStore.set_seq would.
SetupEntryOverwrites(e) ==
  /\ e \in installed
  /\ phase[e] = "off"
  /\ seq' = initial[e]
  /\ phase' = [phase EXCEPT ![e] = "created"]
  /\ count' = [count EXCEPT ![e] = 0]
  /\ saveTask' = [saveTask EXCEPT ![e] = FALSE]
  /\ UNCHANGED <<netLoaded, legacyLoaded, pending, importing, diskVars, meshVars>>

\* async_setup_entry up to the coordinator: get_ha_sequence_store creates the
\* shared store with, or raises it to, the entry's initial sequence, and
\* create_device sets the same value again on the device's store.
SetupEntry(e) ==
  /\ e \in installed
  /\ phase[e] = "off"
  /\ seq' = Larger(seq, initial[e])
  /\ phase' = [phase EXCEPT ![e] = "created"]
  /\ count' = [count EXCEPT ![e] = 0]
  /\ saveTask' = [saveTask EXCEPT ![e] = FALSE]
  /\ UNCHANGED <<netLoaded, legacyLoaded, pending, importing, diskVars, meshVars>>

\* Mutant: the store is marked loaded although the file was not merged.
LoadNetworkSkipsFile(e) ==
  /\ phase[e] = "created"
  /\ \A f \in Entries : phase[f] # "merging"
  /\ netLoaded' = TRUE
  /\ phase' = [phase EXCEPT ![e] = "merging"]
  /\ UNCHANGED <<seq, legacyLoaded, count, saveTask, pending, importing,
                 diskVars, meshVars>>

\* async_load, first half, under _load_lock (the entry in phase "merging"
\* holds it): the network file is read once per process.
LoadNetwork(e) ==
  /\ phase[e] = "created"
  /\ \A f \in Entries : phase[f] # "merging"
  /\ seq' = IF netLoaded THEN seq ELSE Merged(seq, disk)
  /\ netLoaded' = TRUE
  /\ phase' = [phase EXCEPT ![e] = "merging"]
  /\ UNCHANGED <<legacyLoaded, count, saveTask, pending, importing, diskVars, meshVars>>

\* Mutant: the legacy value replaces the shared one instead of being merged.
LoadLegacyOverwrites(e) ==
  /\ phase[e] = "merging"
  /\ seq' = IF e \in legacyLoaded \/ legacy[e] = NoSeq
              THEN seq ELSE legacy[e] + SEQ_SAFETY_MARGIN
  /\ legacyLoaded' = legacyLoaded \cup {e}
  /\ phase' = [phase EXCEPT ![e] = "running"]
  /\ UNCHANGED <<netLoaded, count, saveTask, pending, importing, diskVars, meshVars>>

\* async_load, second half: the entry's legacy file is merged once per
\* process; _load_seq then hands the restored value back to the device.
LoadLegacy(e) ==
  /\ phase[e] = "merging"
  /\ seq' = IF e \in legacyLoaded THEN seq ELSE Merged(seq, legacy[e])
  /\ legacyLoaded' = legacyLoaded \cup {e}
  /\ phase' = [phase EXCEPT ![e] = "running"]
  /\ UNCHANGED <<netLoaded, count, saveTask, pending, importing, diskVars, meshVars>>

\* device.connect raises out of async_initial_connect: no async_stop runs, so
\* nothing is saved; Home Assistant retries with a new device and coordinator.
SetupFails(e) ==
  /\ phase[e] = "running"
  /\ phase' = [phase EXCEPT ![e] = "off"]
  /\ saveTask' = [saveTask EXCEPT ![e] = FALSE]
  /\ UNCHANGED <<seq, netLoaded, legacyLoaded, count, pending, importing,
                 diskVars, meshVars>>

-----------------------------------------------------------------------------
(* Allocation and transmission.                                            *)

\* One number leaves for lamp e: _next_seq reads and advances the store
\* without an await in between and the PDU is written with it.
Transmit(e) ==
  /\ seq <= MAX_SEQ
  /\ seq' = seq + 1
  /\ high' = Larger(high, seq + 1)
  /\ cache' = [cache EXCEPT ![e] = Larger(@, seq + 1)]
  /\ broken' = broken \cup (IF seq < high THEN {"nonce"} ELSE {})
                      \cup (IF seq < cache[e] THEN {"replay"} ELSE {})

Send(e) ==
  /\ Connected(e)
  /\ Transmit(e)
  /\ UNCHANGED <<netLoaded, legacyLoaded, phase, count, saveTask, pending,
                 importing, diskVars, doors>>

\* Mutant: the counter is not reset when a save is started.
NotifyNoReset(e) ==
  /\ Connected(e)
  /\ count' = [count EXCEPT ![e] = @ + 1]
  /\ saveTask' = [saveTask EXCEPT ![e] = @ \/ count[e] + 1 >= SEQ_PERSIST_INTERVAL]
  /\ UNCHANGED <<seq, netLoaded, legacyLoaded, phase, pending, importing,
                 diskVars, meshVars>>

\* A GenericOnOff or Generic Level Status arrives: _maybe_persist_seq counts
\* it and every SEQ_PERSIST_INTERVAL-th one starts a background save.
Notify(e) ==
  /\ Connected(e)
  /\ IF count[e] + 1 >= SEQ_PERSIST_INTERVAL
       THEN /\ count' = [count EXCEPT ![e] = 0]
            /\ saveTask' = [saveTask EXCEPT ![e] = TRUE]
       ELSE /\ count' = [count EXCEPT ![e] = @ + 1]
            /\ UNCHANGED saveTask
  /\ UNCHANGED <<seq, netLoaded, legacyLoaded, phase, pending, importing,
                 diskVars, meshVars>>

-----------------------------------------------------------------------------
(* Saving.                                                                 *)

\* The background task runs: async_save hands the current _seq to the Store.
SaveSeq(e) ==
  /\ saveTask[e]
  /\ pending' = seq
  /\ saveTask' = [saveTask EXCEPT ![e] = FALSE]
  /\ UNCHANGED <<seq, netLoaded, legacyLoaded, phase, count, importing,
                 diskVars, meshVars>>

\* Home Assistant's Store writes the latest data it was given, atomically;
\* every async_save that waits for the write returns.
StoreWrite ==
  /\ pending # NoSeq
  /\ disk' = pending
  /\ pending' = NoSeq
  /\ phase' = [e \in Entries |->
                 IF phase[e] = "saving" THEN "stopping" ELSE phase[e]]
  /\ UNCHANGED <<seq, netLoaded, legacyLoaded, count, saveTask, importing,
                 legacy, installed, initial, restarts, meshVars>>

\* async_stop saves first ...
StopBegin(e) ==
  /\ phase[e] = "running"
  /\ pending' = seq
  /\ phase' = [phase EXCEPT ![e] = "saving"]
  /\ UNCHANGED <<seq, netLoaded, legacyLoaded, count, saveTask, importing,
                 diskVars, meshVars>>

\* ... and after the save cancels the persist task and disconnects.
StopFinish(e) ==
  /\ phase[e] = "stopping"
  /\ phase' = [phase EXCEPT ![e] = "off"]
  /\ saveTask' = [saveTask EXCEPT ![e] = FALSE]
  /\ UNCHANGED <<seq, netLoaded, legacyLoaded, count, pending, importing,
                 diskVars, meshVars>>

-----------------------------------------------------------------------------
(* Configuration flows.                                                    *)

\* configure_existing_sig_light: the flow takes the shared store with the
\* initial sequence the user typed, and never calls async_load on it.
ImportBegin(e, typed) ==
  /\ e \notin installed \cup importing
  /\ seq' = Larger(seq, typed)
  /\ importing' = importing \cup {e}
  /\ OpenDoor("import", ~netLoaded /\ Larger(seq, typed) < high)
  /\ UNCHANGED <<netLoaded, legacyLoaded, phase, count, saveTask, pending,
                 diskVars, high, cache, broken>>

\* The composition request of connect, and the two model binds.
ImportSend(e) ==
  /\ e \in importing
  /\ Transmit(e)
  /\ UNCHANGED <<netLoaded, legacyLoaded, phase, count, saveTask, pending,
                 importing, diskVars, doors>>

\* The flow succeeds: get_seq() becomes the new entry's initial sequence.
ImportCreatesEntry(e) ==
  /\ e \in importing
  /\ importing' = importing \ {e}
  /\ installed' = installed \cup {e}
  /\ initial' = [initial EXCEPT ![e] = seq]
  /\ UNCHANGED <<seq, netLoaded, legacyLoaded, phase, count, saveTask, pending,
                 disk, legacy, restarts, meshVars>>

\* async_step_sig_light without binding of models: nothing is sent, the store
\* is left alone, and the number the user typed is the entry's initial sequence.
ImportUnbound(e, typed) ==
  /\ e \notin installed \cup importing
  /\ installed' = installed \cup {e}
  /\ initial' = [initial EXCEPT ![e] = typed]
  /\ OpenDoor("import", ~netLoaded /\ Larger(seq, Merged(typed, disk)) < high)
  /\ UNCHANGED <<procVars, disk, legacy, restarts, high, cache, broken>>

\* The flow fails (model_bind_failed): the numbers stay used.
ImportFails(e) ==
  /\ e \in importing
  /\ importing' = importing \ {e}
  /\ UNCHANGED <<seq, netLoaded, legacyLoaded, phase, count, saveTask, pending,
                 diskVars, meshVars>>

\* run_provision on the network it has just created: a device with its own
\* InMemorySeqStore connects and sends n composition requests, numbered from
\* 0.  (Its next call, send_config_app_key_add, is not a method of the device;
\* the exception is logged and the flow goes on.)  The entry it creates has no
\* initial sequence.  A flow whose connect sends nothing is an installed entry
\* of Init.
Provision(e, n) ==
  /\ installed = {} /\ importing = {} /\ disk = NoSeq /\ high = 0
  /\ installed' = {e}
  /\ initial' = [initial EXCEPT ![e] = 0]
  /\ high' = n
  /\ cache' = [cache EXCEPT ![e] = Larger(@, n)]
  /\ OpenDoor("provision", TRUE)
  /\ UNCHANGED <<procVars, disk, legacy, restarts, broken>>

-----------------------------------------------------------------------------
(* The process ends without async_stop (a crash, a power cut, or Home      *)
(* Assistant shutting down, which does not unload entries) and starts      *)
(* again.                                                                  *)

\* What entry e certainly starts from after a restart.
RestorePoint(e) == Merged(initial[e], disk)

Restart ==
  /\ restarts < MaxRestarts
  /\ restarts' = restarts + 1
  /\ seq' = 0
  /\ netLoaded' = FALSE
  /\ legacyLoaded' = {}
  /\ phase' = [e \in Entries |-> "off"]
  /\ count' = [e \in Entries |-> 0]
  /\ saveTask' = [e \in Entries |-> FALSE]
  /\ pending' = NoSeq
  /\ importing' = {}
  /\ OpenDoor("restart", \E e \in installed : RestorePoint(e) < high)
  /\ UNCHANGED <<disk, legacy, installed, initial, high, cache, broken>>

Next ==
  \/ \E e \in Entries :
       \/ SetupEntry(e) \/ LoadNetwork(e) \/ LoadLegacy(e) \/ SetupFails(e)
       \/ Send(e) \/ Notify(e)
       \/ SaveSeq(e) \/ StopBegin(e) \/ StopFinish(e)
       \/ \E typed \in InitialChoices : ImportBegin(e, typed) \/ ImportUnbound(e, typed)
       \/ ImportSend(e) \/ ImportCreatesEntry(e) \/ ImportFails(e)
       \/ \E n \in ProvisionSeqs : Provision(e, n)
  \/ StoreWrite
  \/ Restart

Spec == Init /\ [][Next]_vars
-----------------------------------------------------------------------------
(* What the store promises.                                                *)

\* A number is repeated, or rejected by a lamp, only after one of the three
\* known doors was opened: a restart that lost more than SEQ_SAFETY_MARGIN
\* unsaved numbers, an import flow on a store that was never loaded, with too
\* small a number, or a provisioning flow whose numbers the entry does not know.  No interleaving
\* of the loads, merges, saves, stops and retries of entries that share the
\* store does it (the claim of ha_sequence.py:1, with its exact condition).
OnlyThroughDoors == broken # {} => doors # {}

\* The persisted value never moves backwards, whichever of the coordinators
\* sharing the store saves last, and across restarts (async_save).
DiskNeverRegresses ==
  [][disk # NoSeq => (disk' # NoSeq /\ disk' >= disk)]_disk

\* The store, with the doors as its forfeits, implements a source of fresh
\* numbers (FreshNumbers).
Fresh == INSTANCE FreshNumbers WITH
           next <- high, repeated <- (broken # {}), forfeited <- (doors # {})
FreshSpec == Fresh!Spec

\* The claim of ha_sequence.py:1 ("Shared replay-safe SIG Mesh sequence
\* storage") taken without a condition: no number is repeated or rejected.
ReplaySafe == broken = {}

-----------------------------------------------------------------------------
(* The inductive invariant behind OnlyThroughDoors and DiskNeverRegresses. *)

\* An entry's coordinator is set up only for an installed entry, on a store
\* raised to its initial sequence; it passes _load_seq before it connects.
SetupOrder ==
  /\ \A e \in Entries :
       /\ phase[e] # "off" => e \in installed /\ seq >= initial[e]
       /\ phase[e] \in Phases \ {"off", "created"} => netLoaded
       /\ Connected(e) => e \in legacyLoaded
       /\ saveTask[e] => Connected(e)
       /\ e \notin installed => legacy[e] = NoSeq
       /\ e \in legacyLoaded /\ legacy[e] # NoSeq
            => seq >= legacy[e] + SEQ_SAFETY_MARGIN
  /\ importing \cap installed = {}

\* Only a loaded store is saved, and nothing it saves is behind the disk.
SaveOrder ==
  /\ pending # NoSeq =>
       /\ netLoaded
       /\ pending <= seq
       /\ disk # NoSeq => disk <= pending
  /\ disk # NoSeq /\ netLoaded => disk <= seq

\* While no door was opened, whoever may allocate is past all used numbers,
\* and what is on disk restores every entry past them unless memory still
\* does.
Ahead ==
  doors = {} =>
    /\ broken = {}
    /\ netLoaded \/ importing # {} => seq >= high
    /\ seq >= high \/ \A e \in installed : RestorePoint(e) >= high
    /\ \A e \in Entries :
         cache[e] <= IF legacy[e] = NoSeq
                       THEN high ELSE Larger(high, legacy[e] + SEQ_SAFETY_MARGIN)

IInv == TypeOK /\ SetupOrder /\ SaveOrder /\ Ahead
===========================================================================
