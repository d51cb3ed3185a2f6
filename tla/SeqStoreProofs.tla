-------------------------- MODULE SeqStoreProofs --------------------------
(***************************************************************************)
(* Proofs about SeqStore for every set of entries, margin, interval, width *)
(* and number of restarts.                                                 *)
(***************************************************************************)
EXTENDS SeqStore, TLAPS

USE NoSeqAssumption, MarginAssumption, IntervalAssumption, MaxSeqAssumption,
    ChoicesAssumption, ProvisionAssumption, RestartsAssumption

-----------------------------------------------------------------------------
(* Type correctness.                                                       *)

\* The larger of two numbers is a number that bounds both of them and is one
\* of them (the max of HASequenceStore.set_seq).
LEMMA LargerBounds ==
  ASSUME NEW a \in Nat, NEW b \in Nat
  PROVE  /\ Larger(a, b) \in Nat
         /\ Larger(a, b) >= a
         /\ Larger(a, b) >= b
         /\ Larger(a, b) \in {a, b}
BY DEF Larger

\* Merging a stored value never lowers the store and lifts it past the stored
\* value by the margin (async_load).
LEMMA MergedBounds ==
  ASSUME NEW s \in Nat, NEW stored \in Nat \cup {NoSeq}
  PROVE  /\ Merged(s, stored) \in Nat
         /\ Merged(s, stored) >= s
         /\ stored # NoSeq => Merged(s, stored) >= stored + SEQ_SAFETY_MARGIN
BY DEF Merged, Larger

\* A larger in-memory value merges to a larger value (restoring from a store
\* that is already ahead cannot lose numbers).
LEMMA MergedMonotone ==
  ASSUME NEW s \in Nat, NEW t \in Nat, s <= t, NEW stored \in Nat \cup {NoSeq}
  PROVE  Merged(s, stored) <= Merged(t, stored)
BY DEF Merged, Larger

\* A fresh notification counter is in range.
LEMMA ZeroCounts == [e \in Entries |-> 0] \in [Entries -> 0..(SEQ_PERSIST_INTERVAL - 1)]
<1>1. 0 \in 0..(SEQ_PERSIST_INTERVAL - 1)
  OBVIOUS
<1>. QED  BY <1>1

LEMMA TypeInit == Init => TypeOK
<1> SUFFICES ASSUME Init PROVE TypeOK
  OBVIOUS
<1>1. initial \in [Entries -> Nat]
  <2>1. {0} \cup InitialChoices \subseteq Nat
    OBVIOUS
  <2>. QED  BY <2>1 DEF Init
<1>2. legacy \in [Entries -> Nat \cup {NoSeq}]
  BY DEF Init
<1>3. \A e \in Entries :
        (IF legacy[e] = NoSeq THEN 0 ELSE legacy[e] + SEQ_SAFETY_MARGIN) \in Nat
  BY <1>2
<1>4. cache \in [Entries -> Nat]
  BY <1>3 DEF Init
<1>5. phase \in [Entries -> Phases] /\ saveTask \in [Entries -> BOOLEAN]
  BY DEF Init, Phases
<1>6. restarts \in 0..MaxRestarts
  BY DEF Init
<1>. QED
  BY <1>1, <1>2, <1>4, <1>5, <1>6, ZeroCounts DEF Init, TypeOK

\* The two parts of a transmission that carry history keep their types.
LEMMA TransmitTypes ==
  ASSUME TypeOK, NEW e \in Entries, Transmit(e)
  PROVE  /\ seq' \in Nat
         /\ high' \in Nat
         /\ cache' \in [Entries -> Nat]
         /\ broken' \in SUBSET Promises
<1>1. seq' \in Nat /\ high' \in Nat
  BY LargerBounds DEF TypeOK, Transmit
<1>2. Larger(cache[e], seq + 1) \in Nat
  BY DEF TypeOK, Larger
<1>3. cache' \in [Entries -> Nat]
  BY <1>2 DEF TypeOK, Transmit
<1>4. broken' \in SUBSET Promises
  BY DEF TypeOK, Transmit, Promises
<1>. QED  BY <1>1, <1>3, <1>4

\* Every step keeps the types of the store, the coordinators and the disk.
LEMMA TypeStep == TypeOK /\ [Next]_vars => TypeOK'
<1> SUFFICES ASSUME TypeOK, [Next]_vars PROVE TypeOK'
  OBVIOUS
<1> USE DEF diskVars, meshVars, procVars
<1>1. ASSUME NEW e \in Entries, SetupEntry(e) PROVE TypeOK'
  <2>1. Larger(seq, initial[e]) \in Nat
    BY DEF TypeOK, Larger
  <2>2. count' \in [Entries -> 0..(SEQ_PERSIST_INTERVAL - 1)]
    <3>1. 0 \in 0..(SEQ_PERSIST_INTERVAL - 1)
      OBVIOUS
    <3>. QED  BY <1>1, <3>1 DEF TypeOK, SetupEntry
  <2>. QED  BY <1>1, <2>1, <2>2 DEF TypeOK, SetupEntry, Phases
<1>2. ASSUME NEW e \in Entries, LoadNetwork(e) PROVE TypeOK'
  BY <1>2, MergedBounds DEF TypeOK, LoadNetwork, Phases
<1>3. ASSUME NEW e \in Entries, LoadLegacy(e) PROVE TypeOK'
  BY <1>3, MergedBounds DEF TypeOK, LoadLegacy, Phases
<1>4. ASSUME NEW e \in Entries, SetupFails(e) PROVE TypeOK'
  BY <1>4 DEF TypeOK, SetupFails, Phases
<1>5. ASSUME NEW e \in Entries, Send(e) PROVE TypeOK'
  BY <1>5, TransmitTypes DEF TypeOK, Send
<1>6. ASSUME NEW e \in Entries, Notify(e) PROVE TypeOK'
  <2>1. count[e] \in 0..(SEQ_PERSIST_INTERVAL - 1)
    BY DEF TypeOK
  <2>2. 0 \in 0..(SEQ_PERSIST_INTERVAL - 1)
    OBVIOUS
  <2>3. count' \in [Entries -> 0..(SEQ_PERSIST_INTERVAL - 1)]
    <3>1. CASE count[e] + 1 >= SEQ_PERSIST_INTERVAL
      BY <1>6, <2>2, <3>1 DEF TypeOK, Notify
    <3>2. CASE ~(count[e] + 1 >= SEQ_PERSIST_INTERVAL)
      <4>1. count[e] + 1 \in 0..(SEQ_PERSIST_INTERVAL - 1)
        BY <2>1, <3>2
      <4>. QED  BY <1>6, <3>2, <4>1 DEF TypeOK, Notify
    <3>. QED  BY <3>1, <3>2
  <2>. QED  BY <1>6, <2>3 DEF TypeOK, Notify
<1>7. ASSUME NEW e \in Entries, SaveSeq(e) PROVE TypeOK'
  BY <1>7 DEF TypeOK, SaveSeq
<1>8. ASSUME NEW e \in Entries, StopBegin(e) PROVE TypeOK'
  BY <1>8 DEF TypeOK, StopBegin, Phases
<1>9. ASSUME NEW e \in Entries, StopFinish(e) PROVE TypeOK'
  BY <1>9 DEF TypeOK, StopFinish, Phases
<1>10. ASSUME NEW e \in Entries, NEW typed \in InitialChoices, ImportBegin(e, typed)
       PROVE  TypeOK'
  BY <1>10, LargerBounds DEF TypeOK, ImportBegin, OpenDoor, Doors
<1>11. ASSUME NEW e \in Entries, ImportSend(e) PROVE TypeOK'
  BY <1>11, TransmitTypes DEF TypeOK, ImportSend
<1>12. ASSUME NEW e \in Entries, ImportCreatesEntry(e) PROVE TypeOK'
  BY <1>12 DEF TypeOK, ImportCreatesEntry
<1>13. ASSUME NEW e \in Entries, ImportFails(e) PROVE TypeOK'
  BY <1>13 DEF TypeOK, ImportFails
<1>18. ASSUME NEW e \in Entries, NEW typed \in InitialChoices, ImportUnbound(e, typed)
       PROVE  TypeOK'
  <2>1. typed \in Nat
    BY ChoicesAssumption
  <2>2. initial' \in [Entries -> Nat] /\ doors' \in SUBSET Doors
    BY <1>18, <2>1 DEF TypeOK, ImportUnbound, OpenDoor, Doors
  <2>. QED  BY <1>18, <2>2 DEF TypeOK, ImportUnbound, procVars
<1>14. ASSUME NEW e \in Entries, NEW n \in ProvisionSeqs, Provision(e, n)
       PROVE  TypeOK'
  <2>1. n \in Nat
    OBVIOUS
  <2>2. Larger(cache[e], n) \in Nat
    BY <2>1 DEF TypeOK, Larger
  <2>3. doors' \in SUBSET Doors
    BY <1>14 DEF TypeOK, Provision, OpenDoor, Doors
  <2>. QED  BY <1>14, <2>1, <2>2, <2>3 DEF TypeOK, Provision
<1>15. CASE StoreWrite
  BY <1>15 DEF TypeOK, StoreWrite, Phases
<1>16. CASE Restart
  <2>1. doors' \in SUBSET Doors
    BY <1>16 DEF TypeOK, Restart, OpenDoor, Doors
  <2>2. restarts' \in 0..MaxRestarts
    BY <1>16 DEF TypeOK, Restart
  <2>3. phase' \in [Entries -> Phases] /\ saveTask' \in [Entries -> BOOLEAN]
    BY <1>16 DEF Restart, Phases
  <2>. QED  BY <1>16, <2>1, <2>2, <2>3, ZeroCounts DEF TypeOK, Restart
<1>17. CASE UNCHANGED vars
  BY <1>17 DEF TypeOK, vars
<1>. QED
  BY <1>1, <1>2, <1>3, <1>4, <1>5, <1>6, <1>7, <1>8, <1>9, <1>10, <1>11, <1>12,
     <1>13, <1>14, <1>15, <1>16, <1>17, <1>18 DEF Next

\* The store, the coordinators and the files always hold values of their type.
THEOREM TypeCorrect == Spec => []TypeOK
BY TypeInit, TypeStep, PTL DEF Spec
-----------------------------------------------------------------------------
(* The inductive invariant.                                                *)

\* Loading the network file only raises the store, past the file when it is
\* the first load of the process (async_load).
LEMMA LoadNetworkRaises ==
  ASSUME TypeOK, NEW e \in Entries, LoadNetwork(e)
  PROVE  /\ seq' \in Nat
         /\ seq' >= seq
         /\ ~netLoaded => seq' = Merged(seq, disk)
         /\ ~netLoaded /\ disk # NoSeq => seq' >= disk
<1>1. seq \in Nat /\ disk \in Nat \cup {NoSeq} /\ netLoaded \in BOOLEAN
  BY DEF TypeOK
<1>2. seq' = IF netLoaded THEN seq ELSE Merged(seq, disk)
  BY DEF LoadNetwork
<1>3. /\ Merged(seq, disk) \in Nat
      /\ Merged(seq, disk) >= seq
      /\ disk # NoSeq => Merged(seq, disk) >= disk + SEQ_SAFETY_MARGIN
  BY <1>1, MergedBounds
<1>. QED  BY <1>1, <1>2, <1>3

\* Merging an entry's legacy file only raises the store, past that file when
\* it is the entry's first merge of the process (async_load).
LEMMA LoadLegacyRaises ==
  ASSUME TypeOK, NEW e \in Entries, LoadLegacy(e)
  PROVE  /\ seq' \in Nat
         /\ seq' >= seq
         /\ e \notin legacyLoaded /\ legacy[e] # NoSeq
              => seq' >= legacy[e] + SEQ_SAFETY_MARGIN
<1>1. seq \in Nat /\ legacy[e] \in Nat \cup {NoSeq}
  BY DEF TypeOK
<1>2. seq' = IF e \in legacyLoaded THEN seq ELSE Merged(seq, legacy[e])
  BY DEF LoadLegacy
<1>3. /\ Merged(seq, legacy[e]) \in Nat
      /\ Merged(seq, legacy[e]) >= seq
      /\ legacy[e] # NoSeq => Merged(seq, legacy[e]) >= legacy[e] + SEQ_SAFETY_MARGIN
  BY <1>1, MergedBounds
<1>. QED  BY <1>1, <1>2, <1>3

\* get_ha_sequence_store only raises the store, to the entry's initial value.
LEMMA SetupEntryRaises ==
  ASSUME TypeOK, NEW e \in Entries, SetupEntry(e)
  PROVE  seq' \in Nat /\ seq' >= seq /\ seq' >= initial[e]
<1>1. seq \in Nat /\ initial[e] \in Nat
  BY DEF TypeOK
<1>. QED  BY <1>1, LargerBounds DEF SetupEntry

LEMMA InvInit == Init => IInv
<1> SUFFICES ASSUME Init PROVE IInv
  OBVIOUS
<1>1. TypeOK
  BY TypeInit
<1>2. SetupOrder
  BY DEF Init, SetupOrder, Connected, Phases
<1>3. SaveOrder
  BY DEF Init, SaveOrder
<1>4. Ahead
  <2>1. ASSUME NEW e \in Entries
        PROVE  cache[e] <= IF legacy[e] = NoSeq
                             THEN high ELSE Larger(high, legacy[e] + SEQ_SAFETY_MARGIN)
    <3>1. cache[e] = IF legacy[e] = NoSeq THEN 0 ELSE legacy[e] + SEQ_SAFETY_MARGIN
      BY DEF Init
    <3>2. high = 0 /\ legacy[e] \in Nat \cup {NoSeq}
      BY <1>1 DEF Init, TypeOK
    <3>. QED  BY <3>1, <3>2 DEF Larger
  <2>. QED  BY <2>1 DEF Init, Ahead
<1>. QED  BY <1>1, <1>2, <1>3, <1>4 DEF IInv

\* Coordinators are created, load and connect in order, whatever the other
\* entries and the flows do in between (async_setup_entry, _load_seq).
LEMMA SetupOrderStep == IInv /\ [Next]_vars => SetupOrder'
<1> SUFFICES ASSUME TypeOK, SetupOrder, [Next]_vars PROVE SetupOrder'
  BY DEF IInv
<1> USE DEF SetupOrder, Connected, diskVars, meshVars, procVars
<1>1. ASSUME NEW e \in Entries, SetupEntry(e) PROVE SetupOrder'
  <2>1. seq' \in Nat /\ seq' >= seq /\ seq' >= initial[e]
    BY <1>1, SetupEntryRaises
  <2>. QED  BY <1>1, <2>1 DEF TypeOK, SetupEntry, Phases
<1>2. ASSUME NEW e \in Entries, LoadNetwork(e) PROVE SetupOrder'
  <2>1. seq' \in Nat /\ seq' >= seq
    BY <1>2, LoadNetworkRaises
  <2>. QED  BY <1>2, <2>1 DEF TypeOK, LoadNetwork, Phases
<1>3. ASSUME NEW e \in Entries, LoadLegacy(e) PROVE SetupOrder'
  <2>1. seq' \in Nat /\ seq' >= seq
    BY <1>3, LoadLegacyRaises
  <2>2. legacy[e] # NoSeq => seq' >= legacy[e] + SEQ_SAFETY_MARGIN
    BY <1>3, <2>1, LoadLegacyRaises DEF TypeOK
  <2>. QED  BY <1>3, <2>1, <2>2 DEF TypeOK, LoadLegacy, Phases
<1>4. ASSUME NEW e \in Entries, SetupFails(e) PROVE SetupOrder'
  BY <1>4 DEF TypeOK, SetupFails, Phases
<1>5. ASSUME NEW e \in Entries, Send(e) PROVE SetupOrder'
  BY <1>5 DEF TypeOK, Send, Transmit
<1>6. ASSUME NEW e \in Entries, Notify(e) PROVE SetupOrder'
  BY <1>6 DEF TypeOK, Notify
<1>7. ASSUME NEW e \in Entries, SaveSeq(e) PROVE SetupOrder'
  BY <1>7 DEF TypeOK, SaveSeq
<1>8. ASSUME NEW e \in Entries, StopBegin(e) PROVE SetupOrder'
  BY <1>8 DEF TypeOK, StopBegin, Phases
<1>9. ASSUME NEW e \in Entries, StopFinish(e) PROVE SetupOrder'
  BY <1>9 DEF TypeOK, StopFinish, Phases
<1>10. ASSUME NEW e \in Entries, NEW typed \in InitialChoices, ImportBegin(e, typed)
       PROVE  SetupOrder'
  <2>1. seq' \in Nat /\ seq' >= seq
    BY <1>10, LargerBounds DEF TypeOK, ImportBegin
  <2>. QED  BY <1>10, <2>1 DEF TypeOK, ImportBegin
<1>11. ASSUME NEW e \in Entries, ImportSend(e) PROVE SetupOrder'
  BY <1>11 DEF TypeOK, ImportSend, Transmit
<1>12. ASSUME NEW e \in Entries, ImportCreatesEntry(e) PROVE SetupOrder'
  BY <1>12 DEF TypeOK, ImportCreatesEntry
<1>13. ASSUME NEW e \in Entries, ImportFails(e) PROVE SetupOrder'
  BY <1>13 DEF TypeOK, ImportFails
<1>18. ASSUME NEW e \in Entries, NEW typed \in InitialChoices, ImportUnbound(e, typed)
       PROVE  SetupOrder'
  BY <1>18 DEF TypeOK, ImportUnbound, procVars
<1>14. ASSUME NEW e \in Entries, NEW n \in ProvisionSeqs, Provision(e, n)
       PROVE  SetupOrder'
  BY <1>14 DEF TypeOK, Provision
<1>15. CASE StoreWrite
  BY <1>15 DEF TypeOK, StoreWrite, Phases
<1>16. CASE Restart
  BY <1>16 DEF TypeOK, Restart
<1>17. CASE UNCHANGED vars
  BY <1>17 DEF vars
<1>. QED
  BY <1>1, <1>2, <1>3, <1>4, <1>5, <1>6, <1>7, <1>8, <1>9, <1>10, <1>11, <1>12,
     <1>13, <1>14, <1>15, <1>16, <1>17, <1>18 DEF Next

\* What is waiting to be written, and what is written, never runs ahead of a
\* loaded store, and no write goes back (async_save, async_load).
LEMMA SaveOrderStep == IInv /\ [Next]_vars => SaveOrder'
<1> SUFFICES ASSUME TypeOK, SetupOrder, SaveOrder, [Next]_vars PROVE SaveOrder'
  BY DEF IInv
<1> USE DEF SaveOrder, diskVars, meshVars, procVars
<1>1. ASSUME NEW e \in Entries, SetupEntry(e) PROVE SaveOrder'
  <2>1. seq' \in Nat /\ seq' >= seq
    BY <1>1, SetupEntryRaises
  <2>. QED  BY <1>1, <2>1 DEF TypeOK, SetupEntry
<1>2. ASSUME NEW e \in Entries, LoadNetwork(e) PROVE SaveOrder'
  <2>1. seq' \in Nat /\ seq' >= seq
    BY <1>2, LoadNetworkRaises
  <2>2. disk # NoSeq => disk <= seq'
    BY <1>2, <2>1, LoadNetworkRaises DEF TypeOK
  <2>. QED  BY <1>2, <2>1, <2>2 DEF TypeOK, LoadNetwork
<1>3. ASSUME NEW e \in Entries, LoadLegacy(e) PROVE SaveOrder'
  <2>1. seq' \in Nat /\ seq' >= seq
    BY <1>3, LoadLegacyRaises
  <2>. QED  BY <1>3, <2>1 DEF TypeOK, LoadLegacy
<1>4. ASSUME NEW e \in Entries, SetupFails(e) PROVE SaveOrder'
  BY <1>4 DEF SetupFails
<1>5. ASSUME NEW e \in Entries, Send(e) PROVE SaveOrder'
  BY <1>5 DEF TypeOK, Send, Transmit
<1>6. ASSUME NEW e \in Entries, Notify(e) PROVE SaveOrder'
  BY <1>6 DEF Notify
<1>7. ASSUME NEW e \in Entries, SaveSeq(e) PROVE SaveOrder'
  BY <1>7 DEF TypeOK, SaveSeq, SetupOrder, Connected, Phases
<1>8. ASSUME NEW e \in Entries, StopBegin(e) PROVE SaveOrder'
  BY <1>8 DEF TypeOK, StopBegin, SetupOrder, Phases
<1>9. ASSUME NEW e \in Entries, StopFinish(e) PROVE SaveOrder'
  BY <1>9 DEF StopFinish
<1>10. ASSUME NEW e \in Entries, NEW typed \in InitialChoices, ImportBegin(e, typed)
       PROVE  SaveOrder'
  <2>1. seq' \in Nat /\ seq' >= seq
    BY <1>10, LargerBounds DEF TypeOK, ImportBegin
  <2>. QED  BY <1>10, <2>1 DEF TypeOK, ImportBegin
<1>11. ASSUME NEW e \in Entries, ImportSend(e) PROVE SaveOrder'
  BY <1>11 DEF TypeOK, ImportSend, Transmit
<1>12. ASSUME NEW e \in Entries, ImportCreatesEntry(e) PROVE SaveOrder'
  BY <1>12 DEF ImportCreatesEntry
<1>13. ASSUME NEW e \in Entries, ImportFails(e) PROVE SaveOrder'
  BY <1>13 DEF ImportFails
<1>18. ASSUME NEW e \in Entries, NEW typed \in InitialChoices, ImportUnbound(e, typed)
       PROVE  SaveOrder'
  BY <1>18 DEF ImportUnbound, procVars
<1>14. ASSUME NEW e \in Entries, NEW n \in ProvisionSeqs, Provision(e, n)
       PROVE  SaveOrder'
  BY <1>14 DEF Provision
<1>15. CASE StoreWrite
  BY <1>15 DEF TypeOK, StoreWrite
<1>16. CASE Restart
  BY <1>16 DEF Restart
<1>17. CASE UNCHANGED vars
  BY <1>17 DEF vars
<1>. QED
  BY <1>1, <1>2, <1>3, <1>4, <1>5, <1>6, <1>7, <1>8, <1>9, <1>10, <1>11, <1>12,
     <1>13, <1>14, <1>15, <1>16, <1>17, <1>18 DEF Next
\* What lamp e has accepted stays behind what is used or what its legacy file
\* restores (the cache conjunct of Ahead).
CacheBound(e) ==
  cache[e] <= IF legacy[e] = NoSeq
                THEN high ELSE Larger(high, legacy[e] + SEQ_SAFETY_MARGIN)

\* A number allocated from a store that is past all used numbers, and past the
\* lamp's legacy value, breaks no promise and keeps the store ahead (_next_seq).
LEMMA TransmitAhead ==
  ASSUME TypeOK, NEW e \in Entries, Transmit(e),
         broken = {}, seq >= high, seq >= cache[e],
         \A f \in Entries : CacheBound(f), UNCHANGED legacy
  PROVE  /\ broken' = {}
         /\ seq' >= high'
         /\ \A f \in Entries : CacheBound(f)'
<1>1. /\ seq \in Nat /\ high \in Nat /\ cache \in [Entries -> Nat]
      /\ legacy \in [Entries -> Nat \cup {NoSeq}]
  BY DEF TypeOK
<1>2. high' = seq + 1 /\ seq' = seq + 1
  BY <1>1 DEF Transmit, Larger
<1>3. broken' = {}
  BY <1>1 DEF Transmit
<1>4. ASSUME NEW f \in Entries PROVE CacheBound(f)'
  <2>1. cache'[f] <= Larger(cache[f], seq + 1)
    BY <1>1 DEF Transmit, Larger
  <2>2. cache'[f] \in Nat
    BY <1>1 DEF Transmit, Larger
  <2>3. CacheBound(f)
    OBVIOUS
  <2>. QED  BY <1>1, <1>2, <2>1, <2>2, <2>3 DEF CacheBound, Larger
<1>. QED  BY <1>2, <1>3, <1>4

\* Unless a door opens, the store that may allocate stays ahead of every used
\* number, and so does what the next restart restores.
LEMMA AheadStep == IInv /\ [Next]_vars => Ahead'
<1> SUFFICES ASSUME TypeOK, SetupOrder, SaveOrder, Ahead, [Next]_vars, doors' = {}
             PROVE  /\ broken' = {}
                    /\ netLoaded' \/ importing' # {} => seq' >= high'
                    /\ \/ seq' >= high'
                       \/ \A f \in installed' : (RestorePoint(f) >= high)'
                    /\ \A f \in Entries : CacheBound(f)'
  BY DEF IInv, Ahead, CacheBound
<1> DEFINE Goal ==
      /\ broken' = {}
      /\ netLoaded' \/ importing' # {} => seq' >= high'
      /\ \/ seq' >= high'
         \/ \A f \in installed' : (RestorePoint(f) >= high)'
      /\ \A f \in Entries : CacheBound(f)'
<1>a. seq \in Nat /\ high \in Nat /\ cache \in [Entries -> Nat]
      /\ legacy \in [Entries -> Nat \cup {NoSeq}] /\ disk \in Nat \cup {NoSeq}
      /\ initial \in [Entries -> Nat] /\ installed \subseteq Entries
  BY DEF TypeOK
<1>b. doors = {} =>
        /\ broken = {}
        /\ netLoaded \/ importing # {} => seq >= high
        /\ seq >= high \/ \A f \in installed : RestorePoint(f) >= high
        /\ \A f \in Entries : CacheBound(f)
  BY DEF Ahead, CacheBound
<1>c. ASSUME seq' \in Nat, seq' >= seq, doors = {},
             UNCHANGED <<high, disk, initial, legacy, cache, broken, installed, netLoaded,
                         importing>>
      PROVE  Goal
  BY <1>a, <1>b, <1>c DEF RestorePoint, Merged, Larger, CacheBound
<1> USE DEF diskVars, meshVars, procVars
<1>1. ASSUME NEW e \in Entries, SetupEntry(e) PROVE Goal
  BY <1>1, <1>c, SetupEntryRaises DEF SetupEntry
<1>2. ASSUME NEW e \in Entries, LoadNetwork(e) PROVE Goal
  <2>1. seq' \in Nat /\ seq' >= seq /\ (~netLoaded => seq' = Merged(seq, disk))
    BY <1>2, LoadNetworkRaises
  <2>2. doors = {}
    BY <1>2 DEF LoadNetwork
  <2>3. CASE seq >= high
    BY <1>2, <1>a, <1>b, <2>1, <2>2, <2>3 DEF LoadNetwork, CacheBound
  <2>4. CASE ~(seq >= high)
    <3>1. ~netLoaded
      BY <1>b, <2>2, <2>4
    <3>2. e \in installed /\ initial[e] <= seq
      BY <1>2, <1>a DEF LoadNetwork, SetupOrder
    <3>3. Merged(initial[e], disk) >= high
      BY <1>b, <2>2, <2>4, <3>2 DEF RestorePoint
    <3>4. Merged(initial[e], disk) <= Merged(seq, disk)
      BY <1>a, <3>2, MergedMonotone
    <3>5. Merged(initial[e], disk) \in Nat
      BY <1>a, MergedBounds
    <3>6. seq' >= high
      BY <1>a, <2>1, <3>1, <3>3, <3>4, <3>5
    <3>. QED  BY <1>2, <1>a, <1>b, <2>2, <3>6 DEF LoadNetwork, CacheBound
  <2>. QED  BY <2>3, <2>4
<1>3. ASSUME NEW e \in Entries, LoadLegacy(e) PROVE Goal
  BY <1>3, <1>c, LoadLegacyRaises DEF LoadLegacy
<1>4. ASSUME NEW e \in Entries, SetupFails(e) PROVE Goal
  BY <1>4, <1>a, <1>c DEF SetupFails
<1>5. ASSUME NEW e \in Entries, Send(e) PROVE Goal
  <2>1. doors = {} /\ netLoaded /\ UNCHANGED legacy
    BY <1>5 DEF Send, Connected, SetupOrder, Phases
  <2>2. seq >= high /\ broken = {} /\ \A f \in Entries : CacheBound(f)
    BY <1>b, <2>1
  <2>3. legacy[e] # NoSeq => seq >= legacy[e] + SEQ_SAFETY_MARGIN
    BY <1>5 DEF Send, SetupOrder
  <2>4. seq >= cache[e]
    BY <1>a, <2>2, <2>3 DEF CacheBound, Larger
  <2>. QED  BY <1>5, <2>1, <2>2, <2>4, TransmitAhead DEF Send
<1>6. ASSUME NEW e \in Entries, Notify(e) PROVE Goal
  BY <1>6, <1>a, <1>c DEF Notify
<1>7. ASSUME NEW e \in Entries, SaveSeq(e) PROVE Goal
  BY <1>7, <1>a, <1>c DEF SaveSeq
<1>8. ASSUME NEW e \in Entries, StopBegin(e) PROVE Goal
  BY <1>8, <1>a, <1>c DEF StopBegin
<1>9. ASSUME NEW e \in Entries, StopFinish(e) PROVE Goal
  BY <1>9, <1>a, <1>c DEF StopFinish
<1>10. ASSUME NEW e \in Entries, NEW typed \in InitialChoices, ImportBegin(e, typed)
       PROVE  Goal
  <2>1. typed \in Nat /\ seq' = Larger(seq, typed)
    BY <1>10 DEF ImportBegin
  <2>2. doors = {} /\ ~(~netLoaded /\ Larger(seq, typed) < high)
    BY <1>10 DEF ImportBegin, OpenDoor
  <2>3. seq' \in Nat /\ seq' >= high
    BY <1>a, <1>b, <2>1, <2>2 DEF Larger
  <2>. QED  BY <1>10, <1>a, <1>b, <2>2, <2>3 DEF ImportBegin, CacheBound
<1>11. ASSUME NEW e \in Entries, ImportSend(e) PROVE Goal
  <2>1. doors = {} /\ importing # {} /\ UNCHANGED legacy
    BY <1>11 DEF ImportSend
  <2>2. seq >= high /\ broken = {} /\ \A f \in Entries : CacheBound(f)
    BY <1>b, <2>1
  <2>3. legacy[e] = NoSeq
    BY <1>11 DEF ImportSend, SetupOrder
  <2>4. seq >= cache[e]
    BY <1>a, <2>2, <2>3 DEF CacheBound
  <2>. QED  BY <1>11, <2>1, <2>2, <2>4, TransmitAhead DEF ImportSend
<1>12. ASSUME NEW e \in Entries, ImportCreatesEntry(e) PROVE Goal
  <2>1. doors = {} /\ importing # {}
    BY <1>12 DEF ImportCreatesEntry
  <2>. QED  BY <1>12, <1>a, <1>b, <2>1 DEF ImportCreatesEntry, CacheBound
<1>13. ASSUME NEW e \in Entries, ImportFails(e) PROVE Goal
  <2>1. doors = {} /\ importing # {}
    BY <1>13 DEF ImportFails
  <2>. QED  BY <1>13, <1>a, <1>b, <2>1 DEF ImportFails, CacheBound
<1>18. ASSUME NEW e \in Entries, NEW typed \in InitialChoices, ImportUnbound(e, typed)
       PROVE  Goal
  <2>1. doors = {} /\ ~(~netLoaded /\ Larger(seq, Merged(typed, disk)) < high)
    BY <1>18 DEF ImportUnbound, OpenDoor
  <2>2. ~(Larger(seq, Merged(typed, disk)) < high)
          => seq >= high \/ Merged(typed, disk) >= high
    <3>1. typed \in Nat
      BY ChoicesAssumption
    <3>2. Merged(typed, disk) \in Nat
      BY <1>a, <3>1, MergedBounds
    <3>. QED  BY <1>a, <3>2 DEF Larger
  <2>3. /\ e \notin installed /\ installed' = installed \cup {e}
        /\ initial' = [initial EXCEPT ![e] = typed]
        /\ UNCHANGED <<seq, netLoaded, importing, disk, legacy, high, cache, broken>>
    BY <1>18 DEF ImportUnbound, procVars
  <2>4. (RestorePoint(e) >= high)' <=> Merged(typed, disk) >= high
    BY <1>a, <2>3 DEF RestorePoint, Merged
  <2>5. \A f \in installed : RestorePoint(f) >= high => (RestorePoint(f) >= high)'
    BY <1>a, <2>3 DEF RestorePoint, Merged
  <2>6. netLoaded => seq >= high
    BY <1>b, <2>1
  <2>7. seq' >= high' \/ \A f \in installed' : (RestorePoint(f) >= high)'
    <3>1. CASE seq >= high
      BY <2>3, <3>1
    <3>2. CASE ~(seq >= high)
      <4>1. Merged(typed, disk) >= high
        BY <2>1, <2>2, <2>6, <3>2
      <4>2. \A f \in installed : (RestorePoint(f) >= high)'
        BY <1>b, <2>1, <2>5, <3>2
      <4>. QED  BY <2>3, <2>4, <4>1, <4>2
    <3>. QED  BY <3>1, <3>2
  <2>. QED  BY <1>b, <2>1, <2>3, <2>7 DEF CacheBound
<1>14. ASSUME NEW e \in Entries, NEW n \in ProvisionSeqs, Provision(e, n)
       PROVE  Goal
  BY <1>14 DEF Provision, OpenDoor
<1>15. CASE StoreWrite
  <2>1. doors = {} /\ netLoaded
    BY <1>15 DEF StoreWrite, SaveOrder
  <2>. QED  BY <1>15, <1>a, <1>b, <2>1 DEF StoreWrite, CacheBound
<1>16. CASE Restart
  <2>1. doors = {} /\ \A f \in installed : ~(RestorePoint(f) < high)
    BY <1>16 DEF Restart, OpenDoor
  <2>2. \A f \in installed : RestorePoint(f) \in Nat
    BY <1>a, MergedBounds DEF RestorePoint
  <2>3. \A f \in installed : RestorePoint(f) >= high
    BY <1>a, <2>1, <2>2
  <2>4. \A f \in installed' : (RestorePoint(f) >= high)'
    BY <1>16, <2>3 DEF Restart, RestorePoint
  <2>5. \A f \in Entries : CacheBound(f)'
    BY <1>16, <1>b, <2>1 DEF Restart, CacheBound
  <2>. QED  BY <1>16, <1>b, <2>1, <2>4, <2>5 DEF Restart
<1>17. CASE UNCHANGED vars
  BY <1>17, <1>a, <1>c DEF vars
<1>. QED
  BY <1>1, <1>2, <1>3, <1>4, <1>5, <1>6, <1>7, <1>8, <1>9, <1>10, <1>11, <1>12,
     <1>13, <1>14, <1>15, <1>16, <1>17, <1>18 DEF Next

\* The inductive invariant holds in every reachable state.
THEOREM Inductive == Spec => []IInv
<1>1. IInv /\ [Next]_vars => IInv'
  BY TypeStep, SetupOrderStep, SaveOrderStep, AheadStep DEF IInv
<1>. QED  BY <1>1, InvInit, PTL DEF Spec

\* For every number of entries, margin and save interval, numbers are repeated
\* or rejected only after a lossy restart, an import on an unloaded store, or a
\* provisioning flow; loads, merges, saves and retries alone never do it.
THEOREM ReuseNeedsDoor == Spec => []OnlyThroughDoors
<1>1. IInv => OnlyThroughDoors
  BY DEF IInv, Ahead, OnlyThroughDoors
<1>. QED  BY <1>1, Inductive, PTL

\* The persisted sequence number never decreases.
THEOREM DiskMonotone == Spec => DiskNeverRegresses
<1>1. IInv /\ [Next]_vars => [disk # NoSeq => (disk' # NoSeq /\ disk' >= disk)]_disk
  <2> SUFFICES ASSUME IInv, [Next]_vars, disk' # disk, disk # NoSeq
               PROVE  disk' # NoSeq /\ disk' >= disk
    OBVIOUS
  <2>1. StoreWrite
    BY DEF Next, vars, diskVars, SetupEntry, LoadNetwork, LoadLegacy, SetupFails,
           Send, Notify, SaveSeq, StopBegin, StopFinish, ImportBegin, ImportSend,
           ImportCreatesEntry, ImportUnbound, ImportFails, Provision, Restart
  <2>. QED  BY <2>1 DEF StoreWrite, IInv, TypeOK, SaveOrder
<1>. QED  BY <1>1, Inductive, PTL DEF Spec, DiskNeverRegresses

\* A step of the store is, to someone who watches only the numbers that leave
\* it, a step of the source of fresh numbers.
LEMMA FreshStep == IInv /\ IInv' /\ [Next]_vars => [Fresh!Next]_(Fresh!fvars)
<1> SUFFICES ASSUME IInv, IInv', [Next]_vars
             PROVE  Fresh!Next \/ UNCHANGED Fresh!fvars
  OBVIOUS
<1> USE DEF Fresh!fvars, Fresh!Next, Fresh!Issue, Fresh!Forfeit, Fresh!IssueForfeited
<1>1. seq \in Nat /\ high \in Nat /\ high' \in Nat
  BY DEF IInv, TypeOK
<1>2. doors = {} => broken = {}
  BY DEF IInv, Ahead
<1>3. doors' = {} => broken' = {}
  BY DEF IInv, Ahead
<1>4. ASSUME NEW e \in Entries, Transmit(e), UNCHANGED doors,
             doors = {} => seq >= high
      PROVE  Fresh!Next
  <2>1. high' = Larger(high, seq + 1)
    BY <1>4 DEF Transmit
  <2>2. CASE doors = {}
    BY <2>1, <2>2, <1>1, <1>2, <1>3, <1>4 DEF Larger
  <2>3. CASE doors # {}
    BY <2>1, <2>3, <1>1, <1>4 DEF Larger
  <2>. QED  BY <2>2, <2>3
<1>5. ASSUME NEW e \in Entries, Send(e) PROVE Fresh!Next
  <2>1. netLoaded
    BY <1>5 DEF Send, Connected, IInv, SetupOrder, Phases
  <2>. QED  BY <1>5, <1>4, <2>1 DEF Send, IInv, Ahead
<1>6. ASSUME NEW e \in Entries, ImportSend(e) PROVE Fresh!Next
  BY <1>6, <1>4 DEF ImportSend, IInv, Ahead
<1>7. CASE UNCHANGED <<high, broken>> /\ (doors # {} => doors' # {})
  BY <1>7, <1>1
<1>8. ASSUME NEW e \in Entries, NEW n \in ProvisionSeqs, Provision(e, n)
      PROVE  Fresh!Next
  BY <1>8, <1>1 DEF Provision, OpenDoor
<1>9. (\E e \in Entries : Send(e) \/ ImportSend(e) \/ \E n \in ProvisionSeqs : Provision(e, n))
      \/ (UNCHANGED <<high, broken>> /\ (doors # {} => doors' # {}))
  BY DEF Next, vars, meshVars, OpenDoor, SetupEntry, LoadNetwork, LoadLegacy, SetupFails,
         Notify, SaveSeq, StopBegin, StopFinish, ImportBegin,
         ImportCreatesEntry, ImportUnbound, ImportFails, StoreWrite, Restart
<1>. QED  BY <1>5, <1>6, <1>7, <1>8, <1>9

\* The shared store implements a source of fresh sequence numbers whose promise
\* ends when a door opens.
THEOREM StoreImplementsFresh == Spec => FreshSpec
<1>1. Init => Fresh!Init
  BY DEF Init, Fresh!Init
<1>2. Spec => []IInv
  BY Inductive
<1>. QED  BY <1>1, <1>2, FreshStep, PTL DEF Spec, FreshSpec, Fresh!Spec
===========================================================================
