------------------------- MODULE FleetPresenceProofs -------------------------
(***************************************************************************)
(* The presence tables and the offline sweep, for every number of devices, *)
(* page size, batch limit and length of a batch.                           *)
(***************************************************************************)
EXTENDS FleetPresence, OrderLemmas, TLAPS

(* A sweep that goes on selecting has done fewer batches than its limit.    *)
BatchesLeft ==
  pc \in {"selecting", "marking", "copying", "counting"} => batches < MaxBatches

(* A device in the sweep's hands is as stale as when it was selected, or    *)
(* has reported since.                                                      *)
SelectedAreStale ==
  pc = "marking" => \A d \in batchIds : lastSeen[d] = Stale \/ d \in reported

(* A sweep that is about to select has nothing in its hands.                *)
NothingInHand == pc \in {"idle", "reading", "selecting"} => batchIds = {}

(* The inductive invariant.                                                 *)
IInv ==
  /\ TypeOK
  /\ BatchesLeft
  /\ TornOnlyByBreakOff
  /\ SelectedAreStale
  /\ NothingInHand

(* A device is in a batch with a last record, whose age is an age.          *)
LEMMA LastRecordHasAge ==
  ASSUME NEW n \in Nat, NEW b \in [1..n -> Records], NEW d \in Reported(b)
  PROVE  LastOf(b, d).age \in Ages
  <1>. DEFINE P == PositionsOf(b, d)
  <1>1. P \in SUBSET (1..n) /\ P # {}
    BY DEF Reported, PositionsOf
  <1>. HIDE DEF P
  <1>2. PICK i \in P : \A j \in P : j <= i
    BY <1>1, LargestExists
  <1>3. (CHOOSE k \in P : \A j \in P : j <= k) \in 1..n
    BY <1>1, <1>2
  <1>4. \A k \in 1..n : b[k].age \in Ages
    BY DEF Records
  <1>. QED  BY <1>3, <1>4 DEF LastOf, P

(* A stored batch adds at most one row.                                     *)
LEMMA StoreBatchKeepsTables ==
  ASSUME TypeOK, NEW n \in Nat, NEW b \in [1..n -> Records], StoreBatch(b)
  PROVE  /\ rows' \in 0..MaxDevices /\ rows <= rows'
         /\ online' \in [Devices -> BOOLEAN]
         /\ latestOnline' \in [Devices -> BOOLEAN]
         /\ lastSeen' \in [Devices -> Ages]
  <1>1. rows' \in 0..MaxDevices /\ rows <= rows'
    BY FleetConstants DEF StoreBatch, Reported, Devices, TypeOK
  <1>2. \A d \in Devices : IF d \in Reported(b) THEN LastOf(b, d).age \in Ages
                           ELSE lastSeen[d] \in Ages
    BY LastRecordHasAge DEF TypeOK
  <1>. QED  BY <1>1, <1>2 DEF StoreBatch, TypeOK

(* A first sweep has nothing in hand, and the tables agree.                 *)
LEMMA InitIInv == Init => IInv
  <1>. SUFFICES ASSUME Init PROVE IInv  OBVIOUS
  <1>. USE FleetConstants DEF Init
  <1>1. Cardinality(batchIds) <= SweepLimit /\ batchIds \subseteq 1..rows
    BY FS_EmptySet
  <1>2. lastSeen \in [Devices -> Ages]
    BY DEF Ages
  <1>3. /\ saved \in 0..rows /\ cursor \in 0..rows /\ rows \in 0..MaxDevices
        /\ batches \in 0..MaxBatches /\ failures \in 0..MaxFailures
    BY DEF NoCursor
  <1>4. TypeOK
    BY <1>1, <1>2, <1>3 DEF TypeOK, SweepStates
  <1>. QED
    BY <1>4 DEF IInv, BatchesLeft, TornOnlyByBreakOff, SelectedAreStale,
       NothingInHand

(* A report sets online in both tables.                                     *)
LEMMA IngestKeepsIInv ==
  ASSUME IInv, Ingest  PROVE  IInv'
  <1>1. PICK n \in 1..MaxRecords : \E b \in [1..n -> Records] :
          \/ refused' = TRUE
               /\ UNCHANGED <<rows, online, lastSeen, latestOnline, reported>>
          \/ StoreBatch(b) /\ UNCHANGED refused
               /\ reported' = reported \cup (Reported(b) \cap batchIds)
    BY DEF Ingest
  <1>2. n \in Nat  BY FleetConstants
  <1>3. /\ rows' \in 0..MaxDevices /\ rows <= rows'
        /\ online' \in [Devices -> BOOLEAN]
        /\ latestOnline' \in [Devices -> BOOLEAN]
        /\ lastSeen' \in [Devices -> Ages]
    BY <1>1, <1>2, StoreBatchKeepsTables DEF IInv, TypeOK
  <1>4. refused' \in BOOLEAN
    BY <1>1 DEF IInv, TypeOK
  <1>5. UNCHANGED <<foreignKeys, saved, pc, cursor, batchIds, batches,
                    failures>>
    BY DEF Ingest
  <1>6. TypeOK'
    <2>1. reported' \subseteq batchIds
      BY <1>1 DEF IInv, TypeOK
    <2>. QED  BY <2>1, <1>3, <1>4, <1>5 DEF IInv, TypeOK
  <1>7. BatchesLeft'
    BY <1>5 DEF IInv, BatchesLeft
  <1>8. TornOnlyByBreakOff'
    BY <1>1, <1>5 DEF StoreBatch, IInv, TornOnlyByBreakOff
  <1>9. SelectedAreStale'
    <2>. SUFFICES ASSUME pc = "marking", NEW d \in batchIds
                  PROVE  lastSeen'[d] = Stale \/ d \in reported'
      BY <1>5 DEF SelectedAreStale
    <2>1. d \in Devices  BY FleetConstants DEF IInv, TypeOK, Devices
    <2>2. lastSeen[d] = Stale \/ d \in reported
      BY DEF IInv, SelectedAreStale
    <2>3. lastSeen'[d] = lastSeen[d] \/ d \in reported'
      BY <1>1, <2>1 DEF StoreBatch
    <2>. QED  BY <1>1, <2>2, <2>3
  <1>10. NothingInHand'  BY <1>5 DEF IInv, NothingInHand
  <1>. QED  BY <1>6, <1>7, <1>8, <1>9, <1>10 DEF IInv

(* An age grows by one, up to Stale.                                        *)
LEMMA TickKeepsIInv ==
  ASSUME IInv, Tick  PROVE  IInv'
  <1>1. lastSeen' \in [Devices -> Ages]
    BY FleetConstants DEF Tick, IInv, TypeOK, Ages
  <1>2. UNCHANGED <<foreignKeys, rows, online, latestOnline, refused, saved,
                    pc, cursor, batchIds, batches, failures, reported>>
    BY DEF Tick, sweepVars
  <1>3. SelectedAreStale'
    <2>1. \A d \in batchIds : d \in Devices
      BY FleetConstants DEF IInv, TypeOK, Devices
    <2>2. \A d \in Devices : lastSeen[d] = Stale => lastSeen'[d] = Stale
      BY FleetConstants DEF Tick
    <2>. QED  BY <2>1, <2>2, <1>2 DEF IInv, SelectedAreStale
  <1>. QED
    BY <1>1, <1>2, <1>3
       DEF IInv, TypeOK, BatchesLeft, TornOnlyByBreakOff, NothingInHand

(* The page of the sweep is at most SweepLimit rows of the table.           *)
LEMMA SelectStaleKeepsIInv ==
  ASSUME IInv, SelectStale  PROVE  IInv'
  <1>. DEFINE above == {d \in StaleRows : d > cursor}
  <1>1. above \in SUBSET (1..rows) /\ rows \in Nat
    BY DEF StaleRows, IInv, TypeOK
  <1>2. batchIds' = {d \in above :
                     Cardinality({e \in above : e < d}) < SweepLimit}
    BY DEF SelectStale
  <1>. HIDE DEF above
  <1>3. batchIds' \subseteq 1..rows /\ Cardinality(batchIds') <= SweepLimit
    BY <1>1, <1>2, PageIsLimited, FleetConstants
  <1>4. pc' \in {"clearing", "marking"} /\ pc = "selecting"
        /\ UNCHANGED <<tables, saved, cursor, batches, failures, reported>>
    BY DEF SelectStale
  <1>5. TypeOK'
    <2>1. reported' \subseteq batchIds'
      BY <1>4 DEF IInv, TypeOK, NothingInHand
    <2>. QED  BY <2>1, <1>3, <1>4 DEF IInv, TypeOK, SweepStates, tables
  <1>6. BatchesLeft' /\ TornOnlyByBreakOff'
    BY <1>4 DEF IInv, BatchesLeft, TornOnlyByBreakOff, tables
  <1>7. SelectedAreStale'
    <2>1. \A d \in above : lastSeen[d] = Stale  BY DEF above, StaleRows
    <2>. QED  BY <2>1, <1>2, <1>4 DEF SelectedAreStale, tables
  <1>8. NothingInHand'  BY <1>4 DEF NothingInHand
  <1>. QED  BY <1>5, <1>6, <1>7, <1>8 DEF IInv

(* What is marked in devices is in batchIds for the second UPDATE.          *)
LEMMA MarkKeepsIInv ==
  ASSUME IInv, MarkDevices \/ MarkLatestState  PROVE  IInv'
  <1>1. CASE MarkDevices
    BY <1>1 DEF MarkDevices, IInv, TypeOK, BatchesLeft, TornOnlyByBreakOff,
       SelectedAreStale, NothingInHand, SweepStates
  <1>2. CASE MarkLatestState
    BY <1>2 DEF MarkLatestState, IInv, TypeOK, BatchesLeft,
       TornOnlyByBreakOff, SelectedAreStale, NothingInHand, SweepStates
  <1>. QED  BY <1>1, <1>2

(* The loop goes on only below the batch limit.                             *)
LEMMA RecordMetricsKeepsIInv ==
  ASSUME IInv, RecordMetrics  PROVE  IInv'
  <1>1. /\ cursor' \in 0..rows /\ batches' \in 0..MaxBatches
        /\ batchIds' = {} /\ reported' = {} /\ Cardinality({}) <= SweepLimit
    BY FleetConstants, FS_EmptySet
       DEF RecordMetrics, IInv, TypeOK, BatchesLeft
  <1>2. pc' \in {"saving", "clearing", "selecting"} /\ pc = "counting"
        /\ UNCHANGED <<tables, saved, failures>>
    BY DEF RecordMetrics
  <1>3. pc' = "selecting" => batches' < MaxBatches
    BY <1>1, FleetConstants DEF RecordMetrics
  <1>4. TypeOK'
    BY <1>1, <1>2 DEF IInv, TypeOK, SweepStates, tables
  <1>5. BatchesLeft' /\ TornOnlyByBreakOff'
    BY <1>2, <1>3 DEF IInv, BatchesLeft, TornOnlyByBreakOff, tables
  <1>6. SelectedAreStale' /\ NothingInHand'
    BY <1>1, <1>2 DEF SelectedAreStale, NothingInHand
  <1>. QED  BY <1>4, <1>5, <1>6 DEF IInv

(* A sweep that ends has nothing in hand; one that breaks off is counted.   *)
LEMMA SweepEndsKeepsIInv ==
  ASSUME IInv, SweepEnds, saved' \in {saved, cursor, NoCursor},
         \/ pc # "copying" /\ failures' = failures
         \/ failures < MaxFailures /\ failures' = failures + 1
  PROVE  IInv'
  <1>1. Cardinality({}) <= SweepLimit
    BY FleetConstants, FS_EmptySet
  <1>2. saved' \in 0..rows /\ failures' \in 0..MaxFailures
        /\ (failures > 0 => failures' > 0)
    BY FleetConstants DEF IInv, TypeOK, NoCursor
  <1>3. TypeOK'
    BY <1>1, <1>2, FleetConstants
       DEF IInv, TypeOK, SweepStates, SweepEnds, NoCursor, tables
  <1>4. BatchesLeft'
    BY DEF SweepEnds, BatchesLeft
  <1>5. TornOnlyByBreakOff'
    BY <1>2 DEF IInv, TypeOK, SweepEnds, TornOnlyByBreakOff, tables
  <1>6. SelectedAreStale' /\ NothingInHand'
    BY DEF SweepEnds, SelectedAreStale, NothingInHand
  <1>. QED  BY <1>3, <1>4, <1>5, <1>6 DEF IInv

(* Every step keeps the invariant.                                          *)
LEMMA StepKeepsIInv == IInv /\ [Next]_vars => IInv'
  <1>. SUFFICES ASSUME IInv, [Next]_vars PROVE IInv'  OBVIOUS
  <1>1. CASE CountStale
    BY <1>1 DEF CountStale, IInv, TypeOK, BatchesLeft, TornOnlyByBreakOff,
       SelectedAreStale, NothingInHand, SweepStates, tables
  <1>2. CASE ReadCursor
    BY <1>2, FleetConstants DEF ReadCursor, IInv, TypeOK, BatchesLeft,
       TornOnlyByBreakOff, SelectedAreStale, NothingInHand, SweepStates, tables
  <1>3. CASE SaveCursor \/ ClearCursor \/ SweepBreaksOff
    BY <1>3, SweepEndsKeepsIInv DEF SaveCursor, ClearCursor, SweepBreaksOff
  <1>4. CASE UNCHANGED vars
    BY <1>4 DEF vars, IInv, TypeOK, BatchesLeft, TornOnlyByBreakOff,
       SelectedAreStale, NothingInHand
  <1>. QED
    BY <1>1, <1>2, <1>3, <1>4, IngestKeepsIInv, TickKeepsIInv,
       SelectStaleKeepsIInv, MarkKeepsIInv, RecordMetricsKeepsIInv
       DEF Next, Sweep

-----------------------------------------------------------------------------
(* The inductive invariant holds in every state of every behaviour.         *)
THEOREM Invariance == Spec => []IInv
  BY InitIInv, StepKeepsIInv, PTL DEF Spec

(* Every variable keeps its type: cursors stay within the rows, a page      *)
(* never has more than OFFLINE_BATCH_SIZE devices - whose ids are the       *)
(* parameters of the two UPDATEs - and a sweep never does more than         *)
(* OFFLINE_MAX_BATCHES_PER_RUN of them (app.ts:385-440).                    *)
THEOREM PresenceTypeCorrect == Spec => []TypeOK
  BY Invariance, PTL DEF IInv

(* Only a sweep that broke off between its two UPDATEs leaves a device      *)
(* online in latest_state that is offline in devices (app.ts:408-421).      *)
THEOREM TablesAreTornByBreakOffOnly == Spec => []TornOnlyByBreakOff
  BY Invariance, PTL DEF IInv

(* A device that is not stale is marked offline only if a batch of its was  *)
(* stored between the sweep's SELECT and its UPDATE (app.ts:385-421).       *)
THEOREM FreshOfflineNeedsOverlap == Spec => FreshOfflineOnlyByOverlap
  <1>1. IInv /\ [Next]_vars =>
          [\A d \in Devices : online[d] /\ ~online'[d] =>
             pc = "marking" /\ (lastSeen[d] = Stale \/ d \in reported)]_vars
    <2>. SUFFICES ASSUME IInv, Next, NEW d \in Devices, online[d], ~online'[d]
                  PROVE  pc = "marking"
                           /\ (lastSeen[d] = Stale \/ d \in reported)
      OBVIOUS
    <2>1. MarkDevices
      <3>1. CASE Ingest
        BY <3>1 DEF Ingest, StoreBatch
      <3>2. CASE Tick  BY <3>2 DEF Tick
      <3>3. CASE Sweep /\ ~MarkDevices
        BY <3>3 DEF Sweep, CountStale, ReadCursor, SelectStale,
           MarkLatestState, RecordMetrics, SaveCursor, ClearCursor, SweepEnds,
           tables
      <3>4. CASE SweepBreaksOff
        BY <3>4 DEF SweepBreaksOff, SweepEnds, tables
      <3>. QED  BY <3>1, <3>2, <3>3, <3>4 DEF Next
    <2>2. pc = "marking" /\ d \in batchIds
      BY <2>1 DEF MarkDevices, IInv, TypeOK
    <2>. QED  BY <2>2 DEF IInv, SelectedAreStale
  <1>. QED  BY Invariance, <1>1, PTL DEF Spec, FreshOfflineOnlyByOverlap
=============================================================================
