---------------------------- MODULE FleetPresence ----------------------------
(***************************************************************************)
(* Who writes the presence of a device in the overseas API: POST           *)
(* /api/ingest (routes/ingest.ts), which stores a signed batch and marks   *)
(* its devices online, and the five-minute offline sweep (app.ts,          *)
(* scheduled()), which marks devices offline whose last_seen_at is too     *)
(* old.  The sweep reads and writes D1 statement by statement, with an     *)
(* await at each, so batches are stored between any two of its statements; *)
(* a batch is stored in one transaction.                                   *)
(*                                                                         *)
(* Devices are numbered in the order of their rowid.  Times are ages: how  *)
(* long ago something was, in ticks of the clock, with everything beyond   *)
(* the offline threshold the same.                                         *)
(***************************************************************************)
EXTENDS Integers, FiniteSets

CONSTANTS
  MaxDevices,   (* bound: devices that ever report                          *)
  Stale,        (* the first age beyond HEARTBEAT_INTERVAL_SECS times       *)
                (* OFFLINE_MULTIPLIER                                       *)
  SweepLimit,   (* OFFLINE_BATCH_SIZE                                       *)
  MaxBatches,   (* OFFLINE_MAX_BATCHES_PER_RUN                              *)
  MaxFailures,  (* bound: sweeps that break off                             *)
  MaxRecords    (* bound: records of a batch                                *)

ASSUME FleetConstants ==
  /\ MaxDevices \in Nat
  /\ Stale \in Nat \ {0}
  /\ SweepLimit \in Nat \ {0}
  /\ MaxBatches \in Nat \ {0}
  /\ MaxFailures \in Nat
  /\ MaxRecords \in Nat \ {0}

VARIABLES
  foreignKeys,   (* SQLite enforces the keys of migration 0012: fixed       *)
  rows,          (* how many devices have a row in devices                  *)
  online,        (* devices.online                                          *)
  lastSeen,      (* age of devices.last_seen_at and of latest_state.ts      *)
  latestOnline,  (* latest_state.online                                     *)
  saved,         (* the row "offline.devices" of cron_cursors               *)
  pc,            (* what the sweep awaits                                   *)
  cursor,        (* its local variable cursor                               *)
  batchIds,      (* its local variable batchIds                             *)
  batches,       (* its local variable batches                              *)
  failures,      (* history: sweeps that broke off                          *)
  reported,      (* history: those of batchIds a batch has been stored for  *)
                 (* since they were selected                                *)
  refused        (* history: a valid batch was answered with a 500 that     *)
                 (* every retry of it would get                             *)

tables == <<foreignKeys, rows, online, lastSeen, latestOnline, refused>>
sweepVars == <<saved, pc, cursor, batchIds, batches, failures, reported>>
vars == <<foreignKeys, rows, online, lastSeen, latestOnline, refused,
          saved, pc, cursor, batchIds, batches, failures, reported>>

-----------------------------------------------------------------------------
Devices == 1..MaxDevices
Ages == 0..Stale

(* Rowids start at 1; without a saved cursor a sweep starts at 0.           *)
NoCursor == 0

SweepStates == {"idle", "reading", "selecting", "marking", "copying",
                "counting", "saving", "clearing"}

(* Slip: online is read from latest_state.                                  *)
StaleInLatestState == {d \in 1..rows : latestOnline[d] /\ lastSeen[d] = Stale}

(* Slip: last_seen_at is not looked at.                                     *)
OnlineRows == {d \in 1..rows : online[d]}

(* online = 1 AND now - last_seen_at > threshold.                           *)
StaleRows == {d \in 1..rows : online[d] /\ lastSeen[d] = Stale}

(* Some devices are registered already, by a seed or from before, and have  *)
(* not reported for long.                                                   *)
Init ==
  /\ foreignKeys \in BOOLEAN
  /\ rows \in 0..MaxDevices
  /\ online \in [Devices -> BOOLEAN]
  /\ \A d \in Devices : online[d] => d <= rows
  /\ lastSeen = [d \in Devices |-> Stale]
  /\ latestOnline = online
  /\ saved = NoCursor
  /\ pc = "idle"
  /\ cursor = NoCursor
  /\ batchIds = {}
  /\ batches = 0
  /\ failures = 0
  /\ reported = {}
  /\ refused = FALSE

-----------------------------------------------------------------------------
(* A record of a device that is registered or would be the next one, and    *)
(* how old the reading is.                                                  *)
Records == [device : {d \in Devices : d <= rows + 1}, age : Ages]

(* Where in batch b the records about device d are.                         *)
PositionsOf(b, d) == {i \in DOMAIN b : b[i].device = d}

Reported(b) == {d \in Devices : PositionsOf(b, d) # {}}

LastOf(b, d) ==
  b[CHOOSE i \in PositionsOf(b, d) : \A j \in PositionsOf(b, d) : j <= i]

(* Slip: the upsert of a row that is there leaves online alone.             *)
StoreBatchKeepsOnline(b) ==
  /\ rows' = IF rows + 1 \in Reported(b) THEN rows + 1 ELSE rows
  /\ online' = [d \in Devices |-> online[d] \/ d \in Reported(b) \ 1..rows]
  /\ latestOnline' = [d \in Devices |-> latestOnline[d] \/ d \in Reported(b)]
  /\ lastSeen' = [d \in Devices |->
       IF d \in Reported(b) THEN LastOf(b, d).age ELSE lastSeen[d]]

(* persistBatch(): the records upsert latest_state and devices one by one;  *)
(* the last record of a device wins, however old it is.                     *)
StoreBatch(b) ==
  /\ rows' = IF rows + 1 \in Reported(b) THEN rows + 1 ELSE rows
  /\ online' = [d \in Devices |-> online[d] \/ d \in Reported(b)]
  /\ latestOnline' = [d \in Devices |-> latestOnline[d] \/ d \in Reported(b)]
  /\ lastSeen' = [d \in Devices |->
       IF d \in Reported(b) THEN LastOf(b, d).age ELSE lastSeen[d]]

(* A record of a device without a row: its row of telemetry, inserted       *)
(* first, refers to the row of devices inserted two statements later.       *)
BreaksForeignKey(b) == foreignKeys /\ rows + 1 \in Reported(b)

(* handleIngest() with a batch whose signature and schema are valid: all of *)
(* it is stored, or a statement fails and all of it is rolled back.         *)
Ingest ==
  /\ \E n \in 1..MaxRecords : \E b \in [1..n -> Records] :
       \/ /\ BreaksForeignKey(b)
          /\ refused' = TRUE
          /\ UNCHANGED <<rows, online, lastSeen, latestOnline, reported>>
       \/ /\ ~BreaksForeignKey(b)
          /\ StoreBatch(b)
          /\ reported' = reported \cup (Reported(b) \cap batchIds)
          /\ UNCHANGED refused
  /\ UNCHANGED <<foreignKeys, saved, pc, cursor, batchIds, batches, failures>>

(* The clock moves on.                                                      *)
Tick ==
  /\ \E d \in Devices : lastSeen[d] < Stale
  /\ lastSeen' = [d \in Devices |->
       IF lastSeen[d] < Stale THEN lastSeen[d] + 1 ELSE Stale]
  /\ UNCHANGED <<foreignKeys, rows, online, latestOnline, refused, sweepVars>>

-----------------------------------------------------------------------------
(* The cron starts a sweep: with no stale row the saved cursor is cleared,  *)
(* otherwise it is read.                                                    *)
CountStale ==
  /\ pc = "idle"
  /\ pc' = IF StaleRows = {} THEN "clearing" ELSE "reading"
  /\ UNCHANGED <<tables, saved, cursor, batchIds, batches, failures, reported>>

ReadCursor ==
  /\ pc = "reading"
  /\ cursor' = saved
  /\ batches' = 0
  /\ pc' = "selecting"
  /\ UNCHANGED <<tables, saved, batchIds, failures, reported>>

(* Slip: no LIMIT.                                                          *)
SelectUnlimited ==
  /\ pc = "selecting"
  /\ batchIds' = {d \in StaleRows : d > cursor}
  /\ pc' = IF batchIds' = {} THEN "clearing" ELSE "marking"
  /\ UNCHANGED <<tables, saved, cursor, batches, failures, reported>>

(* The next SweepLimit stale rows above the cursor; when there are none the *)
(* sweep has come to the end of the table.                                  *)
SelectStale ==
  /\ pc = "selecting"
  /\ LET above == {d \in StaleRows : d > cursor}
     IN  batchIds' =
           {d \in above : Cardinality({e \in above : e < d}) < SweepLimit}
  /\ pc' = IF batchIds' = {} THEN "clearing" ELSE "marking"
  /\ UNCHANGED <<tables, saved, cursor, batches, failures, reported>>

(* UPDATE devices SET online=0 for the selected ids, stale or not by now.   *)
MarkDevices ==
  /\ pc = "marking"
  /\ online' = [d \in Devices |-> online[d] /\ d \notin batchIds]
  /\ pc' = "copying"
  /\ UNCHANGED <<foreignKeys, rows, lastSeen, latestOnline, refused,
                 saved, cursor, batchIds, batches, failures, reported>>

(* UPDATE latest_state SET online=0 for the same ids.                       *)
MarkLatestState ==
  /\ pc = "copying"
  /\ latestOnline' = [d \in Devices |-> latestOnline[d] /\ d \notin batchIds]
  /\ pc' = "counting"
  /\ UNCHANGED <<foreignKeys, rows, online, lastSeen, refused,
                 saved, cursor, batchIds, batches, failures, reported>>

(* INSERT INTO ops_metrics, and what the loop does next: a run that has     *)
(* done MaxBatches saves its place, one that got less than a full batch is  *)
(* at the end of the table.                                                 *)
RecordMetrics ==
  /\ pc = "counting"
  /\ cursor' \in batchIds
  /\ \A d \in batchIds : d <= cursor'
  /\ batches' = batches + 1
  /\ pc' = CASE batches' >= MaxBatches -> "saving"
             [] batches' < MaxBatches /\ Cardinality(batchIds) < SweepLimit
                  -> "clearing"
             [] OTHER -> "selecting"
  /\ batchIds' = {}
  /\ reported' = {}
  /\ UNCHANGED <<tables, saved, failures>>

(* The sweep is over; its local variables are gone.                         *)
SweepEnds ==
  /\ pc' = "idle"
  /\ cursor' = NoCursor
  /\ batchIds' = {}
  /\ batches' = 0
  /\ reported' = {}
  /\ UNCHANGED tables

SaveCursor ==
  /\ pc = "saving"
  /\ saved' = cursor
  /\ SweepEnds
  /\ UNCHANGED failures

(* Slip: the saved cursor stays when the end of the table is reached.       *)
ClearCursorForgotten ==
  /\ pc = "clearing"
  /\ SweepEnds
  /\ UNCHANGED <<saved, failures>>

ClearCursor ==
  /\ pc = "clearing"
  /\ saved' = NoCursor
  /\ SweepEnds
  /\ UNCHANGED failures

(* A statement fails or the worker is stopped: the invocation ends there.   *)
SweepBreaksOff ==
  /\ pc # "idle"
  /\ failures < MaxFailures
  /\ failures' = failures + 1
  /\ SweepEnds
  /\ UNCHANGED saved

Sweep ==
  \/ CountStale \/ ReadCursor \/ SelectStale
  \/ MarkDevices \/ MarkLatestState \/ RecordMetrics
  \/ SaveCursor \/ ClearCursor

Next == Ingest \/ Tick \/ Sweep \/ SweepBreaksOff

Spec == Init /\ [][Next]_vars

(* The clock moves, the cron is called every five minutes and the awaits of *)
(* an invocation settle.  Devices report as they like, and only finitely    *)
(* many invocations break off.                                              *)
FairSpec == Spec /\ WF_vars(Tick) /\ WF_vars(Sweep)

-----------------------------------------------------------------------------
TypeOK ==
  /\ foreignKeys \in BOOLEAN
  /\ rows \in 0..MaxDevices
  /\ online \in [Devices -> BOOLEAN]
  /\ latestOnline \in [Devices -> BOOLEAN]
  /\ lastSeen \in [Devices -> Ages]
  /\ saved \in 0..rows
  /\ pc \in SweepStates
  /\ cursor \in 0..rows
  /\ batchIds \subseteq 1..rows
  /\ Cardinality(batchIds) <= SweepLimit
  /\ batches \in 0..MaxBatches
  /\ failures \in 0..MaxFailures
  /\ reported \subseteq batchIds
  /\ refused \in BOOLEAN

(* latest_state shows a device online that devices has offline only between *)
(* the two UPDATEs of a sweep, or after a sweep has broken off there:       *)
(* reports that come in between set both again (app.ts:408-421,             *)
(* routes/ingest.ts:92-133).                                                *)
TornOnlyByBreakOff ==
  \A d \in Devices : latestOnline[d] /\ ~online[d] =>
    failures > 0 \/ (pc = "copying" /\ d \in batchIds)

(* A device that has gone silent is marked offline in the end: whatever the *)
(* cursor, the batch limits, reports of other devices and broken-off sweeps *)
(* do, no stale row is skipped for ever (app.ts:377-453).                   *)
SilentGoesOffline ==
  \A d \in Devices :
    online[d] /\ lastSeen[d] = Stale ~> ~online[d] \/ lastSeen[d] < Stale

(* A device that latest_state shows offline while devices has it online     *)
(* (its report came between the sweep's two UPDATEs) is not left that way:  *)
(* it reports again, or the next sweeps mark it offline in both.            *)
LatestStateCatchesUp ==
  \A d \in Devices :
    online[d] /\ ~latestOnline[d] ~> online[d] = latestOnline[d]

(* The sweep marks a device offline only if it is stale: its last report is *)
(* older than the threshold (wrangler.toml:43).                             *)
OnlyStaleGoOffline ==
  [][\A d \in Devices : online[d] /\ ~online'[d] => lastSeen[d] = Stale]_vars

(* A device that is not stale is marked offline only by a sweep that had    *)
(* selected it when it was, and only because a batch of its was stored      *)
(* between that SELECT and the UPDATE: nothing else - not a cursor from an  *)
(* earlier run, nor a batch of other devices - puts a fresh device in the   *)
(* sweep's hands (app.ts:385-421).                                          *)
FreshOfflineOnlyByOverlap ==
  [][\A d \in Devices : online[d] /\ ~online'[d] =>
       pc = "marking" /\ (lastSeen[d] = Stale \/ d \in reported)]_vars

(* A device that has gone silent is offline in latest_state too in the end  *)
(* ("set devices offline if stale", wrangler.toml:54).                      *)
SilentGoesOfflineInLatestState ==
  \A d \in Devices :
    latestOnline[d] /\ lastSeen[d] = Stale
      ~> ~latestOnline[d] \/ lastSeen[d] < Stale

(* A batch that passes every check is stored: none is answered 500 for what *)
(* it contains, whatever devices it is about (ingest.test.ts:152).          *)
ValidBatchPersists == ~refused
=============================================================================
