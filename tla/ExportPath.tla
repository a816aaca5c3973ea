------------------------------ MODULE ExportPath ------------------------------
(***************************************************************************)
(* The path of a reading from the exporter of the CN gateway into the two  *)
(* tables of the overseas API that the dashboard reads: the exporter of    *)
(* module BatchExporter joined with persistBatch() (routes/ingest.ts).     *)
(* A batch goes through one transaction: every record inserts a row of     *)
(* telemetry unless there is one for its device and minute (the gateway    *)
(* cuts timestamps to the minute), and overwrites the device's row of      *)
(* latest_state.  A batch is sent again whenever its answer or its log row *)
(* is lost, so the tables see records twice and in other batches; and a    *)
(* POST that was given up may be stored after the ones that followed it.   *)
(***************************************************************************)
EXTENDS BatchExporter

CONSTANTS
  Device,   (* the device of each record, by arrival number                 *)
  Minute    (* the minute of each record                                    *)

ASSUME PathConstants ==
  /\ DOMAIN Device = 1..MaxRecords
  /\ Minute \in [1..MaxRecords -> Nat]

VARIABLES
  telemetry,   (* the record of each device and minute; NoRecord when none  *)
  latestState, (* the record each device's row was last written from        *)
  lateRows,    (* history: devices whose row a late POST was last to write  *)
  stragglers   (* history: records a late POST was first to bring, after a  *)
               (* restart had let go of them                                *)

overseas == <<telemetry, latestState, lateRows, stragglers>>
pathVars == <<enabled, queue, flushing, timer, backoffMs, pc, batch,
              accepted, forgotten, late, delivered, logged, failures,
              telemetry, latestState, lateRows, stragglers>>

-----------------------------------------------------------------------------
NoRecord == 0

Records == 1..MaxRecords
Devices == {Device[n] : n \in Records}
Key(n) == <<Device[n], Minute[n]>>
Keys == {Key(n) : n \in Records}
DevicesOf(b) == {Device[n] : n \in Elements(b)}

PathInit ==
  /\ Init
  /\ telemetry = [k \in Keys |-> NoRecord]
  /\ latestState = [d \in Devices |-> NoRecord]
  /\ lateRows = {}
  /\ stragglers = {}

(* Slip: DO UPDATE for DO NOTHING.                                          *)
HistoryReplaced(old, b) ==
  [k \in Keys |->
     LET of == {i \in 1..Len(b) : Key(b[i]) = k}
     IN  IF of = {} THEN old[k] ELSE b[CHOOSE i \in of : \A j \in of : j <= i]]

(* telemetry after the INSERTs of batch b, ON CONFLICT DO NOTHING.          *)
HistoryAfter(old, b) ==
  [k \in Keys |->
     LET of == {i \in 1..Len(b) : Key(b[i]) = k}
     IN  IF old[k] # NoRecord \/ of = {} THEN old[k]
         ELSE b[CHOOSE i \in of : \A j \in of : i <= j]]

(* latest_state after the upserts of batch b, in the order of its records.  *)
LatestAfter(old, b) ==
  [d \in Devices |->
     LET of == {i \in 1..Len(b) : Device[b[i]] = d}
     IN  IF of = {} THEN old[d] ELSE b[CHOOSE i \in of : \A j \in of : j <= i]]

(* persistBatch(b): its statements commit together.                         *)
Persist(b) ==
  /\ telemetry' = HistoryAfter(telemetry, b)
  /\ latestState' = LatestAfter(latestState, b)

(* The overseas API stores the batch of run r, which waits for its answer.  *)
StoreBatch(r) ==
  /\ ServerStores(r)
  /\ Persist(batch[r])
  /\ lateRows' = lateRows \ DevicesOf(batch[r])
  /\ UNCHANGED stragglers

(* It stores the batch of a POST that was given up.  The upsert does not    *)
(* compare timestamps: the row of latest_state is overwritten whatever the  *)
(* newer batches have put there.                                            *)
StoreLate(p) ==
  /\ LateStores(p)
  /\ Persist(late[p])
  /\ lateRows' = lateRows \cup DevicesOf(late[p])
  /\ stragglers' = stragglers \cup
       {n \in Elements(late[p]) \ delivered : n <= forgotten}

(* Every other step of the exporter leaves the overseas tables alone.       *)
GatewayStep(r) ==
  /\ \/ SignOk(r) \/ SignFails(r) \/ PostRefused(r) \/ PostBreaks(r)
     \/ ResponseOk(r) \/ ResponseLost(r)
     \/ LogOk(r) \/ LogFails(r) \/ Wakes(r)
  /\ UNCHANGED overseas

PathNext ==
  \/ (Enqueue \/ TimerFires \/ Restart) /\ UNCHANGED overseas
  \/ \E r \in Runs : StoreBatch(r) \/ GatewayStep(r)
  \/ \E p \in Posts : StoreLate(p) \/ (LateFails(p) /\ UNCHANGED overseas)

PathSpec == PathInit /\ [][PathNext]_pathVars

(* The fairness of the exporter; the overseas tables change with its steps. *)
PathFairSpec == PathSpec /\ Fairness

-----------------------------------------------------------------------------
(* The device's row of latest_state is its newest record that has arrived,  *)
(* unless the row was last written by a POST that had been given up: a      *)
(* batch sent again never takes the dashboard back in time, because the     *)
(* exporter waits for one batch at a time and a batch sent again is at      *)
(* least as long (exporter.ts:50, 58, 84), and whatever a late POST did to  *)
(* the row is mended by the device's next batch stored on time.             *)
NewestUnlessLate ==
  \A d \in Devices :
    LET arrived == {n \in delivered : Device[n] = d}
    IN  IF arrived = {} THEN latestState[d] = NoRecord
        ELSE /\ latestState[d] \in arrived
             /\ d \notin lateRows => \A n \in arrived : n <= latestState[d]

(* History has one row per device and minute, that of the first record      *)
(* accepted for it; whatever is exported again, in whatever batches, and    *)
(* however late a POST that was given up is stored, neither adds to it nor  *)
(* replaces it (ingest.ts:64-68).  Only records a restart has let go of can *)
(* come after newer ones and find their minute taken.                       *)
HistoryKeepsFirst ==
  \A k \in Keys :
    LET arrived == {n \in delivered : Key(n) = k}
    IN  IF arrived = {} THEN telemetry[k] = NoRecord
        ELSE /\ telemetry[k] \in arrived
             /\ \A n \in arrived \ stragglers : telemetry[k] <= n

(* A reading answered with 202 becomes visible overseas in the end: its     *)
(* minute is in the history and latest_state is at least as new - unless    *)
(* the gateway process lets go of it by stopping.  (It need not stay so: a  *)
(* POST that was given up may set latest_state back, NewestUnlessLate.)     *)
ReadingBecomesVisible ==
  \A n \in Records :
    <>(accepted >= n) =>
      <>(\/ n <= forgotten
         \/ telemetry[Key(n)] # NoRecord /\ latestState[Device[n]] >= n)
=============================================================================
