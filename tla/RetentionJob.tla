----------------------------- MODULE RetentionJob -----------------------------
(***************************************************************************)
(* The retention job of the overseas API (jobs/retention.ts), started by   *)
(* cron once a day.  A run pages through the rows of telemetry that are    *)
(* older than its cutoff, in rowid order: each page is put into an R2      *)
(* object, then deleted.  A run that reaches its batch limit saves the     *)
(* last rowid and the next one resumes there; then ops_metrics and         *)
(* client_events are pruned.  Every statement and every put is an await    *)
(* between which readings are stored, and at which a run may break off.    *)
(*                                                                         *)
(* Readings are numbered in the order they are stored.  telemetry has no   *)
(* INTEGER PRIMARY KEY, so SQLite hands out rowids as the largest in use   *)
(* plus one, and hands out again those at the end that were deleted.       *)
(* Runs do not overlap (a run takes minutes, the cron fires daily).        *)
(***************************************************************************)
EXTENDS Integers, FiniteSets, Functions

CONSTANTS
  BatchSize,    (* TELEMETRY_BATCH_SIZE                                     *)
  MaxBatches,   (* MAX_TELEMETRY_BATCHES_PER_RUN                            *)
  MaxReadings,  (* bound: readings stored in a behaviour                    *)
  MaxFailures   (* bound: runs that break off                               *)

ASSUME RetentionConstants ==
  /\ BatchSize \in Nat \ {0}
  /\ MaxBatches \in Nat \ {0}
  /\ MaxReadings \in Nat
  /\ MaxFailures \in Nat

VARIABLES
  backupRequired, (* RETENTION_BACKUP_BEFORE_DELETE                         *)
  archiveBound,   (* RETENTION_ARCHIVE or GB_BUCKET is bound                *)
  table,          (* telemetry: the reading of each rowid in use            *)
  due,            (* readings older than the cutoff of the run in progress, *)
                  (* or of the next one                                     *)
  oldMetrics,     (* ops_metrics has rows older than the cutoff             *)
  oldEvents,      (* client_events has rows older than their cutoff         *)
  bucket,         (* the archive: the readings in the object of each key    *)
  savedCursor,    (* the row "retention.telemetry" of cron_cursors          *)
  phase,          (* the await a run is suspended at                        *)
  dryRun,         (* options.dryRun of the run                              *)
  job,            (* jobId: numbers the runs that archive something         *)
  batches,        (* summary.batches                                        *)
  cursor,         (* the local variable cursor of pruneTelemetry()          *)
  resumeCursor,   (* summary.resumeCursor                                   *)
  rows,           (* the page a run holds: rowid to reading                 *)
  stored,         (* history: readings stored so far                        *)
  backlog,        (* history: what was overdue when the last run that       *)
                  (* started without a cursor started                       *)
  failures        (* history: runs that broke off                           *)

config == <<backupRequired, archiveBound>>
tables == <<table, due, oldMetrics, oldEvents, stored>>
locals == <<dryRun, job, batches, cursor, resumeCursor, rows>>
vars == <<backupRequired, archiveBound, table, due, oldMetrics, oldEvents,
          bucket, savedCursor, phase, dryRun, job, batches, cursor,
          resumeCursor, rows, stored, backlog, failures>>

-----------------------------------------------------------------------------
NoCursor == 0

NoRows == [id \in {} |-> 0]

Phases == {"idle", "selecting", "archiving", "deleting", "savingCursor",
           "pruningMetrics", "pruningEvents"}

(* The readings in telemetry, and those in the archive.                     *)
Live == Range(table)
Archived == UNION Range(bucket)

Init ==
  /\ backupRequired \in BOOLEAN
  /\ archiveBound \in BOOLEAN
  /\ table = NoRows
  /\ due = {}
  /\ oldMetrics = FALSE
  /\ oldEvents = FALSE
  /\ bucket = [key \in {} |-> {}]
  /\ savedCursor = NoCursor
  /\ phase = "idle"
  /\ dryRun = FALSE
  /\ job = 1
  /\ batches = 0
  /\ cursor = NoCursor
  /\ resumeCursor = NoCursor
  /\ rows = NoRows
  /\ stored = 0
  /\ backlog = {}
  /\ failures = 0

-----------------------------------------------------------------------------
(* The ingest route inserts a reading, maybe one that is already older than *)
(* the cutoff: nothing bounds how late a batch arrives.                     *)
StoreReading ==
  /\ stored < MaxReadings
  /\ stored' = stored + 1
  /\ \E id \in 1..MaxReadings :
       /\ \A used \in DOMAIN table : used < id
       /\ id = 1 \/ id - 1 \in DOMAIN table
       /\ table' = [n \in DOMAIN table \cup {id} |->
                      IF n = id THEN stored + 1 ELSE table[n]]
  /\ due' \in {due, due \cup {stored + 1}}
  /\ UNCHANGED <<config, oldMetrics, oldEvents, bucket, savedCursor, phase,
                 locals, backlog, failures>>

(* Time passes.  A run fixes its cutoff as it starts, so what grows old     *)
(* while it is in progress is overdue for the next one only.                *)
GrowOld ==
  /\ phase = "idle"
  /\ \E r \in Live \ due : due' = due \cup {r}
  /\ oldMetrics' = TRUE
  /\ oldEvents' = TRUE
  /\ UNCHANGED <<config, table, stored, bucket, savedCursor, phase, locals,
                 backlog, failures>>

-----------------------------------------------------------------------------
(* A backup is required and no bucket is bound: the job throws at once.     *)
RunRefused ==
  /\ phase = "idle"
  /\ backupRequired /\ ~archiveBound
  /\ UNCHANGED vars

(* runTelemetryRetention() up to the loop; a dry run ignores the cursor.    *)
StartRun(dry) ==
  /\ phase = "idle"
  /\ backupRequired => archiveBound
  /\ phase' = "selecting"
  /\ dryRun' = dry
  /\ batches' = 0
  /\ cursor' = IF dry THEN NoCursor ELSE savedCursor
  /\ resumeCursor' = IF dry THEN NoCursor ELSE savedCursor
  /\ backlog' = IF ~dry /\ savedCursor = NoCursor THEN Live \cap due ELSE backlog
  /\ UNCHANGED <<config, tables, bucket, savedCursor, job, rows, failures>>

(* ORDER BY rowid LIMIT BatchSize: what a page of the rows in D contains.   *)
IsPage(page, D) ==
  /\ page \subseteq D
  /\ \A id \in page, other \in D \ page : id < other
  /\ Cardinality(page) <= BatchSize
  /\ page # D => Cardinality(page) = BatchSize

(* Slip: "<=" for "<": a full batch is taken for a short one.               *)
BatchDoneEarly(page, n) ==
  /\ \E last \in page :
       /\ \A id \in page : id <= last
       /\ cursor' = last
       /\ resumeCursor' = IF n >= MaxBatches THEN last ELSE NoCursor
       /\ phase' = "savingCursor"
  /\ rows' = NoRows

(* Slip: ">" for ">=": one batch more than the limit.                       *)
BatchDoneLate(page, n) ==
  /\ \E last \in page :
       /\ \A id \in page : id <= last
       /\ cursor' = last
       /\ resumeCursor' = IF n > MaxBatches \/ Cardinality(page) >= BatchSize
                          THEN last ELSE NoCursor
       /\ phase' = IF n > MaxBatches \/ Cardinality(page) < BatchSize
                   THEN "savingCursor" ELSE "selecting"
  /\ rows' = NoRows

(* The end of the loop's body after the n-th batch: the cursor moves to the *)
(* last row, and the loop stops at the batch limit or after a short batch.  *)
BatchDone(page, n) ==
  /\ \E last \in page :
       /\ \A id \in page : id <= last
       /\ cursor' = last
       /\ \/ /\ n >= MaxBatches
             /\ resumeCursor' = last
             /\ phase' = "savingCursor"
          \/ /\ n < MaxBatches /\ Cardinality(page) < BatchSize
             /\ resumeCursor' = NoCursor
             /\ phase' = "savingCursor"
          \/ /\ n < MaxBatches /\ Cardinality(page) >= BatchSize
             /\ resumeCursor' = last
             /\ phase' = "selecting"
  /\ rows' = NoRows

(* The SELECT of the loop.  Nothing found: the backlog is drained and the   *)
(* cursor is forgotten.  A dry run goes straight to the end of the body.    *)
SelectBatch ==
  /\ phase = "selecting"
  /\ LET overdue == {id \in DOMAIN table : id > cursor /\ table[id] \in due}
     IN  \E page \in SUBSET overdue :
           /\ IsPage(page, overdue)
           /\ \/ /\ page = {}
                 /\ resumeCursor' = NoCursor
                 /\ phase' = "savingCursor"
                 /\ UNCHANGED <<batches, cursor, rows>>
              \/ /\ page # {} /\ ~dryRun
                 /\ rows' = [id \in page |-> table[id]]
                 /\ phase' = IF archiveBound THEN "archiving" ELSE "deleting"
                 /\ batches' = batches + 1
                 /\ UNCHANGED <<cursor, resumeCursor>>
              \/ /\ page # {} /\ dryRun
                 /\ batches' = batches + 1
                 /\ BatchDone(page, batches + 1)
  /\ UNCHANGED <<config, tables, bucket, savedCursor, dryRun, job, backlog,
                 failures>>

(* Slip: the key does not carry the number of the batch.                    *)
ArchiveKeyPerJob(j, n) == <<j, 1>>

(* buildArchiveKey(): one object for each batch of each run.                *)
ArchiveKey(j, n) == <<j, n>>

(* The put of the page into the bucket; an object with that key is replaced.*)
PutObject ==
  /\ phase = "archiving"
  /\ phase' = "deleting"
  /\ LET key == ArchiveKey(job, batches)
     IN  bucket' = [k \in DOMAIN bucket \cup {key} |->
                      IF k = key THEN Range(rows) ELSE bucket[k]]
  /\ UNCHANGED <<config, tables, savedCursor, locals, backlog, failures>>

(* The DELETE of the page, by rowid.                                        *)
DeleteBatch ==
  /\ phase = "deleting"
  /\ table' = Restrict(table, DOMAIN table \ DOMAIN rows)
  /\ BatchDone(DOMAIN rows, batches)
  /\ UNCHANGED <<config, due, oldMetrics, oldEvents, stored, bucket,
                 savedCursor, dryRun, job, batches, backlog, failures>>

-----------------------------------------------------------------------------
(* Slip: clearCronCursor() is not called.                                   *)
SaveCursorOnly ==
  /\ phase = "savingCursor"
  /\ savedCursor' = IF dryRun \/ resumeCursor = NoCursor THEN savedCursor
                    ELSE resumeCursor
  /\ phase' = "pruningMetrics"
  /\ UNCHANGED <<config, tables, bucket, locals, backlog, failures>>

(* writeCronCursor() or clearCronCursor(); a dry run does neither.          *)
SaveCursor ==
  /\ phase = "savingCursor"
  /\ savedCursor' = IF dryRun THEN savedCursor ELSE resumeCursor
  /\ phase' = "pruningMetrics"
  /\ UNCHANGED <<config, tables, bucket, locals, backlog, failures>>

PruneMetrics ==
  /\ phase = "pruningMetrics"
  /\ oldMetrics' = (oldMetrics /\ dryRun)
  /\ phase' = "pruningEvents"
  /\ UNCHANGED <<config, table, due, oldEvents, stored, bucket, savedCursor,
                 locals, backlog, failures>>

(* The next run has another jobId.                                          *)
EndRun ==
  /\ phase' = "idle"
  /\ dryRun' = FALSE
  /\ job' = IF <<job, 1>> \in DOMAIN bucket THEN job + 1 ELSE job
  /\ batches' = 0
  /\ cursor' = NoCursor
  /\ resumeCursor' = NoCursor
  /\ rows' = NoRows

PruneEvents ==
  /\ phase = "pruningEvents"
  /\ oldEvents' = (oldEvents /\ dryRun)
  /\ EndRun
  /\ UNCHANGED <<config, table, due, oldMetrics, stored, bucket, savedCursor,
                 backlog, failures>>

(* A put or a statement fails and scheduled() logs the error, or the        *)
(* invocation is stopped: the run's locals are gone, its effects stay.      *)
RunBreaksOff ==
  /\ phase # "idle"
  /\ failures < MaxFailures
  /\ failures' = failures + 1
  /\ EndRun
  /\ UNCHANGED <<config, tables, bucket, savedCursor, backlog>>

-----------------------------------------------------------------------------
RunStep == SelectBatch \/ PutObject \/ DeleteBatch \/ SaveCursor
           \/ PruneMetrics \/ PruneEvents

Next ==
  \/ StoreReading \/ GrowOld
  \/ RunRefused \/ \E dry \in BOOLEAN : StartRun(dry)
  \/ RunStep \/ RunBreaksOff

(* The cron fires every day, also after a dry run somebody has started by   *)
(* hand, and the awaits of a run settle.  Readings need not come or age.    *)
Fairness == SF_vars(StartRun(FALSE)) /\ WF_vars(RunStep)

Spec == Init /\ [][Next]_vars

FairSpec == Spec /\ Fairness

-----------------------------------------------------------------------------
RowIds == 1..MaxReadings
Readings == 1..MaxReadings

(* Types, and the batch limit: the loop goes round again only below it.     *)
TypeOK ==
  /\ backupRequired \in BOOLEAN /\ archiveBound \in BOOLEAN
  /\ DOMAIN table \subseteq RowIds /\ table \in [DOMAIN table -> 1..stored]
  /\ due \subseteq 1..stored
  /\ oldMetrics \in BOOLEAN /\ oldEvents \in BOOLEAN
  /\ DOMAIN bucket \subseteq (Nat \ {0}) \X (1..MaxBatches)
  /\ bucket \in [DOMAIN bucket -> SUBSET (1..stored)]
  /\ savedCursor \in {NoCursor} \cup RowIds
  /\ phase \in Phases
  /\ dryRun \in BOOLEAN
  /\ job \in Nat \ {0}
  /\ batches \in 0..MaxBatches
  /\ phase = "selecting" => batches < MaxBatches
  /\ cursor \in {NoCursor} \cup RowIds
  /\ resumeCursor \in {NoCursor} \cup RowIds
  /\ DOMAIN rows \subseteq RowIds /\ rows \in [DOMAIN rows -> 1..stored]
  /\ stored \in 0..MaxReadings
  /\ backlog \subseteq 1..stored
  /\ failures \in 0..MaxFailures

(* A run that ends with telemetry_has_more false has left nothing of the    *)
(* backlog its chain of runs set out to drain: neither a break-off, nor a   *)
(* cursor saved at the batch limit, nor rowids handed out again make it     *)
(* skip a row (retention.ts:254-300).                                       *)
DrainedWhenNoMore ==
  phase = "savingCursor" /\ ~dryRun /\ resumeCursor = NoCursor
    => backlog \cap Live = {}

(* The job keeps the retention policy: only overdue readings are removed,   *)
(* whenever a bucket is bound or a backup is required only after they are   *)
(* in the archive, and no later object replaces one they are in - however   *)
(* runs break off between put, DELETE and cursor.                           *)
Policy == INSTANCE RetentionPolicy WITH
            backups <- (backupRequired \/ archiveBound),
            live <- Live,
            overdue <- due,
            archive <- Archived

ImplementsPolicy == Policy!PolicySpec

(* Every overdue reading leaves the table in the end, also one whose rowid  *)
(* is below a saved cursor, unless the job is set up so that it refuses to  *)
(* run (retention.ts:89-93).                                                *)
OverdueLeaves ==
  \A r \in Readings :
    r \in Live \cap due /\ (backupRequired => archiveBound) ~> r \notin Live
=============================================================================
