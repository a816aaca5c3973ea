------------------------- MODULE RetentionJobProofs -------------------------
(***************************************************************************)
(* The retention job, for every batch size, batch limit and number of      *)
(* readings and of runs that break off: it removes only what is overdue    *)
(* and, where an archive is kept, archived (it implements                  *)
(* RetentionPolicy), and it skips nothing.                                 *)
(*                                                                         *)
(* The invariant has to say three things the properties do not: that what  *)
(* a run holds in its page is still in the table as it was read, because   *)
(* nobody else deletes rows; that what is left of the backlog lies above   *)
(* every cursor a run may go on from; and that the keys of the archive are *)
(* of earlier runs or earlier batches, so that no put replaces an object.  *)
(***************************************************************************)
EXTENDS RetentionJob, FiniteSetTheorems, TLAPS

(* A reading is in one row only.                                            *)
OneRowEach == \A i, j \in DOMAIN table : table[i] = table[j] => i = j

(* The page a run holds is still in the table, and overdue.                 *)
PageIsLive ==
  phase \in {"archiving", "deleting"} =>
    \A id \in DOMAIN rows :
      id \in DOMAIN table /\ rows[id] = table[id] /\ rows[id] \in due

(* The rows of the backlog that are not deleted yet lie above cursor c.     *)
BacklogAbove(c) == \A id \in DOMAIN table : table[id] \in backlog => c < id

(* Nothing of the backlog is left.                                            *)
BacklogGone == \A id \in DOMAIN table : table[id] \notin backlog

(* What is above the page comes with a later page, and a short page is the  *)
(* last one.                                                                *)
PageComesFirst ==
  phase \in {"archiving", "deleting"} =>
    \A id \in DOMAIN table : table[id] \in backlog /\ id \notin DOMAIN rows =>
      /\ ~(Cardinality(DOMAIN rows) < BatchSize)
      /\ \A n \in DOMAIN rows : n < id

(* A cursor, saved or of the run in progress, lies below what is left of the  *)
(* backlog; one that is about to be cleared leaves nothing.                   *)
CursorsBelowBacklog ==
  /\ backlog \subseteq due
  /\ BacklogAbove(savedCursor)
  /\ ~dryRun /\ phase \in {"selecting", "archiving", "deleting"} =>
       BacklogAbove(cursor)
  /\ ~dryRun /\ phase = "savingCursor" =>
       BacklogAbove(resumeCursor) /\ (resumeCursor = NoCursor => BacklogGone)
  /\ PageComesFirst

(* Whose objects are in the archive: jobs before this one, and the batches  *)
(* of this one so far.                                                      *)
KeysAreOfThePast ==
  \A key \in DOMAIN bucket :
    /\ <<key[1], 1>> \in DOMAIN bucket
    /\ \/ key[1] < job
       \/ /\ key[1] = job /\ phase # "idle" /\ ~dryRun
          /\ key[2] <= batches
          /\ phase = "archiving" => key[2] < batches

(* A run that has put anything has put its first batch.                     *)
FirstBatchIsPut ==
  /\ archiveBound /\ phase = "archiving" /\ 1 < batches =>
       <<job, 1>> \in DOMAIN bucket
  /\ archiveBound /\ phase = "deleting" => <<job, 1>> \in DOMAIN bucket
  /\ archiveBound /\ phase = "selecting" /\ ~dryRun /\ 0 < batches =>
       <<job, 1>> \in DOMAIN bucket

(* What is about to be deleted is in the archive, if there is one.          *)
PageIsArchived ==
  phase = "deleting" /\ archiveBound =>
    /\ <<job, batches>> \in DOMAIN bucket
    /\ bucket[<<job, batches>>] = Range(rows)

(* A run that needs a bucket has one, and a dry run neither puts nor deletes. *)
RunIsAllowed ==
  /\ phase # "idle" /\ backupRequired => archiveBound
  /\ phase \in {"archiving", "deleting"} => ~dryRun /\ 0 < batches
  /\ phase = "archiving" => archiveBound

(* The inductive invariant.                                                   *)
IInv ==
  /\ TypeOK /\ OneRowEach /\ PageIsLive /\ CursorsBelowBacklog
  /\ KeysAreOfThePast /\ FirstBatchIsPut /\ PageIsArchived /\ RunIsAllowed

-----------------------------------------------------------------------------
USE RetentionConstants

(* An empty database and an empty bucket.                                     *)
LEMMA InitEstablishesIInv == Init => IInv
  <1> SUFFICES ASSUME Init PROVE IInv
    OBVIOUS
  <1>0. DOMAIN table = {} /\ DOMAIN bucket = {} /\ DOMAIN rows = {}
    BY DEF Init, NoRows
  <1>1. TypeOK
    <2>1. /\ table \in [DOMAIN table -> 1..stored]
          /\ rows \in [DOMAIN rows -> 1..stored]
      BY DEF Init, NoRows
    <2>2. bucket \in [DOMAIN bucket -> SUBSET (1..stored)]
      BY DEF Init
    <2>3. /\ backupRequired \in BOOLEAN /\ archiveBound \in BOOLEAN
          /\ oldMetrics \in BOOLEAN /\ oldEvents \in BOOLEAN
          /\ dryRun \in BOOLEAN
      BY DEF Init
    <2>4. /\ due = {} /\ backlog = {} /\ stored = 0 /\ failures = 0
          /\ batches = 0 /\ job = 1 /\ phase = "idle"
          /\ savedCursor = NoCursor /\ cursor = NoCursor
          /\ resumeCursor = NoCursor
      BY DEF Init
    <2>. QED
      BY <1>0, <2>1, <2>2, <2>3, <2>4 DEF TypeOK, Phases
  <1>2. OneRowEach /\ PageIsLive /\ CursorsBelowBacklog
    BY <1>0 DEF Init, OneRowEach, PageIsLive, CursorsBelowBacklog, BacklogAbove,
                PageComesFirst
  <1>3. KeysAreOfThePast /\ FirstBatchIsPut /\ PageIsArchived /\ RunIsAllowed
    BY <1>0 DEF Init, KeysAreOfThePast, FirstBatchIsPut, PageIsArchived,
                RunIsAllowed
  <1>. QED  BY <1>1, <1>2, <1>3 DEF IInv

(* A new row is above every row in use, and in no backlog.                    *)
LEMMA StoreReadingKeepsIInv ==
  ASSUME IInv, StoreReading PROVE IInv'
  <1>1. TypeOK'
    BY DEF StoreReading, IInv, TypeOK, RowIds, config, locals
  <1>2. OneRowEach'
    BY DEF StoreReading, IInv, OneRowEach, TypeOK
  <1>3. PageIsLive'
    BY DEF StoreReading, IInv, PageIsLive, locals
  <1>4. CursorsBelowBacklog'
    BY DEF StoreReading, IInv, CursorsBelowBacklog, TypeOK, BacklogAbove,
           BacklogGone, PageComesFirst, locals
  <1>5. KeysAreOfThePast'
    BY DEF StoreReading, IInv, KeysAreOfThePast, locals
  <1>6. FirstBatchIsPut'
    BY DEF StoreReading, IInv, FirstBatchIsPut, config, locals
  <1>7. PageIsArchived'
    BY DEF StoreReading, IInv, PageIsArchived, config, locals
  <1>8. RunIsAllowed'
    BY DEF StoreReading, IInv, RunIsAllowed, config, locals
  <1>. QED  BY <1>1, <1>2, <1>3, <1>4, <1>5, <1>6, <1>7, <1>8 DEF IInv

(* The backlog is what was overdue as its run started, no more.               *)
LEMMA GrowOldKeepsIInv ==
  ASSUME IInv, GrowOld PROVE IInv'
  <1>1. TypeOK'
    BY DEF GrowOld, Live, IInv, TypeOK, Range, config, tables, locals
  <1>2. OneRowEach'
    BY DEF GrowOld, IInv, OneRowEach
  <1>3. PageIsLive'
    BY DEF GrowOld, PageIsLive
  <1>4. CursorsBelowBacklog'
    BY DEF GrowOld, IInv, CursorsBelowBacklog, BacklogAbove, PageComesFirst
  <1>5. KeysAreOfThePast'
    BY DEF GrowOld, IInv, KeysAreOfThePast, locals
  <1>6. FirstBatchIsPut'
    BY DEF GrowOld, FirstBatchIsPut
  <1>7. PageIsArchived'
    BY DEF GrowOld, PageIsArchived
  <1>8. RunIsAllowed'
    BY DEF GrowOld, RunIsAllowed
  <1>. QED  BY <1>1, <1>2, <1>3, <1>4, <1>5, <1>6, <1>7, <1>8 DEF IInv

(* A run that starts without a cursor makes everything overdue its backlog.   *)
LEMMA StartRunKeepsIInv ==
  ASSUME NEW dry \in BOOLEAN, IInv, StartRun(dry) PROVE IInv'
  <1>1. TypeOK'
    BY DEF StartRun, IInv, TypeOK, Phases, config, tables
  <1>2. OneRowEach'
    BY DEF StartRun, IInv, OneRowEach, tables
  <1>3. PageIsLive'
    BY DEF StartRun, PageIsLive
  <1>4. CursorsBelowBacklog'
    BY DEF StartRun, IInv, CursorsBelowBacklog, TypeOK, BacklogAbove,
           PageComesFirst, RowIds, NoCursor, tables
  <1>5. KeysAreOfThePast'
    BY DEF StartRun, IInv, KeysAreOfThePast
  <1>6. FirstBatchIsPut'
    BY DEF StartRun, FirstBatchIsPut
  <1>7. PageIsArchived'
    BY DEF StartRun, PageIsArchived
  <1>8. RunIsAllowed'
    BY DEF StartRun, RunIsAllowed, config
  <1>. QED  BY <1>1, <1>2, <1>3, <1>4, <1>5, <1>6, <1>7, <1>8 DEF IInv

(* The page is the lowest overdue rows above the cursor; an empty one leaves  *)
(* no backlog.                                                                *)
LEMMA SelectBatchKeepsIInv ==
  ASSUME IInv, SelectBatch PROVE IInv'
  <1> DEFINE overdue == {id \in DOMAIN table : id > cursor /\ table[id] \in due}
  <1>0. PICK page \in SUBSET overdue :
          /\ IsPage(page, overdue)
          /\ \/ /\ page = {}
                /\ resumeCursor' = NoCursor
                /\ phase' = "savingCursor"
                /\ UNCHANGED <<batches, cursor, rows>>
             \/ /\ page # {} /\ ~dryRun
                /\ rows' = [id \in page |-> table[id]]
                /\ phase' = IF archiveBound THEN "archiving" ELSE "deleting"
                /\ batches' = batches + 1
                /\ UNCHANGED <<cursor, resumeCursor>>
             \/ /\ page # {} /\ dryRun
                /\ batches' = batches + 1
                /\ BatchDone(page, batches + 1)
    BY DEF SelectBatch
  <1>a. /\ phase = "selecting"
        /\ UNCHANGED <<config, tables, bucket, savedCursor, dryRun, job,
                       backlog, failures>>
    BY DEF SelectBatch
  <1>1. CASE page = {}
    <2>1. /\ resumeCursor' = NoCursor /\ phase' = "savingCursor"
          /\ UNCHANGED <<batches, cursor, rows>>
      BY <1>0, <1>1
    <2>2. overdue = {}
      BY <1>0, <1>1, FS_EmptySet DEF IsPage
    <2>3. TypeOK'
      BY <1>a, <2>1 DEF IInv, TypeOK, Phases, config, tables
    <2>4. CursorsBelowBacklog'
      BY <1>a, <2>1, <2>2 DEF IInv, CursorsBelowBacklog, BacklogAbove,
         BacklogGone, PageComesFirst, tables
    <2>5. KeysAreOfThePast'
      BY <1>a, <2>1 DEF IInv, KeysAreOfThePast
    <2>6. /\ OneRowEach' /\ PageIsLive' /\ FirstBatchIsPut' /\ PageIsArchived'
          /\ RunIsAllowed'
      BY <1>a, <2>1 DEF IInv, OneRowEach, PageIsLive, FirstBatchIsPut,
                        PageIsArchived, RunIsAllowed, config, tables
    <2>. QED  BY <2>3, <2>4, <2>5, <2>6 DEF IInv
  <1>2. CASE page # {} /\ ~dryRun
    <2>1. /\ rows' = [id \in page |-> table[id]]
          /\ phase' = IF archiveBound THEN "archiving" ELSE "deleting"
          /\ batches' = batches + 1
          /\ UNCHANGED <<cursor, resumeCursor>>
      BY <1>0, <1>2
    <2>2. DOMAIN rows' = page
      BY <2>1
    <2>3. TypeOK'
      <3>1. page \subseteq RowIds /\ rows' \in [page -> 1..stored]
        BY <2>1 DEF IInv, TypeOK
      <3>2. phase' \in Phases /\ phase' # "selecting"
        BY <2>1 DEF Phases
      <3>3. batches' \in 0..MaxBatches
        BY <1>a, <2>1 DEF IInv, TypeOK
      <3>. QED
        BY <1>a, <2>1, <2>2, <3>1, <3>2, <3>3 DEF IInv, TypeOK, config, tables
    <2>4. CursorsBelowBacklog'
      <3>1. PageComesFirst'
        BY <1>0, <1>a, <1>2, <2>1, <2>2 DEF IsPage, IInv, CursorsBelowBacklog,
           BacklogAbove, PageComesFirst, tables
      <3>. QED
        BY <1>a, <2>1, <3>1 DEF IInv, CursorsBelowBacklog, BacklogAbove, tables
    <2>5. KeysAreOfThePast'
      <3> SUFFICES ASSUME NEW key \in DOMAIN bucket
                   PROVE  /\ <<key[1], 1>> \in DOMAIN bucket
                          /\ \/ key[1] < job
                             \/ /\ key[1] = job /\ phase' # "idle" /\ ~dryRun
                                /\ key[2] <= batches' /\ key[2] < batches'
        BY <1>a DEF KeysAreOfThePast
      <3>1. batches' = batches + 1 /\ batches \in Nat /\ key[2] \in Nat
        BY <2>1 DEF IInv, TypeOK
      <3>2. phase' # "idle"
        BY <2>1
      <3>3. /\ <<key[1], 1>> \in DOMAIN bucket
            /\ key[1] < job \/ (key[1] = job /\ key[2] <= batches)
        BY DEF IInv, KeysAreOfThePast
      <3>. QED  BY <1>2, <3>1, <3>2, <3>3
    <2>6. /\ OneRowEach' /\ PageIsLive' /\ FirstBatchIsPut' /\ PageIsArchived'
          /\ RunIsAllowed'
      BY <1>a, <1>2, <2>1, <2>2 DEF IInv, TypeOK, OneRowEach, PageIsLive,
         FirstBatchIsPut, PageIsArchived, RunIsAllowed, config, tables
    <2>. QED  BY <2>3, <2>4, <2>5, <2>6 DEF IInv
  <1>3. CASE page # {} /\ dryRun
    <2>1. batches' = batches + 1 /\ BatchDone(page, batches + 1)
      BY <1>0, <1>3
    <2>2. PICK last \in page :
            /\ cursor' = last
            /\ resumeCursor' \in {last, NoCursor}
            /\ phase' \in {"savingCursor", "selecting"}
            /\ phase' = "selecting" => batches + 1 < MaxBatches
      BY <2>1 DEF BatchDone
    <2>3. rows' = NoRows
      BY <2>1 DEF BatchDone
    <2>4. TypeOK'
      <3>1. last \in RowIds /\ batches' \in 0..MaxBatches
        BY <1>a, <2>1 DEF IInv, TypeOK
      <3>2. DOMAIN rows' = {} /\ rows' \in [DOMAIN rows' -> 1..stored']
        BY <2>3 DEF NoRows
      <3>. QED
        BY <1>a, <2>1, <2>2, <3>1, <3>2 DEF IInv, TypeOK, Phases, config, tables
    <2>5. KeysAreOfThePast'
      BY <1>a, <1>3, <2>1, <2>2 DEF IInv, KeysAreOfThePast
    <2>6. CursorsBelowBacklog'
      BY <1>a, <1>3, <2>2 DEF IInv, CursorsBelowBacklog, BacklogAbove,
         PageComesFirst, tables
    <2>7. /\ OneRowEach' /\ PageIsLive' /\ FirstBatchIsPut' /\ PageIsArchived'
          /\ RunIsAllowed'
      BY <1>a, <1>3, <2>2 DEF IInv, OneRowEach, PageIsLive, FirstBatchIsPut,
         PageIsArchived, RunIsAllowed, config, tables
    <2>. QED  BY <2>4, <2>5, <2>6, <2>7 DEF IInv
  <1>. QED  BY <1>1, <1>2, <1>3

(* The key of the put is new: no object of this run has its batch number.     *)
LEMMA PutObjectKeepsIInv ==
  ASSUME IInv, PutObject PROVE IInv'
  <1>1. TypeOK'
    BY DEF PutObject, ArchiveKey, IInv, TypeOK, RunIsAllowed, Phases, Range,
           config, tables, locals
  <1>2. OneRowEach'
    BY DEF PutObject, IInv, OneRowEach, tables
  <1>3. PageIsLive'
    BY DEF PutObject, IInv, PageIsLive, tables, locals
  <1>4. CursorsBelowBacklog'
    BY DEF PutObject, IInv, CursorsBelowBacklog, BacklogAbove, PageComesFirst,
           tables, locals
  <1>5. KeysAreOfThePast'
    <2> SUFFICES ASSUME NEW key \in DOMAIN bucket'
                 PROVE  /\ <<key[1], 1>> \in DOMAIN bucket'
                        /\ \/ key[1] < job'
                           \/ /\ key[1] = job' /\ phase' # "idle" /\ ~dryRun'
                              /\ key[2] <= batches'
                              /\ phase' = "archiving" => key[2] < batches'
      BY DEF KeysAreOfThePast
    <2>1. /\ DOMAIN bucket' = DOMAIN bucket \cup {<<job, batches>>}
          /\ phase = "archiving" /\ phase' = "deleting" /\ UNCHANGED locals
      BY DEF PutObject, ArchiveKey
    <2>2. batches \in 1..MaxBatches /\ archiveBound /\ ~dryRun
      BY <2>1 DEF IInv, TypeOK, RunIsAllowed
    <2>3. CASE key \in DOMAIN bucket
      BY <2>1, <2>3 DEF IInv, KeysAreOfThePast, locals
    <2>4. CASE key = <<job, batches>>
      BY <2>1, <2>2, <2>4 DEF IInv, FirstBatchIsPut, locals
    <2>. QED  BY <2>1, <2>3, <2>4
  <1>6. FirstBatchIsPut'
    BY DEF PutObject, ArchiveKey, IInv, FirstBatchIsPut, TypeOK, RunIsAllowed,
           locals
  <1>7. PageIsArchived'
    BY DEF PutObject, ArchiveKey, PageIsArchived, locals
  <1>8. RunIsAllowed'
    BY DEF PutObject, IInv, RunIsAllowed, config, locals
  <1>. QED  BY <1>1, <1>2, <1>3, <1>4, <1>5, <1>6, <1>7, <1>8 DEF IInv

(* The cursor moves past the page, and what is left comes later.              *)
LEMMA DeleteBatchKeepsIInv ==
  ASSUME IInv, DeleteBatch PROVE IInv'
  <1>1. TypeOK'
    BY DEF DeleteBatch, BatchDone, NoRows, Restrict, IInv, TypeOK,
           KeysAreOfThePast, Phases, config
  <1>2. OneRowEach'
    BY DEF DeleteBatch, Restrict, IInv, OneRowEach
  <1>3. PageIsLive'
    BY DEF DeleteBatch, BatchDone, PageIsLive
  <1>4. CursorsBelowBacklog'
    BY DEF DeleteBatch, BatchDone, Restrict, IInv, CursorsBelowBacklog, TypeOK,
           OneRowEach, PageIsLive, PageIsArchived, RunIsAllowed, BacklogAbove,
           BacklogGone, PageComesFirst, RowIds, NoCursor, config
  <1>5. KeysAreOfThePast'
    BY DEF DeleteBatch, BatchDone, IInv, KeysAreOfThePast
  <1>6. FirstBatchIsPut'
    BY DEF DeleteBatch, IInv, FirstBatchIsPut, config
  <1>7. PageIsArchived'
    BY DEF DeleteBatch, BatchDone, PageIsArchived
  <1>8. RunIsAllowed'
    BY DEF DeleteBatch, BatchDone, IInv, RunIsAllowed, config
  <1>. QED  BY <1>1, <1>2, <1>3, <1>4, <1>5, <1>6, <1>7, <1>8 DEF IInv

(* The cursor that is saved is the one the loop left behind.                  *)
LEMMA SaveCursorKeepsIInv ==
  ASSUME IInv, SaveCursor PROVE IInv'
  <1>1. TypeOK'
    BY DEF SaveCursor, IInv, TypeOK, Phases, config, tables, locals
  <1>2. OneRowEach'
    BY DEF SaveCursor, IInv, OneRowEach, tables
  <1>3. PageIsLive'
    BY DEF SaveCursor, PageIsLive
  <1>4. CursorsBelowBacklog'
    BY DEF SaveCursor, IInv, CursorsBelowBacklog, BacklogAbove, PageComesFirst,
           tables
  <1>5. KeysAreOfThePast'
    BY DEF SaveCursor, IInv, KeysAreOfThePast, locals
  <1>6. FirstBatchIsPut'
    BY DEF SaveCursor, FirstBatchIsPut
  <1>7. PageIsArchived'
    BY DEF SaveCursor, PageIsArchived
  <1>8. RunIsAllowed'
    BY DEF SaveCursor, IInv, RunIsAllowed, config
  <1>. QED  BY <1>1, <1>2, <1>3, <1>4, <1>5, <1>6, <1>7, <1>8 DEF IInv

(* The other tables are not telemetry.                                        *)
LEMMA PruneMetricsKeepsIInv ==
  ASSUME IInv, PruneMetrics PROVE IInv'
  <1>1. TypeOK'
    BY DEF PruneMetrics, IInv, TypeOK, Phases, config, locals
  <1>2. OneRowEach'
    BY DEF PruneMetrics, IInv, OneRowEach
  <1>3. PageIsLive'
    BY DEF PruneMetrics, PageIsLive
  <1>4. CursorsBelowBacklog'
    BY DEF PruneMetrics, IInv, CursorsBelowBacklog, BacklogAbove, PageComesFirst
  <1>5. KeysAreOfThePast'
    BY DEF PruneMetrics, IInv, KeysAreOfThePast, locals
  <1>6. FirstBatchIsPut'
    BY DEF PruneMetrics, FirstBatchIsPut
  <1>7. PageIsArchived'
    BY DEF PruneMetrics, PageIsArchived
  <1>8. RunIsAllowed'
    BY DEF PruneMetrics, IInv, RunIsAllowed, config
  <1>. QED  BY <1>1, <1>2, <1>3, <1>4, <1>5, <1>6, <1>7, <1>8 DEF IInv

(* After the run, no object carries the number of the next job.             *)
LEMMA NextJobIsFresh ==
  ASSUME IInv, EndRun
  PROVE  job' \in Nat \ {0} /\ \A key \in DOMAIN bucket : key[1] < job'
  <1>1. job' = IF <<job, 1>> \in DOMAIN bucket THEN job + 1 ELSE job
    BY DEF EndRun
  <1>2. \A key \in DOMAIN bucket :
          key[1] < job \/ (key[1] = job /\ <<job, 1>> \in DOMAIN bucket)
    BY DEF IInv, KeysAreOfThePast
  <1>3. job \in Nat \ {0} /\ \A key \in DOMAIN bucket : key[1] \in Nat
    BY DEF IInv, TypeOK
  <1>. QED  BY <1>1, <1>2, <1>3

(* A run that ends leaves no locals.                                        *)
LEMMA EndRunKeepsIInv ==
  ASSUME IInv, EndRun, oldMetrics' \in BOOLEAN, oldEvents' \in BOOLEAN,
         failures' \in 0..MaxFailures,
         UNCHANGED <<config, table, due, stored, bucket, savedCursor, backlog>>
  PROVE  IInv'
  <1>1. TypeOK'
    <2>1. DOMAIN rows' = {} /\ rows' \in [DOMAIN rows' -> 1..stored']
      BY DEF EndRun, NoRows
    <2>2. backupRequired' \in BOOLEAN /\ archiveBound' \in BOOLEAN
      BY DEF IInv, TypeOK, config
    <2>3. /\ oldMetrics' \in BOOLEAN /\ oldEvents' \in BOOLEAN
          /\ dryRun' \in BOOLEAN
      BY DEF EndRun
    <2>4. /\ DOMAIN table' \subseteq RowIds
          /\ table' \in [DOMAIN table' -> 1..stored']
      BY DEF IInv, TypeOK, tables
    <2>5. /\ due' \subseteq 1..stored' /\ stored' \in 0..MaxReadings
          /\ backlog' \subseteq 1..stored'
          /\ failures' \in 0..MaxFailures
      BY DEF IInv, TypeOK, tables
    <2>6. /\ DOMAIN bucket' \subseteq (Nat \ {0}) \X (1..MaxBatches)
          /\ bucket' \in [DOMAIN bucket' -> SUBSET (1..stored')]
      BY DEF IInv, TypeOK, tables
    <2>7. /\ savedCursor' \in {NoCursor} \cup RowIds /\ phase' = "idle"
          /\ batches' = 0 /\ cursor' = NoCursor /\ resumeCursor' = NoCursor
      BY DEF EndRun, IInv, TypeOK
    <2>. QED
      BY NextJobIsFresh, <2>1, <2>2, <2>3, <2>4, <2>5, <2>6, <2>7
         DEF TypeOK, Phases
  <1>2. OneRowEach'
    BY DEF IInv, OneRowEach
  <1>3. PageIsLive'
    BY DEF EndRun, PageIsLive
  <1>4. CursorsBelowBacklog'
    BY DEF EndRun, IInv, CursorsBelowBacklog, BacklogAbove, PageComesFirst
  <1>5. KeysAreOfThePast'
    BY NextJobIsFresh DEF IInv, KeysAreOfThePast
  <1>6. FirstBatchIsPut'
    BY DEF EndRun, FirstBatchIsPut
  <1>7. PageIsArchived'
    BY DEF EndRun, PageIsArchived
  <1>8. RunIsAllowed'
    BY DEF EndRun, RunIsAllowed
  <1>. QED  BY <1>1, <1>2, <1>3, <1>4, <1>5, <1>6, <1>7, <1>8 DEF IInv

(* The run ends.                                                              *)
LEMMA PruneEventsKeepsIInv == IInv /\ PruneEvents => IInv'
  <1> SUFFICES ASSUME IInv, PruneEvents PROVE IInv'
    OBVIOUS
  <1>1. oldEvents' \in BOOLEAN
    BY DEF PruneEvents
  <1>. QED  BY <1>1, EndRunKeepsIInv DEF PruneEvents, IInv, TypeOK

(* The run ends early, its effects stay.                                      *)
LEMMA RunBreaksOffKeepsIInv == IInv /\ RunBreaksOff => IInv'
  <1> SUFFICES ASSUME IInv, RunBreaksOff PROVE IInv'
    OBVIOUS
  <1>1. failures' \in 0..MaxFailures
    BY DEF RunBreaksOff, IInv, TypeOK
  <1>. QED  BY <1>1, EndRunKeepsIInv DEF RunBreaksOff, tables, IInv, TypeOK

-----------------------------------------------------------------------------
(* Every step keeps the invariant.                                            *)
LEMMA StepKeepsIInv == IInv /\ [Next]_vars => IInv'
  <1> SUFFICES ASSUME IInv, [Next]_vars PROVE IInv'
    OBVIOUS
  <1>1. CASE RunStep
    BY <1>1, SelectBatchKeepsIInv, PutObjectKeepsIInv, DeleteBatchKeepsIInv,
       SaveCursorKeepsIInv, PruneMetricsKeepsIInv, PruneEventsKeepsIInv
       DEF RunStep
  <1>2. CASE UNCHANGED vars
    BY <1>2 DEF IInv, TypeOK, OneRowEach, PageIsLive, CursorsBelowBacklog,
                KeysAreOfThePast, FirstBatchIsPut, PageIsArchived, RunIsAllowed,
                BacklogAbove, BacklogGone, PageComesFirst, vars
  <1>3. CASE RunRefused
    BY <1>2, <1>3 DEF RunRefused
  <1>. QED
    BY <1>1, <1>2, <1>3, StoreReadingKeepsIInv, GrowOldKeepsIInv,
       StartRunKeepsIInv, RunBreaksOffKeepsIInv
       DEF Next

(* The inductive invariant holds in every state of every behaviour.           *)
THEOREM Invariance == Spec => []IInv
  <1>1. Init => IInv  BY InitEstablishesIInv
  <1>2. IInv /\ [Next]_vars => IInv'  BY StepKeepsIInv
  <1>. QED  BY <1>1, <1>2, PTL DEF Spec

(* Every variable keeps its type, rowids stay within the readings stored, and *)
(* the loop of pruneTelemetry() is not entered again at its batch limit       *)
(* (retention.ts:254-300).                                                    *)
THEOREM RetentionTypeCorrect == Spec => []TypeOK
  <1>1. IInv => TypeOK  BY DEF IInv
  <1>. QED  BY <1>1, Invariance, PTL

(* A run that reports telemetry_has_more false has left nothing of the        *)
(* backlog its chain of runs set out to drain (retention.ts:254-300): for any *)
(* page size, batch limit and number of break-offs.                           *)
THEOREM NothingIsSkipped == Spec => []DrainedWhenNoMore
  <1>1. IInv => DrainedWhenNoMore
    BY DEF IInv, CursorsBelowBacklog, BacklogGone, DrainedWhenNoMore, Live,
           Range
  <1>. QED  BY <1>1, Invariance, PTL

-----------------------------------------------------------------------------
(* The refinement: the first state of the job is one of the policy.           *)
LEMMA InitIsPolicyInit == Init => Policy!PolicyInit
  BY DEF Init, Policy!PolicyInit, Live, Archived, Range, NoRows

(* A reading stored is a reading the policy has not got.                      *)
LEMMA StoreReadingIsStore == IInv /\ StoreReading => Policy!Store
  <1> SUFFICES ASSUME IInv, StoreReading PROVE Policy!Store
    OBVIOUS
  <1> DEFINE r == stored + 1
  <1>1. r \in Readings /\ r \notin Live
    BY DEF StoreReading, IInv, TypeOK, Live, Range, Readings
  <1>2. Live' = Live \cup {r}
    <2>1. PICK id \in 1..MaxReadings :
            /\ id \notin DOMAIN table
            /\ table' = [n \in DOMAIN table \cup {id} |->
                           IF n = id THEN stored + 1 ELSE table[n]]
      BY DEF StoreReading
    <2>. QED  BY <2>1 DEF Live, Range
  <1>3. /\ due' \in {due, due \cup {r}}
        /\ UNCHANGED <<backupRequired, archiveBound, bucket>>
    BY DEF StoreReading, config
  <1>. QED  BY <1>1, <1>2, <1>3 DEF Policy!Store, Archived

(* Time passes for both.                                                      *)
LEMMA GrowOldIsGrowOld == GrowOld => Policy!GrowOld
  BY DEF GrowOld, config, Policy!GrowOld, Live, Archived

(* A put copies the page into the archive and replaces no object, so nothing  *)
(* is lost from it.                                                           *)
LEMMA PutObjectIsArchive == IInv /\ PutObject => Policy!Archive
  <1> SUFFICES ASSUME IInv, PutObject PROVE Policy!Archive
    OBVIOUS
  <1> DEFINE key == <<job, batches>>
  <1>1. /\ bucket' = [k \in DOMAIN bucket \cup {key} |->
                        IF k = key THEN Range(rows) ELSE bucket[k]]
        /\ UNCHANGED <<backupRequired, archiveBound, table, due>>
        /\ phase = "archiving"
    BY DEF PutObject, ArchiveKey, config, tables
  <1>2. key \notin DOMAIN bucket
    <2> SUFFICES ASSUME key \in DOMAIN bucket PROVE FALSE
      OBVIOUS
    <2>1. job \in Nat /\ batches \in Nat /\ key[1] = job /\ key[2] = batches
      BY DEF IInv, TypeOK
    <2>2. key[1] < job \/ key[2] < batches
      BY <1>1 DEF IInv, KeysAreOfThePast
    <2>. QED  BY <2>1, <2>2
  <1>3. Archived' = Archived \cup Range(rows)
    <2>1. /\ DOMAIN bucket' = DOMAIN bucket \cup {key}
          /\ bucket'[key] = Range(rows)
      BY <1>1
    <2>2. \A k \in DOMAIN bucket : bucket'[k] = bucket[k]
      BY <1>1, <1>2
    <2> HIDE DEF key
    <2>. QED  BY <2>1, <2>2 DEF Archived, Range
  <1>4. Range(rows) \subseteq Live \cap due
    BY <1>1 DEF IInv, PageIsLive, Range
  <1>. QED  BY <1>1, <1>3, <1>4 DEF Policy!Archive, Live

(* A DELETE by rowid removes the readings of the page and no others, and they *)
(* are in the archive if one is kept.                                         *)
LEMMA DeleteBatchIsRemove == IInv /\ DeleteBatch => Policy!Remove
  <1> SUFFICES ASSUME IInv, DeleteBatch PROVE Policy!Remove
    OBVIOUS
  <1>1. /\ table' = [id \in DOMAIN table \ DOMAIN rows |-> table[id]]
        /\ UNCHANGED <<backupRequired, archiveBound, due, bucket>>
        /\ phase = "deleting"
    BY DEF DeleteBatch, Restrict, config
  <1>2. Range(rows) \subseteq Live \cap due
    BY <1>1 DEF IInv, PageIsLive, Range
  <1>3. Live' = Live \ Range(rows)
    <2>1. \A i \in DOMAIN table : table[i] \in Range(rows) <=> i \in DOMAIN rows
      BY <1>1 DEF IInv, PageIsLive, OneRowEach, Range
    <2>. QED  BY <1>1, <2>1 DEF Live, Range
  <1>4. backupRequired \/ archiveBound => Range(rows) \subseteq Archived
    BY <1>1 DEF IInv, PageIsArchived, RunIsAllowed, Archived, Range
  <1>. QED  BY <1>1, <1>2, <1>3, <1>4 DEF Policy!Remove, Archived

(* Every other step leaves the tables and the archive as they are.            *)
LEMMA OtherStepsStutter ==
  ASSUME \/ StartRun(TRUE) \/ StartRun(FALSE) \/ SelectBatch \/ SaveCursor
         \/ PruneMetrics \/ PruneEvents \/ RunBreaksOff \/ UNCHANGED vars
  PROVE  UNCHANGED Policy!policyVars
  BY DEF StartRun, SelectBatch, SaveCursor, PruneMetrics, PruneEvents,
         RunBreaksOff, vars, config, tables, Policy!policyVars, Live, Archived

(* Every step of the job is a step of the policy or leaves its variables      *)
(* alone.                                                                     *)
LEMMA StepIsPolicyStep ==
  IInv /\ [Next]_vars => [Policy!PolicyNext]_(Policy!policyVars)
  BY StoreReadingIsStore, GrowOldIsGrowOld, PutObjectIsArchive,
     DeleteBatchIsRemove, OtherStepsStutter
     DEF Next, RunStep, RunRefused, Policy!PolicyNext

(* The job implements RetentionPolicy: only overdue readings are removed,     *)
(* where an archive is kept only after they are in it, and nothing is ever    *)
(* lost from the archive - whatever runs break off between put, DELETE and    *)
(* cursor (retention.ts:207-300).                                             *)
THEOREM RetentionImplementsPolicy == Spec => ImplementsPolicy
  <1>. QED
    BY InitIsPolicyInit, StepIsPolicyStep, Invariance, PTL
    DEF Spec, ImplementsPolicy, Policy!PolicySpec
=============================================================================
