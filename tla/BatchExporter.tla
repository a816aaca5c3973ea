---------------------------- MODULE BatchExporter ----------------------------
(***************************************************************************)
(* The CN gateway's BatchExporter (cn-gateway/src/ingest/exporter.ts):     *)
(* readings that POST /ingest answered with 202 wait in an in-memory       *)
(* queue; flush() takes a batch off its head, signs it, POSTs it to the    *)
(* overseas API, records it in Postgres' export_log and, when any of these *)
(* fails, puts the batch back and backs off.                               *)
(*                                                                         *)
(* flush() is an async function with four awaits (sign, fetch, INSERT,     *)
(* sleep), so calls of it can overlap enqueue(), the timer and each other. *)
(* A call of flush() that has passed its guard is a "run"; Runs is a pool  *)
(* of names for them, larger than the single flight the code wants, so     *)
(* that overlapping runs are states of the model and not excluded by it.   *)
(*                                                                         *)
(* A POST whose fetch() rejects, or whose gateway stops, may still be       *)
(* worked on by the overseas API (routes/ingest.ts), which stores the      *)
(* batch before or after the retry, or never: Posts is a pool of names for *)
(* such POSTs, which nobody waits for any more.                            *)
(*                                                                         *)
(* A record is its arrival number: the n-th call of enqueue() carries      *)
(* record n.  What a record contains does not matter to the exporter.      *)
(***************************************************************************)
EXTENDS Integers, Sequences, FiniteSets

CONSTANTS
  Runs,           (* names for the calls of flush() that are in progress    *)
  Posts,          (* bound: names for POSTs that have been given up         *)
  BatchSize,      (* EXPORT_BATCH_SIZE                                      *)
  FlushInterval,  (* EXPORT_FLUSH_INTERVAL_MS                               *)
  MaxBackoff,     (* the 60_000 ms cap of the back-off                      *)
  MaxRecords,     (* bound: calls of enqueue() in a behaviour               *)
  MaxFailures     (* bound of the history counter "failures"                *)

ASSUME ExporterConstants ==
  /\ Runs # {}
  /\ BatchSize \in Nat \ {0}
  /\ FlushInterval \in Nat \ {0}
  /\ MaxBackoff \in Nat
  /\ FlushInterval <= MaxBackoff
  /\ MaxRecords \in Nat
  /\ MaxFailures \in Nat

(* FlushInterval doubled n times.                                           *)
Doubled[n \in 0..MaxFailures] ==
  IF n = 0 THEN FlushInterval ELSE 2 * Doubled[n - 1]

(* The bound on counted failures comes after the cap is reached, so that    *)
(* what is not counted any more makes no difference to the back-off.        *)
ASSUME FailuresReachCap == MaxBackoff <= Doubled[MaxFailures]

VARIABLES
  enabled,    (* config.EXPORT_ENABLED, fixed while a process lives         *)
  queue,      (* this.queue                                                 *)
  flushing,   (* this.flushing                                              *)
  timer,      (* this.timer: 0 when undefined, else the delay it was set to *)
  backoffMs,  (* this.backoffMs                                             *)
  pc,         (* what each run awaits                                       *)
  batch,      (* the batch each run has spliced off the queue               *)
  accepted,   (* history: calls of enqueue() so far                         *)
  forgotten,  (* history: the last record a process stop or a disabled      *)
              (* exporter let go of                                         *)
  late,       (* the batch of each POST that was given up and that the      *)
              (* overseas API may still store; <<>> when there is none      *)
  delivered,  (* history: records the overseas API has stored               *)
  logged,     (* records covered by a "success" row of export_log           *)
  failures    (* history: failed runs since the last 2xx, up to MaxFailures *)

exporterVars == <<enabled, queue, flushing, timer, backoffMs, pc, batch>>
outsideVars == <<accepted, forgotten, late, delivered, logged, failures>>
vars == <<enabled, queue, flushing, timer, backoffMs, pc, batch,
          accepted, forgotten, late, delivered, logged, failures>>

-----------------------------------------------------------------------------
NoTimer == 0

(* The await a run is suspended at; "stored" is a fetch whose request the   *)
(* overseas API has already handled and whose response is on its way.       *)
RunStates == {"idle", "signing", "posting", "stored", "logging", "sleeping"}

Lesser(a, b) == IF a <= b THEN a ELSE b

Elements(s) == {s[i] : i \in 1..Len(s)}

(* A new process: everything the exporter keeps is in memory.               *)
Init ==
  /\ enabled \in BOOLEAN
  /\ queue = <<>>
  /\ flushing = FALSE
  /\ timer = NoTimer
  /\ backoffMs = FlushInterval
  /\ pc = [r \in Runs |-> "idle"]
  /\ batch = [r \in Runs |-> <<>>]
  /\ failures = 0
  /\ accepted = 0
  /\ forgotten = 0
  /\ late = [p \in Posts |-> <<>>]
  /\ delivered = {}
  /\ logged = {}

-----------------------------------------------------------------------------
(* scheduleFlush(): what this.timer becomes, with "busy" and "delay" the    *)
(* values of this.flushing and this.backoffMs at the call.                  *)
ScheduledTimer(busy, delay) == IF timer # NoTimer \/ busy THEN timer ELSE delay

(* Slip: the whole queue is taken.                                          *)
TakeEverything(q) == Len(q)

(* The first call of splice: how many records a run takes from queue q.     *)
TakeCount(q) == Lesser(BatchSize, Len(q))

(* Slip: this.flushing is not looked at.                                    *)
FlushUnguarded(q) ==
  \/ /\ q = <<>> \/ ~enabled
     /\ queue' = q
     /\ UNCHANGED <<flushing, pc, batch>>
  \/ /\ q # <<>> /\ enabled
     /\ flushing' = TRUE
     /\ \E r \in Runs :
          /\ pc[r] = "idle"
          /\ pc' = [pc EXCEPT ![r] = "signing"]
          /\ batch' = [batch EXCEPT ![r] = SubSeq(q, 1, TakeCount(q))]
     /\ queue' = SubSeq(q, TakeCount(q) + 1, Len(q))

(* flush() up to its first await, called with this.queue = q.  It returns   *)
(* at once when a run is in flight or there is nothing to send.             *)
Flush(q) ==
  \/ /\ flushing \/ q = <<>> \/ ~enabled
     /\ queue' = q
     /\ UNCHANGED <<flushing, pc, batch>>
  \/ /\ ~flushing /\ q # <<>> /\ enabled
     /\ flushing' = TRUE
     /\ \E r \in Runs :
          /\ pc[r] = "idle"
          /\ pc' = [pc EXCEPT ![r] = "signing"]
          /\ batch' = [batch EXCEPT ![r] = SubSeq(q, 1, TakeCount(q))]
     /\ queue' = SubSeq(q, TakeCount(q) + 1, Len(q))

(* enqueue(record), called by the ingest handler before its 202.  With the  *)
(* exporter disabled the record is let go of.                               *)
Enqueue ==
  /\ accepted < MaxRecords
  /\ accepted' = accepted + 1
  /\ \/ /\ ~enabled
        /\ forgotten' = accepted + 1
        /\ UNCHANGED <<queue, flushing, timer, pc, batch>>
     \/ /\ enabled /\ Len(queue) + 1 >= BatchSize
        /\ Flush(Append(queue, accepted + 1))
        /\ UNCHANGED <<timer, forgotten>>
     \/ /\ enabled /\ Len(queue) + 1 < BatchSize
        /\ queue' = Append(queue, accepted + 1)
        /\ timer' = ScheduledTimer(flushing, backoffMs)
        /\ UNCHANGED <<flushing, pc, batch, forgotten>>
  /\ UNCHANGED <<enabled, backoffMs, late, delivered, logged, failures>>

(* The setTimeout callback: the timer is cleared, then flush() is called.   *)
TimerFires ==
  /\ timer # NoTimer
  /\ timer' = NoTimer
  /\ Flush(queue)
  /\ UNCHANGED <<enabled, backoffMs, outsideVars>>

-----------------------------------------------------------------------------
(* Slip: push instead of unshift, behind what arrived meanwhile.            *)
FailToTail(r) ==
  /\ queue' = queue \o batch[r]
  /\ batch' = [batch EXCEPT ![r] = <<>>]
  /\ backoffMs' = Lesser(backoffMs * 2, MaxBackoff)
  /\ pc' = [pc EXCEPT ![r] = "sleeping"]
  /\ failures' = Lesser(failures + 1, MaxFailures)
  /\ UNCHANGED <<enabled, flushing, timer, accepted, forgotten>>

(* Slip: the batch is not put back at all.                                  *)
FailAndDrop(r) ==
  /\ batch' = [batch EXCEPT ![r] = <<>>]
  /\ backoffMs' = Lesser(backoffMs * 2, MaxBackoff)
  /\ pc' = [pc EXCEPT ![r] = "sleeping"]
  /\ failures' = Lesser(failures + 1, MaxFailures)
  /\ UNCHANGED <<enabled, queue, flushing, timer, accepted, forgotten>>

(* The catch block of flush(), up to its sleep: the batch goes back to the  *)
(* head of the queue and the back-off doubles, up to its cap.               *)
Fail(r) ==
  /\ queue' = batch[r] \o queue
  /\ batch' = [batch EXCEPT ![r] = <<>>]
  /\ backoffMs' = Lesser(backoffMs * 2, MaxBackoff)
  /\ pc' = [pc EXCEPT ![r] = "sleeping"]
  /\ failures' = Lesser(failures + 1, MaxFailures)
  /\ UNCHANGED <<enabled, flushing, timer, accepted, forgotten>>

(* Slip: scheduleFlush() is called while this.flushing is still true.       *)
FinishSchedulesFirst(r) ==
  /\ flushing' = FALSE
  /\ timer' = ScheduledTimer(flushing, backoffMs)
  /\ pc' = [pc EXCEPT ![r] = "idle"]

(* The finally block: the run ends and scheduleFlush() is called.           *)
Finish(r) ==
  /\ flushing' = FALSE
  /\ timer' = ScheduledTimer(FALSE, backoffMs)
  /\ pc' = [pc EXCEPT ![r] = "idle"]

(* await signBatch() resolves, or rejects (the key file cannot be read).    *)
SignOk(r) ==
  /\ pc[r] = "signing"
  /\ pc' = [pc EXCEPT ![r] = "posting"]
  /\ UNCHANGED <<enabled, queue, flushing, timer, backoffMs, batch, outsideVars>>

SignFails(r) ==
  /\ pc[r] = "signing"
  /\ Fail(r)
  /\ UNCHANGED <<late, delivered, logged>>

(* The overseas API stores the batch; the gateway has not heard of it yet.  *)
ServerStores(r) ==
  /\ pc[r] = "posting"
  /\ pc' = [pc EXCEPT ![r] = "stored"]
  /\ delivered' = delivered \cup Elements(batch[r])
  /\ UNCHANGED <<enabled, queue, flushing, timer, backoffMs, batch,
                 accepted, forgotten, late, logged, failures>>

(* Slip: the status is not looked at.                                       *)
PostRefusedUnseen(r) ==
  /\ pc[r] = "posting"
  /\ pc' = [pc EXCEPT ![r] = "logging"]
  /\ backoffMs' = FlushInterval
  /\ failures' = 0
  /\ UNCHANGED <<enabled, queue, flushing, timer, batch,
                 accepted, forgotten, late, delivered, logged>>

(* A status outside 2xx, or no connection at all: the batch is not stored,  *)
(* now or later.                                                            *)
PostRefused(r) ==
  /\ pc[r] = "posting"
  /\ Fail(r)
  /\ UNCHANGED <<late, delivered, logged>>

(* The overseas API may go on with the POST of run r after its caller.      *)
Outlives(r) ==
  \E p \in Posts :
    /\ late[p] = <<>>
    /\ late' = [late EXCEPT ![p] = batch[r]]

(* The connection breaks or times out while the overseas API is working, or *)
(* a proxy answers for it: what becomes of the batch over there is open.    *)
PostBreaks(r) ==
  /\ pc[r] = "posting"
  /\ Fail(r)
  /\ Outlives(r)
  /\ UNCHANGED <<delivered, logged>>

(* persistBatch() of a POST that was given up commits after all.            *)
LateStores(p) ==
  /\ late[p] # <<>>
  /\ delivered' = delivered \cup Elements(late[p])
  /\ late' = [late EXCEPT ![p] = <<>>]
  /\ UNCHANGED <<exporterVars, accepted, forgotten, logged, failures>>

(* It rolls back or is cut off; there is nobody to hear of it.              *)
LateFails(p) ==
  /\ late[p] # <<>>
  /\ late' = [late EXCEPT ![p] = <<>>]
  /\ UNCHANGED <<exporterVars, accepted, forgotten, delivered, logged, failures>>

(* Slip: the back-off is not reset.                                         *)
ResponseOkKeepsBackoff(r) ==
  /\ pc[r] = "stored"
  /\ pc' = [pc EXCEPT ![r] = "logging"]
  /\ failures' = 0
  /\ UNCHANGED <<enabled, queue, flushing, timer, backoffMs, batch,
                 accepted, forgotten, late, delivered, logged>>

(* A 2xx status arrives: the back-off is reset and the INSERT is sent.      *)
ResponseOk(r) ==
  /\ pc[r] = "stored"
  /\ pc' = [pc EXCEPT ![r] = "logging"]
  /\ backoffMs' = FlushInterval
  /\ failures' = 0
  /\ UNCHANGED <<enabled, queue, flushing, timer, batch,
                 accepted, forgotten, late, delivered, logged>>

(* The connection breaks before the answer arrives, or persistBatch() has   *)
(* committed and the handler fails after it: the same catch block runs.     *)
ResponseLost(r) ==
  /\ pc[r] = "stored"
  /\ Fail(r)
  /\ UNCHANGED <<late, delivered, logged>>

(* recordExport() resolves; the run ends with nothing to put back.          *)
LogOk(r) ==
  /\ pc[r] = "logging"
  /\ logged' = logged \cup Elements(batch[r])
  /\ batch' = [batch EXCEPT ![r] = <<>>]
  /\ Finish(r)
  /\ UNCHANGED <<enabled, queue, backoffMs, accepted, forgotten, late, delivered,
                 failures>>

(* recordExport() rejects, whether or not Postgres committed the row: the   *)
(* same catch block takes back a batch that has already been exported.      *)
LogFails(r) ==
  /\ pc[r] = "logging"
  /\ Fail(r)
  /\ \/ logged' = logged
     \/ logged' = logged \cup Elements(batch[r])
  /\ UNCHANGED <<late, delivered>>

(* The sleep in the catch block ends.                                       *)
Wakes(r) ==
  /\ pc[r] = "sleeping"
  /\ Finish(r)
  /\ UNCHANGED <<enabled, queue, backoffMs, batch, outsideVars>>

(* The process stops, by a crash or by SIGTERM (app.close() and then        *)
(* process.exit(0) without a last flush), and starts again, maybe with      *)
(* another EXPORT_ENABLED.  Whatever was in memory is gone; the overseas    *)
(* API does not stop, and a POST on the wire may outlive its caller, as may *)
(* the INSERT of recordExport().                                            *)
Restart ==
  /\ enabled' \in BOOLEAN
  /\ queue' = <<>>
  /\ flushing' = FALSE
  /\ timer' = NoTimer
  /\ backoffMs' = FlushInterval
  /\ pc' = [r \in Runs |-> "idle"]
  /\ batch' = [r \in Runs |-> <<>>]
  /\ failures' = 0
  /\ forgotten' = accepted
  /\ \/ UNCHANGED late
     \/ \E r \in Runs : pc[r] = "posting" /\ Outlives(r)
  /\ \/ UNCHANGED logged
     \/ \E r \in Runs : pc[r] = "logging" /\ logged' = logged \cup Elements(batch[r])
  /\ UNCHANGED <<accepted, delivered>>

RunStep(r) ==
  \/ SignOk(r) \/ SignFails(r)
  \/ ServerStores(r) \/ PostRefused(r) \/ PostBreaks(r)
  \/ ResponseOk(r) \/ ResponseLost(r)
  \/ LogOk(r) \/ LogFails(r)
  \/ Wakes(r)

Next ==
  \/ Enqueue \/ TimerFires \/ Restart
  \/ \E r \in Runs : RunStep(r)
  \/ \E p \in Posts : LateStores(p) \/ LateFails(p)

(* Timers fire and awaits settle (weak fairness); signing, the overseas API *)
(* and Postgres are not down for ever, so an attempt repeated for ever      *)
(* succeeds in the end (strong fairness) - in whichever run, as there is    *)
(* one at a time.  Nobody has to send readings, nothing has to restart, and *)
(* a POST that was given up may stay undecided.                             *)
Fairness ==
  /\ WF_vars(TimerFires)
  /\ WF_vars(\E r \in Runs : RunStep(r))
  /\ SF_vars(\E r \in Runs : SignOk(r))
  /\ SF_vars(\E r \in Runs : ServerStores(r))
  /\ SF_vars(\E r \in Runs : ResponseOk(r))
  /\ SF_vars(\E r \in Runs : LogOk(r))

Spec == Init /\ [][Next]_vars

FairSpec == Spec /\ Fairness

-----------------------------------------------------------------------------
TypeOK ==
  /\ enabled \in BOOLEAN
  /\ queue \in Seq(Nat)
  /\ flushing \in BOOLEAN
  /\ timer \in {NoTimer} \cup FlushInterval..MaxBackoff
  /\ backoffMs \in FlushInterval..MaxBackoff
  /\ pc \in [Runs -> RunStates]
  /\ batch \in [Runs -> Seq(Nat)]
  /\ \A r \in Runs : Len(batch[r]) <= BatchSize
  /\ accepted \in 0..MaxRecords
  /\ forgotten \in 0..accepted
  /\ late \in [Posts -> Seq(Nat)]
  /\ delivered \subseteq 1..accepted
  /\ logged \subseteq 1..accepted
  /\ failures \in 0..MaxFailures

(* At most one flush() is past its guard, and this.flushing says whether    *)
(* one is: however timer, enqueue() and the sleeps interleave, the exporter *)
(* never waits for two batches at a time (exporter.ts:50-53, 89).           *)
SingleFlight ==
  /\ flushing <=> \E r \in Runs : pc[r] # "idle"
  /\ \A r, s \in Runs : pc[r] # "idle" /\ pc[s] # "idle" => r = s

(* The batch in flight followed by the queue is the latest records, each    *)
(* once and in the order of their enqueue(): a failed batch is put back in  *)
(* front of everything that arrived while it was away (exporter.ts:84).     *)
FifoOrder ==
  \A r \in Runs :
    LET pending == batch[r] \o queue
    IN  \A i \in 1..Len(pending) : pending[i] = accepted - Len(pending) + i

(* A record leaves the exporter's memory only when the export log has it,   *)
(* or the process has stopped or was started with the exporter disabled:    *)
(* no interleaving of failures drops a record that was answered with 202.   *)
NoRecordDropped ==
  \A n \in (forgotten + 1)..accepted :
    \/ n \in Elements(queue)
    \/ \E r \in Runs : n \in Elements(batch[r])
    \/ n \in logged

(* The export log never claims a record the overseas API does not hold      *)
(* (recordExport() runs only after a 2xx, exporter.ts:74-77).               *)
LogNeverAhead == logged \subseteq delivered

(* Whenever records wait, something is going to call flush(): a timer is    *)
(* armed or a run is in flight, whose finally block arms one.  No order of  *)
(* the size trigger, the timer and the back-off strands the queue.          *)
NoStranding == enabled /\ queue # <<>> => flushing \/ timer # NoTimer

(* The back-off is FlushInterval doubled once per failure since the last    *)
(* accepted batch, capped; a failure of export_log counts as one            *)
(* (exporter.ts:76, 86).                                                    *)
BackoffMatchesFailures == backoffMs = Lesser(Doubled[failures], MaxBackoff)

(* The blocks of records the overseas API may be about to store.            *)
PostsUnderway ==
  {Elements(batch[r]) : r \in {r \in Runs : pc[r] = "posting"}}
    \cup {Elements(late[p]) : p \in {p \in Posts : late[p] # <<>>}}

(* The exporter is an ordered at-least-once feed: what it puts on the wire  *)
(* is always a block of consecutive records with nothing missing before it  *)
(* overseas, and nothing else ever arrives.  Retries, lost answers and lost *)
(* log rows duplicate blocks, and a POST that was given up arrives late or  *)
(* after a restart, but no newer record is sent past an older one that is   *)
(* still held, and no arrival tears a hole in the feed.                     *)
Feed == INSTANCE OrderedFeed WITH sent <- PostsUnderway

ImplementsFeed == Feed!FeedSpec

(* Every accepted record is stored overseas in the end, unless the process  *)
(* lets go of it by stopping.                                               *)
EveryRecordDelivered ==
  \A n \in 1..MaxRecords :
    accepted >= n ~> n \in delivered \/ n <= forgotten
=============================================================================
