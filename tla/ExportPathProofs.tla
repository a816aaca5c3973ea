-------------------------- MODULE ExportPathProofs --------------------------
(***************************************************************************)
(* The export path, exporter and overseas tables together, for every batch *)
(* size, queue and schedule of losses: the latest state of a device is the *)
(* newest of its readings that arrived, unless a POST that had been given  *)
(* up wrote it last, and the telemetry table keeps the first version of a  *)
(* reading it was ever given - although a batch whose answer was lost is   *)
(* delivered again, longer and as a whole, and perhaps once more later.    *)
(*                                                                         *)
(* What makes both true is that deliveries leave no hole. A batch that is  *)
(* sent again starts at the same record and is at least as long as it was  *)
(* the first time, so everything delivered or still to be delivered by a   *)
(* POST that was given up lies before the end of the batch now in flight   *)
(* (SentAgainAsLong); between the records a restart forgot and a delivered *)
(* one all are delivered (NoHoles); and a batch is ingested in the order   *)
(* of its records.                                                         *)
(***************************************************************************)
EXTENDS ExportPath, BatchExporterProofs

(* What the overseas API has stored or may still store for a POST that was  *)
(* given up.                                                                *)
Reached == delivered \cup UNION {Elements(late[p]) : p \in Posts}

(* It lies before the end of the batch in flight; between two batches,      *)
(* before the end of the one that will be taken next.                       *)
SentAgainAsLong ==
  /\ \A r \in Runs : batch[r] # <<>> =>
       \A n \in Reached : n <= accepted - Len(queue)
  /\ (\A r \in Runs : batch[r] = <<>>) =>
       \A n \in Reached : n <= accepted - Len(queue) + TakeCount(queue)

(* Between the forgotten records and a delivered one there is no hole.      *)
NoHoles ==
  \A n \in delivered : (forgotten + 1)..n \subseteq delivered

(* The two tables map keys and devices to records of the feed.                *)
TablesTypeOK ==
  /\ telemetry \in [Keys -> {NoRecord} \cup Records]
  /\ latestState \in [Devices -> {NoRecord} \cup Records]

(* The inductive invariant: that of the exporter, with what is said of        *)
(* deliveries and tables.                                                     *)
PathInv ==
  /\ IInv
  /\ SentAgainAsLong
  /\ NoHoles
  /\ TablesTypeOK
  /\ NewestUnlessLate
  /\ HistoryKeepsFirst

-----------------------------------------------------------------------------
(* A batch is a part of the queue and within the batch size.                  *)
LEMMA TakeCountFacts ==
  ASSUME NEW q \in Seq(Nat)
  PROVE  /\ TakeCount(q) \in Nat
         /\ TakeCount(q) <= Len(q) /\ TakeCount(q) <= BatchSize
         /\ TakeCount(q) = Len(q) \/ TakeCount(q) = BatchSize
  BY ExporterConstants DEF TakeCount, Lesser

(* Forgetting the tables, the path behaves as the exporter alone.             *)
LEMMA PathIsExporter == PathSpec => Spec
  <1>1. PathInit => Init  BY DEF PathInit
  <1>2. [PathNext]_pathVars => [Next]_vars
    BY DEF PathNext, StoreBatch, StoreLate, GatewayStep, Next, RunStep,
           pathVars, vars
  <1>. QED  BY <1>1, <1>2, PTL DEF PathSpec, Spec

-----------------------------------------------------------------------------
(* The records in flight and in the queue are consecutive: the position of a  *)
(* record of the batch is its number.                                         *)
LEMMA BatchPositions ==
  ASSUME IInv, NEW r \in Runs
  PROVE  LET b == batch[r]
             c == accepted - Len(queue) - Len(b)
         IN  /\ b \in Seq(Nat) /\ c \in Nat /\ forgotten <= c
             /\ c + Len(b) = accepted - Len(queue)
             /\ \A i \in 1..Len(b) : b[i] = c + i /\ b[i] \in Records
  <1>. DEFINE b == batch[r]
              c == accepted - Len(queue) - Len(b)
  <1>1. /\ b \in Seq(Nat) /\ accepted \in Nat /\ forgotten \in Nat
        /\ accepted <= MaxRecords /\ MaxRecords \in Nat /\ Len(queue) \in Nat
    BY ExporterConstants DEF IInv, TypeOK
  <1>2. Len(b) + Len(queue) <= accepted - forgotten
    BY DEF IInv, PendingIsRecent
  <1>3. \A i \in 1..Len(b) : b[i] = c + i
    BY DEF IInv, BatchInOrder
  <1>. HIDE DEF b
  <1>4. Len(b) \in Nat  BY <1>1
  <1>5. c \in Nat /\ forgotten <= c /\ c + Len(b) = accepted - Len(queue)
    BY <1>1, <1>2, <1>4
  <1>6. \A i \in 1..Len(b) : c + i \in Records
    BY <1>1, <1>4, <1>5 DEF Records
  <1>. QED  BY <1>1, <1>3, <1>5, <1>6 DEF b

(* They come before those of the queue.                                       *)
LEMMA BatchBeforeQueue ==
  ASSUME IInv, NEW r \in Runs
  PROVE  \A n \in Elements(batch[r]) : n <= accepted - Len(queue)
  <1>1. /\ batch[r] \in Seq(Nat)
        /\ \A i \in 1..Len(batch[r]) :
             batch[r][i] = accepted - Len(queue) - Len(batch[r]) + i
    BY BatchPositions
  <1>2. Len(batch[r]) \in Nat /\ Len(queue) \in Nat /\ accepted \in Nat
    BY IInvTypes
  <1>3. \A i \in 1..Len(batch[r]) :
          accepted - Len(queue) - Len(batch[r]) + i <= accepted - Len(queue)
    BY <1>2
  <1>. QED  BY <1>1, <1>3 DEF Elements

(* The block of a POST that was given up: consecutive records, and what is    *)
(* not forgotten before it has been delivered.                                *)
LEMMA LatePositions ==
  ASSUME IInv, NEW p \in Posts, late[p] # <<>>
  PROVE  LET b == late[p]
             c == b[1] - 1
         IN  /\ b \in Seq(Nat) /\ Len(b) \in Nat /\ c \in Nat
             /\ \A i \in 1..Len(b) : b[i] = c + i /\ b[i] \in Records
             /\ \A i \in 1..Len(b) : b[i] <= accepted
             /\ (forgotten + 1)..c \subseteq delivered
  <1>. DEFINE b == late[p]
  <1>1. b \in Seq(Nat) /\ Len(b) \in Nat
    BY DEF IInv, LateOK
  <1>2. /\ \A i \in 1..Len(b) : b[i] = b[1] + i - 1 /\ b[i] \in 1..accepted
        /\ (forgotten + 1)..(b[1] - 1) \subseteq delivered
    BY DEF IInv, LateOK, LateBlock
  <1>3. accepted \in Nat /\ accepted <= MaxRecords /\ MaxRecords \in Nat
    BY ExporterConstants DEF IInv, TypeOK
  <1>4. b # <<>>  OBVIOUS
  <1>. HIDE DEF b
  <1>5. 1 \in 1..Len(b)  BY <1>1, <1>4, EmptyHasLengthZero
  <1>6. b[1] \in 1..accepted  BY <1>2, <1>5
  <1>7. b[1] - 1 \in Nat  BY <1>3, <1>6
  <1>8. \A i \in 1..Len(b) : /\ b[i] = (b[1] - 1) + i
                             /\ b[i] \in Records /\ b[i] <= accepted
    BY <1>2, <1>3, <1>6 DEF Records
  <1>. QED  BY <1>1, <1>2, <1>7, <1>8 DEF b

LEMMA ReachedIsAccepted ==
  ASSUME IInv
  PROVE  Reached \subseteq Nat /\ \A n \in Reached : n <= accepted
  <1>1. delivered \subseteq Nat /\ \A n \in delivered : n <= accepted
    BY ExporterConstants DEF IInv, TypeOK
  <1>2. ASSUME NEW p \in Posts, NEW n \in Elements(late[p])
        PROVE  n \in Nat /\ n <= accepted
    <2>1. PICK i \in 1..Len(late[p]) : n = late[p][i]
      BY <1>2 DEF Elements
    <2>2. late[p] # <<>>  BY <2>1
    <2>. QED  BY <2>1, <2>2, LatePositions, ExporterConstants DEF Records
  <1>. QED  BY <1>1, <1>2 DEF Reached

(* A flush takes the records that were sent before first, and no fewer of     *)
(* them.                                                                      *)
LEMMA FlushKeepsSent ==
  ASSUME IInv, NEW q \in Seq(Nat), Flush(q), Reached' = Reached,
         Reached \subseteq Nat, accepted' \in Nat,
         \A r \in Runs : batch[r] # <<>> =>
           \A n \in Reached : n <= accepted' - Len(q),
         (\A r \in Runs : batch[r] = <<>>) =>
           \A n \in Reached : n <= accepted' - Len(q) + TakeCount(q)
  PROVE  SentAgainAsLong'
  <1>1. CASE queue' = q /\ UNCHANGED batch
    BY <1>1 DEF SentAgainAsLong, TakeCount
  <1>2. CASE ~flushing /\ queue' = SubSeq(q, TakeCount(q) + 1, Len(q))
    <2>1. \A r \in Runs : batch[r] = <<>>
      BY <1>2 DEF IInv, SingleFlight, BatchHeld
    <2>2. \A n \in Reached : n <= accepted' - Len(q) + TakeCount(q)
      BY <2>1
    <2>3. TakeCount(q) \in Nat /\ TakeCount(q) <= Len(q) /\ Len(q) \in Nat
      BY TakeCountFacts
    <2>4. /\ queue' \in Seq(Nat)
          /\ Len(queue') = Len(q) - TakeCount(q)
      BY <1>2, <2>3, SplitIsPointwise
    <2>5. TakeCount(queue') \in Nat  BY <2>4, TakeCountFacts
    <2>6. \A n \in Reached' :
            /\ n <= accepted' - Len(queue')
            /\ n <= accepted' - Len(queue') + TakeCount(queue')
      BY <2>2, <2>3, <2>4, <2>5
    <2>7. TakeCount(queue)' = TakeCount(queue')  BY DEF TakeCount
    <2>. QED  BY <2>6, <2>7 DEF SentAgainAsLong
  <1>. QED  BY <1>1, <1>2 DEF Flush

(* A failed batch goes back to the front of the queue as a whole, so that the *)
(* next one is as long - also when its POST was given up on the wire.         *)
LEMMA FailKeepsSent ==
  ASSUME IInv, SentAgainAsLong,
         NEW r \in Runs, pc[r] \notin {"idle", "sleeping"},
         Fail(r), Reached' \subseteq Reached \cup Elements(batch[r])
  PROVE  SentAgainAsLong'
  <1>1. /\ batch[r] \in Seq(Nat) /\ queue \in Seq(Nat)
        /\ Len(batch[r]) <= BatchSize
        /\ accepted \in Nat /\ Reached \subseteq Nat /\ BatchSize \in Nat
    BY ExporterConstants, ReachedIsAccepted DEF IInv, TypeOK
  <1>2. batch[r] # <<>>  BY DEF IInv, BatchHeld
  <1>3. \A n \in Reached' : n \in Nat /\ n <= accepted - Len(queue)
    <2>1. Elements(batch[r]) \subseteq Nat  BY <1>1 DEF Elements
    <2>. QED  BY <1>1, <1>2, <2>1, BatchBeforeQueue DEF SentAgainAsLong
  <1>4. /\ queue' = batch[r] \o queue /\ accepted' = accepted
        /\ batch' = [batch EXCEPT ![r] = <<>>]
    BY DEF Fail
  <1>5. queue' \in Seq(Nat) /\ Len(queue') = Len(batch[r]) + Len(queue)
    BY <1>1, <1>4, ConcatIsPointwise
  <1>6. \A s \in Runs : batch'[s] = <<>>
    BY <1>4, OthersAreIdle DEF IInv, BatchHeld, SingleFlight, TypeOK
  <1>7. Len(batch[r]) <= TakeCount(queue') /\ TakeCount(queue') \in Nat
    BY <1>1, <1>5, TakeCountFacts
  <1>8. \A n \in Reached' : n <= accepted - Len(queue') + TakeCount(queue')
    BY <1>1, <1>3, <1>5, <1>7
  <1>9. TakeCount(queue)' = TakeCount(queue')  BY DEF TakeCount
  <1>. QED  BY <1>4, <1>6, <1>8, <1>9 DEF SentAgainAsLong

(* Giving a POST up adds the batch of its run to what may still be stored.    *)
LEMMA OutlivingReaches ==
  ASSUME IInv, UNCHANGED delivered,
         \/ UNCHANGED late
         \/ \E r \in Runs : pc[r] = "posting" /\ Outlives(r)
  PROVE  \A n \in Reached' :
           n \in Reached \/ \E r \in Runs : pc[r] = "posting" /\ n \in Elements(batch[r])
  <1>1. CASE UNCHANGED late  BY <1>1 DEF Reached, Elements
  <1>2. ASSUME NEW r \in Runs, pc[r] = "posting", Outlives(r)
        PROVE  Reached' \subseteq Reached \cup Elements(batch[r])
    <2>1. PICK p \in Posts : late' = [late EXCEPT ![p] = batch[r]]
      BY <1>2 DEF Outlives
    <2>2. \A o \in Posts : late'[o] = late[o] \/ late'[o] = batch[r]
      BY <2>1 DEF IInv, LateOK
    <2>. QED  BY <2>2 DEF Reached, Elements
  <1>. QED  BY <1>1, <1>2

(* Every step of the path keeps the statement about what was sent and the     *)
(* batch in flight.                                                           *)
LEMMA SentAgainAsLongStays ==
  ASSUME IInv, SentAgainAsLong, [Next]_vars
  PROVE  SentAgainAsLong'
  <1>t. /\ queue \in Seq(Nat) /\ Len(queue) \in Nat /\ accepted \in Nat
        /\ Reached \subseteq Nat /\ \A n \in Reached : n <= accepted
        /\ TakeCount(queue) \in Nat
    BY ExporterConstants, TakeCountFacts, ReachedIsAccepted DEF IInv, TypeOK
  <1>s. ASSUME UNCHANGED <<late, delivered>>  PROVE Reached' = Reached
    BY <1>s DEF Reached, Elements
  <1>1. CASE UNCHANGED <<queue, batch, accepted>> /\ Reached' \subseteq Reached
    BY <1>1 DEF SentAgainAsLong, TakeCount
  <1>2. CASE Enqueue
    <2>0. /\ accepted' = accepted + 1 /\ Reached' = Reached
          /\ accepted + 1 \in Nat
      BY <1>t, <1>s, <1>2 DEF Enqueue
    <2>1. CASE UNCHANGED <<queue, batch>>
      <3>1. TakeCount(queue)' = TakeCount(queue)  BY <2>1 DEF TakeCount
      <3>. QED  BY <2>0, <2>1, <3>1, <1>t DEF SentAgainAsLong
    <2>. DEFINE q == Append(queue, accepted + 1)
    <2>2. q \in Seq(Nat) /\ Len(q) = Len(queue) + 1
      BY <1>t, <2>0, AppendIsPointwise
    <2>3. TakeCount(queue) <= TakeCount(q) /\ TakeCount(q) \in Nat
      BY <1>t, <2>2, ExporterConstants DEF TakeCount, Lesser
    <2>. HIDE DEF q
    <2>4. /\ \A r \in Runs : batch[r] # <<>> =>
               \A n \in Reached : n <= accepted' - Len(q)
          /\ (\A r \in Runs : batch[r] = <<>>) =>
               \A n \in Reached : n <= accepted' - Len(q) + TakeCount(q)
      BY <1>t, <2>0, <2>2, <2>3 DEF SentAgainAsLong
    <2>5. CASE Flush(q)
      BY <1>t, <2>0, <2>2, <2>4, <2>5, FlushKeepsSent
    <2>6. CASE queue' = q /\ UNCHANGED batch
      <3>1. TakeCount(queue)' = TakeCount(q)  BY <2>6 DEF TakeCount
      <3>. QED  BY <2>0, <2>4, <2>6, <3>1 DEF SentAgainAsLong
    <2>. QED  BY <2>1, <2>5, <2>6, <1>2 DEF Enqueue, q
  <1>3. CASE TimerFires
    <2>1. Reached' = Reached /\ accepted' = accepted /\ Flush(queue)
      BY <1>3, <1>s DEF TimerFires, outsideVars
    <2>. QED  BY <1>t, <2>1, FlushKeepsSent DEF SentAgainAsLong
  <1>4. CASE Restart
    <2>1. /\ queue' = <<>> /\ accepted' = accepted /\ delivered' = delivered
          /\ \A r \in Runs : batch'[r] = <<>>
      BY <1>4 DEF Restart
    <2>2. Len(queue') = 0 /\ TakeCount(queue)' = 0
      BY <2>1, ExporterConstants DEF TakeCount, Lesser
    <2>3. \A n \in Reached' : n <= accepted
      <3>1. \A n \in Reached' :
              n \in Reached
                \/ \E r \in Runs : pc[r] = "posting" /\ n \in Elements(batch[r])
        BY <1>4, OutlivingReaches DEF Restart
      <3>2. \A r \in Runs : \A n \in Elements(batch[r]) : n <= accepted
        BY <1>t, BatchHoldsAccepted DEF IInv, TypeOK
      <3>. QED  BY <1>t, <3>1, <3>2
    <2>. QED  BY <1>t, <2>1, <2>2, <2>3 DEF SentAgainAsLong
  <1>5. ASSUME NEW r \in Runs,
               \/ SignFails(r) \/ PostRefused(r) \/ PostBreaks(r)
               \/ ResponseLost(r) \/ LogFails(r)
        PROVE  SentAgainAsLong'
    <2>1. pc[r] \notin {"idle", "sleeping"} /\ Fail(r) /\ UNCHANGED delivered
      BY <1>5 DEF SignFails, PostRefused, PostBreaks, ResponseLost, LogFails
    <2>2. UNCHANGED late \/ (pc[r] = "posting" /\ Outlives(r))
      BY <1>5 DEF SignFails, PostRefused, PostBreaks, ResponseLost, LogFails
    <2>3. \A s \in Runs : pc[s] = "posting" => s = r
      BY <2>1 DEF IInv, SingleFlight
    <2>4. Reached' \subseteq Reached \cup Elements(batch[r])
      BY <2>1, <2>2, <2>3, OutlivingReaches
    <2>. QED  BY <2>1, <2>4, FailKeepsSent
  <1>6. ASSUME NEW r \in Runs, ServerStores(r)  PROVE SentAgainAsLong'
    <2>1. /\ pc[r] = "posting" /\ UNCHANGED <<queue, batch, accepted, late>>
          /\ delivered' = delivered \cup Elements(batch[r])
      BY <1>6 DEF ServerStores
    <2>2. batch[r] # <<>>  BY <2>1 DEF IInv, BatchHeld
    <2>3. Reached' = Reached \cup Elements(batch[r])
      BY <2>1 DEF Reached, Elements
    <2>4. \A n \in Reached' : n <= accepted - Len(queue)
      BY <2>2, <2>3, BatchBeforeQueue DEF SentAgainAsLong
    <2>. QED  BY <2>1, <2>2, <2>4 DEF SentAgainAsLong
  <1>7. ASSUME NEW r \in Runs, LogOk(r)  PROVE SentAgainAsLong'
    <2>1. /\ pc[r] = "logging" /\ UNCHANGED <<queue, accepted>> /\ Reached' = Reached
      BY <1>7, <1>s DEF LogOk
    <2>2. \A n \in Reached : n <= accepted - Len(queue)
      BY <2>1 DEF IInv, BatchHeld, SentAgainAsLong
    <2>3. TakeCount(queue)' = TakeCount(queue)  BY <2>1 DEF TakeCount
    <2>4. \A n \in Reached : n <= accepted - Len(queue) + TakeCount(queue)
      BY <1>t, <2>2
    <2>. QED  BY <2>1, <2>2, <2>3, <2>4 DEF SentAgainAsLong
  <1>8. ASSUME NEW r \in Runs, SignOk(r) \/ ResponseOk(r) \/ Wakes(r)
        PROVE  SentAgainAsLong'
    <2>1. UNCHANGED <<queue, batch, accepted, late, delivered>>
      BY <1>8 DEF SignOk, ResponseOk, Wakes, Finish, outsideVars
    <2>. QED  BY <1>1, <1>s, <2>1
  <1>9. ASSUME NEW p \in Posts, LateStores(p) \/ LateFails(p)
        PROVE  SentAgainAsLong'
    <2>1. /\ UNCHANGED <<queue, batch, accepted>>
          /\ late' = [late EXCEPT ![p] = <<>>]
          /\ delivered' \in {delivered, delivered \cup Elements(late[p])}
      BY <1>9 DEF LateStores, LateFails, exporterVars
    <2>2. \A o \in Posts : late'[o] = late[o] \/ late'[o] = <<>>
      BY <2>1 DEF IInv, LateOK
    <2>3. Reached' \subseteq Reached
      BY <2>1, <2>2 DEF Reached, Elements
    <2>. QED  BY <1>1, <2>1, <2>3
  <1>10. CASE UNCHANGED vars
    BY <1>1, <1>s, <1>10 DEF vars
  <1>. QED
    BY <1>2, <1>3, <1>4, <1>5, <1>6, <1>7, <1>8, <1>9, <1>10 DEF Next, RunStep

(* A delivery adds a range that joins those before it; a restart forgets a    *)
(* prefix.                                                                    *)
LEMMA NoHolesStays ==
  ASSUME IInv, NoHoles, [Next]_vars
  PROVE  NoHoles'
  <1>t. /\ forgotten \in Nat /\ accepted \in Nat /\ forgotten <= accepted
        /\ delivered \subseteq Nat /\ \A n \in delivered : n <= accepted
    BY ExporterConstants DEF IInv, TypeOK
  <1>1. CASE /\ UNCHANGED delivered
             /\ forgotten' \in {forgotten, accepted, accepted + 1}
    <2>. SUFFICES ASSUME NEW n \in delivered, NEW m \in (forgotten' + 1)..n
                  PROVE  m \in delivered
      BY <1>1 DEF NoHoles
    <2>0. n \in Nat /\ n <= accepted  BY <1>t
    <2>1. m \in (forgotten + 1)..n
      <3>1. CASE forgotten' = forgotten  BY <3>1
      <3>2. CASE forgotten' = accepted  BY <1>t, <2>0, <3>2
      <3>3. CASE forgotten' = accepted + 1  BY <1>t, <2>0, <3>3
      <3>. QED  BY <1>1, <3>1, <3>2, <3>3
    <2>. QED  BY <2>1 DEF NoHoles
  <1>2. ASSUME NEW b \in Seq(Nat), NEW c \in Nat,
               \A i \in 1..Len(b) : b[i] = c + i,
               (forgotten + 1)..c \subseteq delivered,
               forgotten' = forgotten, delivered' = delivered \cup Elements(b)
        PROVE  NoHoles'
    <2>. SUFFICES ASSUME NEW n \in delivered', NEW m \in (forgotten + 1)..n
                  PROVE  m \in delivered'
      BY <1>2 DEF NoHoles
    <2>4. CASE n \in delivered  BY <1>2, <2>4 DEF NoHoles
    <2>5. CASE n \in Elements(b)
      <3>1. PICK i \in 1..Len(b) : n = c + i  BY <1>2, <2>5 DEF Elements
      <3>2. Len(b) \in Nat  OBVIOUS
      <3>3. CASE m <= c
        BY <1>2, <3>3, <1>t
      <3>4. CASE ~(m <= c)
        <4>1. m - c \in 1..Len(b) /\ m = c + (m - c)
          BY <3>1, <3>2, <3>4, <1>t
        <4>2. b[m - c] = m  BY <1>2, <4>1
        <4>. QED  BY <1>2, <4>1, <4>2 DEF Elements
      <3>. QED  BY <3>3, <3>4
    <2>. QED  BY <1>2, <2>4, <2>5
  <1>3. ASSUME NEW r \in Runs, ServerStores(r)  PROVE NoHoles'
    <2>. DEFINE b == batch[r]
                c == accepted - Len(queue) - Len(b)
    <2>1. /\ pc[r] = "posting" /\ forgotten' = forgotten
          /\ delivered' = delivered \cup Elements(b)
      BY <1>3 DEF ServerStores
    <2>2. /\ b \in Seq(Nat) /\ c \in Nat /\ \A i \in 1..Len(b) : b[i] = c + i
      BY BatchPositions
    <2>3. (forgotten + 1)..c \subseteq delivered
      BY <2>1 DEF IInv, PrefixLogged, LogNeverAhead
    <2>. HIDE DEF b, c
    <2>. QED  BY <1>2, <2>1, <2>2, <2>3
  <1>4. ASSUME NEW p \in Posts, LateStores(p)  PROVE NoHoles'
    <2>. DEFINE b == late[p]
                c == b[1] - 1
    <2>1. /\ b # <<>> /\ forgotten' = forgotten
          /\ delivered' = delivered \cup Elements(b)
      BY <1>4 DEF LateStores
    <2>2. /\ b \in Seq(Nat) /\ c \in Nat /\ \A i \in 1..Len(b) : b[i] = c + i
          /\ (forgotten + 1)..c \subseteq delivered
      BY <2>1, LatePositions
    <2>. HIDE DEF b, c
    <2>. QED  BY <1>2, <2>1, <2>2
  <1>5. ASSUME NEW r \in Runs, RunStep(r), ~ServerStores(r)
        PROVE  UNCHANGED <<delivered, forgotten>>
    BY <1>5 DEF RunStep, SignOk, SignFails, PostRefused, PostBreaks, ResponseOk,
                ResponseLost, LogOk, LogFails, Wakes, Fail, Finish, outsideVars
  <1>6. ASSUME NEW p \in Posts, LateFails(p)
        PROVE  UNCHANGED <<delivered, forgotten>>
    BY <1>6 DEF LateFails
  <1>7. CASE Enqueue \/ TimerFires \/ Restart \/ UNCHANGED vars
    <2>1. /\ UNCHANGED delivered
          /\ forgotten' \in {forgotten, accepted, accepted + 1}
      BY <1>7 DEF Enqueue, TimerFires, Restart, outsideVars, vars
    <2>. QED  BY <2>1, <1>1
  <1>. QED  BY <1>1, <1>3, <1>4, <1>5, <1>6, <1>7 DEF Next

-----------------------------------------------------------------------------
(* persistBatch() on a block of consecutive records: the row of a device is   *)
(* then that of its last record, which is the newest that arrived unless      *)
(* something behind the block has been stored before.                         *)
LEMMA PersistingKeepsLatest ==
  ASSUME PathInv, NEW b \in Seq(Nat), NEW c \in Nat, Persist(b),
         \A i \in 1..Len(b) : b[i] = c + i /\ b[i] \in Records,
         delivered' = delivered \cup Elements(b),
         \A d \in Devices : d \notin lateRows' =>
           \/ d \notin lateRows
           \/ d \in DevicesOf(b),
         \A d \in DevicesOf(b) : d \notin lateRows' =>
           \A n \in delivered : n <= c + Len(b)
  PROVE  /\ latestState' \in [Devices -> {NoRecord} \cup Records]
         /\ NewestUnlessLate'
  <1>. DEFINE ofDevice(d) == {i \in 1..Len(b) : Device[b[i]] = d}
  <1>1. Len(b) \in Nat /\ latestState' = LatestAfter(latestState, b)
    BY DEF Persist
  <1>2. \A n \in delivered : n \in Nat
    BY DEF PathInv, IInv, TypeOK
  <1>3. \A i \in 1..Len(b) : b[i] \in delivered'
    BY DEF Elements
  <1>4. ASSUME NEW d \in Devices
        PROVE  /\ latestState'[d] \in {NoRecord} \cup Records
               /\ LET arrived == {n \in delivered' : Device[n] = d}
                  IN  IF arrived = {} THEN latestState'[d] = NoRecord
                      ELSE /\ latestState'[d] \in arrived
                           /\ d \notin lateRows' =>
                                \A n \in arrived : n <= latestState'[d]
    <2>. DEFINE old == {n \in delivered : Device[n] = d}
                arrived == {n \in delivered' : Device[n] = d}
    <2>1. /\ latestState[d] \in {NoRecord} \cup Records
          /\ IF old = {} THEN latestState[d] = NoRecord
             ELSE /\ latestState[d] \in old
                  /\ d \notin lateRows => \A n \in old : n <= latestState[d]
      BY DEF PathInv, TablesTypeOK, NewestUnlessLate
    <2>2. arrived = old \cup {b[i] : i \in ofDevice(d)}
      BY DEF Elements
    <2>3. CASE ofDevice(d) = {}
      <3>1. latestState'[d] = latestState[d]  BY <1>1, <2>3 DEF LatestAfter
      <3>2. arrived = old  BY <2>2, <2>3
      <3>3. d \notin DevicesOf(b)  BY <2>3 DEF DevicesOf, Elements
      <3>. QED  BY <2>1, <3>1, <3>2, <3>3
    <2>4. CASE ofDevice(d) # {}
      <3>1. PICK i \in ofDevice(d) : /\ \A j \in ofDevice(d) : j <= i
                                     /\ latestState'[d] = b[i]
        <4>1. \E i \in ofDevice(d) : \A j \in ofDevice(d) : j <= i
          BY <1>1, <2>4, LargestExists
        <4>2. latestState'[d] =
                b[CHOOSE i \in ofDevice(d) : \A j \in ofDevice(d) : j <= i]
          BY <1>1, <2>4 DEF LatestAfter
        <4>. QED  BY <4>1, <4>2
      <3>2. b[i] \in arrived /\ b[i] \in Records  BY <1>3, <3>1
      <3>3. \A j \in ofDevice(d) : b[j] <= b[i]  BY <1>1, <3>1
      <3>4. ASSUME d \notin lateRows', NEW n \in old  PROVE n <= b[i]
        <4>1. d \in DevicesOf(b)  BY <2>4 DEF DevicesOf, Elements
        <4>2. n \in Nat /\ n <= c + Len(b)  BY <1>2, <3>4, <4>1
        <4>3. CASE n <= c  BY <1>1, <4>2, <3>1, <4>3
        <4>4. CASE ~(n <= c)
          <5>1. n - c \in 1..Len(b) /\ c + (n - c) = n  BY <1>1, <4>2, <4>4
          <5>2. b[n - c] = n  BY <5>1
          <5>3. n - c \in ofDevice(d)  BY <5>1, <5>2
          <5>. QED  BY <3>3, <5>2, <5>3
        <4>. QED  BY <4>3, <4>4
      <3>. QED  BY <2>2, <3>1, <3>2, <3>3, <3>4
    <2>. QED  BY <2>3, <2>4
  <1>5. latestState' \in [Devices -> {NoRecord} \cup Records]
    BY <1>1, <1>4 DEF LatestAfter
  <1>. QED  BY <1>4, <1>5 DEF NewestUnlessLate

(* The first record of a key stays: what a block brings of it that is older   *)
(* has been let go of by a restart.                                           *)
LEMMA PersistingKeepsHistory ==
  ASSUME PathInv, NEW b \in Seq(Nat), NEW c \in Nat, Persist(b),
         \A i \in 1..Len(b) : b[i] = c + i /\ b[i] \in Records,
         delivered' = delivered \cup Elements(b), stragglers \subseteq stragglers',
         \A i \in 1..Len(b) :
           forgotten < b[i] \/ b[i] \in delivered \/ b[i] \in stragglers'
  PROVE  /\ telemetry' \in [Keys -> {NoRecord} \cup Records]
         /\ HistoryKeepsFirst'
  <1>. DEFINE ofKey(k) == {i \in 1..Len(b) : Key(b[i]) = k}
  <1>1. Len(b) \in Nat /\ telemetry' = HistoryAfter(telemetry, b)
    BY DEF Persist
  <1>2. forgotten \in Nat /\ \A n \in delivered : n \in Nat
    BY ExporterConstants DEF PathInv, IInv, TypeOK
  <1>3. \A i \in 1..Len(b) : b[i] \in delivered'
    BY DEF Elements
  <1>4. \A n \in delivered : \A m \in Nat :
          forgotten < m /\ m <= n => m \in delivered
    BY <1>2 DEF PathInv, NoHoles
  <1>5. ASSUME NEW k \in Keys
        PROVE  /\ telemetry'[k] \in {NoRecord} \cup Records
               /\ LET arrived == {n \in delivered' : Key(n) = k}
                  IN  IF arrived = {} THEN telemetry'[k] = NoRecord
                      ELSE /\ telemetry'[k] \in arrived
                           /\ \A n \in arrived \ stragglers' : telemetry'[k] <= n
    <2>. DEFINE old == {n \in delivered : Key(n) = k}
                arrived == {n \in delivered' : Key(n) = k}
    <2>1. /\ telemetry[k] \in {NoRecord} \cup Records
          /\ IF old = {} THEN telemetry[k] = NoRecord
             ELSE /\ telemetry[k] \in old
                  /\ \A n \in old \ stragglers : telemetry[k] <= n
      BY DEF PathInv, TablesTypeOK, HistoryKeepsFirst
    <2>2. arrived = old \cup {b[i] : i \in ofKey(k)}
      BY DEF Elements
    <2>3. telemetry'[k] =
            IF telemetry[k] # NoRecord \/ ofKey(k) = {} THEN telemetry[k]
            ELSE b[CHOOSE i \in ofKey(k) : \A j \in ofKey(k) : i <= j]
      BY <1>1 DEF HistoryAfter
    <2>4. CASE ofKey(k) = {}
      <3>1. arrived = old  BY <2>2, <2>4
      <3>. QED  BY <2>1, <2>3, <2>4, <3>1
    <2>5. CASE ofKey(k) # {} /\ telemetry[k] # NoRecord
      <3>1. /\ telemetry[k] \in old
            /\ \A n \in old \ stragglers : telemetry[k] <= n
        BY <2>1, <2>5
      <3>2. ASSUME NEW i \in ofKey(k), b[i] \notin stragglers'
            PROVE  telemetry[k] <= b[i]
        <4>1. b[i] \in Nat  OBVIOUS
        <4>2. CASE b[i] \in delivered
          <5>1. b[i] \in old \ stragglers  BY <3>2, <4>2
          <5>. QED  BY <3>1, <5>1
        <4>3. CASE b[i] \notin delivered
          <5>1. telemetry[k] \in delivered /\ telemetry[k] \in Nat
            BY <1>2, <3>1
          <5>2. forgotten < b[i]  BY <3>2, <4>3
          <5>3. ~(b[i] <= telemetry[k])  BY <1>4, <4>1, <4>3, <5>1, <5>2
          <5>. QED  BY <4>1, <5>1, <5>3
        <4>. QED  BY <4>2, <4>3
      <3>3. \A n \in old \ stragglers' : telemetry[k] <= n  BY <3>1
      <3>. QED  BY <2>1, <2>2, <2>3, <2>5, <3>1, <3>2, <3>3
    <2>6. CASE ofKey(k) # {} /\ telemetry[k] = NoRecord
      <3>1. old = {}
        <4>1. \A n \in old : n # NoRecord
          BY DEF PathInv, IInv, TypeOK, NoRecord
        <4>. QED  BY <2>1, <2>6, <4>1
      <3>2. PICK i \in ofKey(k) : /\ \A j \in ofKey(k) : i <= j
                                  /\ telemetry'[k] = b[i]
        <4>1. ofKey(k) \in SUBSET Nat  OBVIOUS
        <4>2. \E i \in ofKey(k) : \A j \in ofKey(k) : i <= j
          BY <4>1, <2>6, SmallestExists
        <4>. QED  BY <2>3, <2>6, <4>2
      <3>3. \A j \in ofKey(k) : b[i] <= b[j]  BY <1>1, <3>2
      <3>4. b[i] \in arrived /\ b[i] \in Records  BY <1>3, <3>2
      <3>. QED  BY <2>2, <3>1, <3>2, <3>3, <3>4
    <2>. QED  BY <2>4, <2>5, <2>6
  <1>6. telemetry' \in [Keys -> {NoRecord} \cup Records]
    BY <1>1, <1>5 DEF HistoryAfter
  <1>. QED  BY <1>5, <1>6 DEF HistoryKeepsFirst

(* A batch stored while its run waits: nothing behind it has been stored, and *)
(* none of it has been forgotten.                                             *)
LEMMA StoringKeepsTables ==
  ASSUME PathInv, NEW r \in Runs, StoreBatch(r)
  PROVE  TablesTypeOK' /\ NewestUnlessLate' /\ HistoryKeepsFirst'
  <1>. DEFINE b == batch[r]
              c == accepted - Len(queue) - Len(b)
  <1>1. /\ pc[r] = "posting" /\ delivered' = delivered \cup Elements(b)
        /\ Persist(b) /\ lateRows' = lateRows \ DevicesOf(b)
        /\ stragglers' = stragglers
    BY DEF StoreBatch, ServerStores
  <1>2. /\ b \in Seq(Nat) /\ Len(b) \in Nat /\ c \in Nat /\ forgotten <= c
        /\ c + Len(b) = accepted - Len(queue)
        /\ \A i \in 1..Len(b) : b[i] = c + i /\ b[i] \in Records
    BY BatchPositions DEF PathInv
  <1>3. \A n \in delivered : n <= c + Len(b)
    <2>1. b # <<>>  BY <1>1 DEF PathInv, IInv, BatchHeld
    <2>2. \A n \in delivered : n <= accepted - Len(queue)
      BY <2>1 DEF PathInv, SentAgainAsLong, Reached
    <2>. QED  BY <1>2, <2>2
  <1>4. forgotten \in Nat  BY ExporterConstants DEF PathInv, IInv, TypeOK
  <1>. HIDE DEF b, c
  <1>5. \A i \in 1..Len(b) : forgotten < b[i]  BY <1>2, <1>4
  <1>6. latestState' \in [Devices -> {NoRecord} \cup Records] /\ NewestUnlessLate'
    BY <1>1, <1>2, <1>3, PersistingKeepsLatest
  <1>7. telemetry' \in [Keys -> {NoRecord} \cup Records] /\ HistoryKeepsFirst'
    BY <1>1, <1>2, <1>5, PersistingKeepsHistory
  <1>. QED  BY <1>6, <1>7 DEF TablesTypeOK

(* A batch stored late: the rows it writes are marked, and what it brings of  *)
(* forgotten records are stragglers.                                          *)
LEMMA StoringLateKeepsTables ==
  ASSUME PathInv, NEW p \in Posts, StoreLate(p)
  PROVE  TablesTypeOK' /\ NewestUnlessLate' /\ HistoryKeepsFirst'
  <1>. DEFINE b == late[p]
              c == b[1] - 1
  <1>1. /\ b # <<>> /\ delivered' = delivered \cup Elements(b)
        /\ Persist(b) /\ lateRows' = lateRows \cup DevicesOf(b)
        /\ stragglers' =
             stragglers \cup {n \in Elements(b) \ delivered : n <= forgotten}
    BY DEF StoreLate, LateStores
  <1>2. /\ b \in Seq(Nat) /\ Len(b) \in Nat /\ c \in Nat
        /\ \A i \in 1..Len(b) : b[i] = c + i /\ b[i] \in Records
    BY <1>1, LatePositions DEF PathInv
  <1>3. forgotten \in Nat  BY ExporterConstants DEF PathInv, IInv, TypeOK
  <1>. HIDE DEF b, c
  <1>4. \A i \in 1..Len(b) :
          forgotten < b[i] \/ b[i] \in delivered \/ b[i] \in stragglers'
    BY <1>1, <1>2, <1>3 DEF Elements
  <1>5. latestState' \in [Devices -> {NoRecord} \cup Records] /\ NewestUnlessLate'
    BY <1>1, <1>2, PersistingKeepsLatest
  <1>6. telemetry' \in [Keys -> {NoRecord} \cup Records] /\ HistoryKeepsFirst'
    BY <1>1, <1>2, <1>4, PersistingKeepsHistory
  <1>. QED  BY <1>5, <1>6 DEF TablesTypeOK

(* The inductive invariant holds in every state of every behaviour.           *)
THEOREM PathInvariance == PathSpec => []PathInv
  <1>1. PathInit => PathInv
    <2>. SUFFICES ASSUME PathInit PROVE PathInv  OBVIOUS
    <2>1. IInv  BY InitEstablishesIInv DEF PathInit
    <2>2. /\ delivered = {} /\ telemetry = [k \in Keys |-> NoRecord]
          /\ latestState = [d \in Devices |-> NoRecord]
          /\ \A p \in Posts : late[p] = <<>>
      BY DEF PathInit, Init
    <2>3. Reached = {}  BY <2>2 DEF Reached, Elements
    <2>. QED
      BY <2>1, <2>2, <2>3 DEF PathInv, SentAgainAsLong, NoHoles, TablesTypeOK,
         NewestUnlessLate, HistoryKeepsFirst
  <1>2. PathInv /\ [PathNext]_pathVars => PathInv'
    <2>. SUFFICES ASSUME PathInv, [PathNext]_pathVars PROVE PathInv'  OBVIOUS
    <2>1. [Next]_vars
      BY DEF PathNext, StoreBatch, StoreLate, GatewayStep, Next, RunStep,
             pathVars, vars
    <2>2. IInv' /\ SentAgainAsLong' /\ NoHoles'
      BY <2>1, StepPreservesIInv, SentAgainAsLongStays, NoHolesStays DEF PathInv
    <2>3. CASE UNCHANGED <<delivered, overseas>>
      BY <2>2, <2>3 DEF PathInv, TablesTypeOK, NewestUnlessLate,
                        HistoryKeepsFirst, overseas
    <2>4. CASE \E r \in Runs : StoreBatch(r)
      BY <2>2, <2>4, StoringKeepsTables DEF PathInv
    <2>5. CASE \E p \in Posts : StoreLate(p)
      BY <2>2, <2>5, StoringLateKeepsTables DEF PathInv
    <2>6. \/ \E r \in Runs : StoreBatch(r)
          \/ \E p \in Posts : StoreLate(p)
          \/ UNCHANGED <<delivered, overseas>>
      BY DEF PathNext, GatewayStep, Enqueue, TimerFires, Restart, SignOk,
         SignFails, PostRefused, PostBreaks, ResponseOk, ResponseLost, LogOk,
         LogFails, Wakes, LateFails, outsideVars, overseas, pathVars
    <2>. QED  BY <2>3, <2>4, <2>5, <2>6
  <1>. QED  BY <1>1, <1>2, PTL DEF PathSpec

(* latest_state holds, for each device, the newest of its readings that       *)
(* arrived, whatever was delivered twice, and only a POST that was given up   *)
(* and stored all the same can set a row back - until the device's next batch *)
(* stored on time (exporter.ts:81-87 sending again, ingest.ts:81-102).        *)
THEOREM LatestStateIsNewest == PathSpec => []NewestUnlessLate
  BY PathInvariance, PTL DEF PathInv

(* The telemetry table keeps the reading it was first given for a key: its    *)
(* ON CONFLICT DO NOTHING loses no first version, whatever is sent again or   *)
(* stored late, except of readings a restart has let go of (ingest.ts:63-67). *)
THEOREM HistoryIsKept == PathSpec => []HistoryKeepsFirst
  BY PathInvariance, PTL DEF PathInv

(* What BatchExporterProofs proves of the exporter holds on the whole path.   *)
THEOREM PathKeepsExporterSafe ==
  PathSpec =>
    [](SingleFlight /\ FifoOrder /\ NoRecordDropped /\ LogNeverAhead
         /\ NoStranding)
  BY PathIsExporter, AtMostOneFlight, OrderIsKept, NothingIsDropped,
     LogIsTruthful,
     QueueIsNeverStranded, PTL
=============================================================================
