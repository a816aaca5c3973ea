------------------------- MODULE BatchExporterProofs -------------------------
(***************************************************************************)
(* Safety of the exporter for every number of runs, batch size, interval   *)
(* and length of the feed.                                                 *)
(*                                                                         *)
(* The inductive invariant says where every record is: the records of the  *)
(* one batch in flight are the ones just before those of the queue, the    *)
(* queue ends with the last accepted record, and whatever came before the  *)
(* batch is in the export log. A POST that was given up holds a block of   *)
(* consecutive records that fits behind what has been delivered.           *)
(***************************************************************************)
EXTENDS BatchExporter, OrderLemmas, TLAPS

(* A run holds a batch exactly while it is trying to export it.             *)
BatchHeld == \A r \in Runs : pc[r] \in {"idle", "sleeping"} <=> batch[r] = <<>>

QueueInOrder ==
  \A i \in 1..Len(queue) : queue[i] = accepted - Len(queue) + i

BatchInOrder ==
  \A r \in Runs : \A i \in 1..Len(batch[r]) :
    batch[r][i] = accepted - Len(queue) - Len(batch[r]) + i

(* Neither the batch nor the queue reaches back to a forgotten record.      *)
PendingIsRecent ==
  \A r \in Runs : Len(batch[r]) + Len(queue) <= accepted - forgotten

(* Everything accepted before the records that are still held is logged.    *)
PrefixLogged ==
  \A r \in Runs : pc[r] # "idle" \/ ~flushing =>
    (forgotten + 1)..(accepted - Len(queue) - Len(batch[r])) \subseteq logged

(* A batch whose answer is awaited or has arrived is stored overseas.       *)
StoredIsDelivered ==
  \A r \in Runs : pc[r] \in {"stored", "logging"} =>
    Elements(batch[r]) \subseteq delivered

(* A batch whose POST was given up is a block of accepted records, and when *)
(* it was sent nothing that is still remembered was missing before it.      *)
LateBlock(b) ==
  b # <<>> =>
    /\ \A i \in 1..Len(b) : b[i] = b[1] + i - 1 /\ b[i] \in 1..accepted
    /\ (forgotten + 1)..(b[1] - 1) \subseteq delivered

LateOK ==
  /\ late \in [Posts -> Seq(Nat)]
  /\ \A p \in Posts : LateBlock(late[p])

DisabledHoldsNothing ==
  ~enabled => queue = <<>> /\ ~flushing /\ timer = NoTimer /\ forgotten = accepted

IInv ==
  /\ TypeOK
  /\ SingleFlight
  /\ BatchHeld
  /\ QueueInOrder
  /\ BatchInOrder
  /\ PendingIsRecent
  /\ PrefixLogged
  /\ StoredIsDelivered
  /\ LogNeverAhead
  /\ LateOK
  /\ DisabledHoldsNothing

-----------------------------------------------------------------------------
(* Sequences of numbers, index by index.                                    *)

(* Putting a batch back: the batch, then what waited behind it.             *)
LEMMA ConcatIsPointwise ==
  ASSUME NEW a \in Seq(Nat), NEW b \in Seq(Nat)
  PROVE  /\ a \o b \in Seq(Nat)
         /\ Len(a \o b) = Len(a) + Len(b)
         /\ \A i \in 1..Len(a) : (a \o b)[i] = a[i]
         /\ \A i \in 1..Len(b) : (a \o b)[Len(a) + i] = b[i]
  OBVIOUS

(* Splicing k records off the head of a queue.                              *)
LEMMA SplitIsPointwise ==
  ASSUME NEW q \in Seq(Nat), NEW k \in 0..Len(q)
  PROVE  /\ SubSeq(q, 1, k) \in Seq(Nat)
         /\ Len(SubSeq(q, 1, k)) = k
         /\ \A i \in 1..k : SubSeq(q, 1, k)[i] = q[i]
         /\ SubSeq(q, k + 1, Len(q)) \in Seq(Nat)
         /\ Len(SubSeq(q, k + 1, Len(q))) = Len(q) - k
         /\ \A i \in 1..(Len(q) - k) : SubSeq(q, k + 1, Len(q))[i] = q[k + i]
  OBVIOUS

(* Enqueueing adds one record at the end.                                   *)
LEMMA AppendIsPointwise ==
  ASSUME NEW q \in Seq(Nat), NEW n \in Nat
  PROVE  /\ Append(q, n) \in Seq(Nat)
         /\ Len(Append(q, n)) = Len(q) + 1
         /\ \A i \in 1..Len(q) : Append(q, n)[i] = q[i]
         /\ Append(q, n)[Len(q) + 1] = n
  OBVIOUS

(* A position of a held record counts back to a record not forgotten.       *)
LEMMA PositionInRange ==
  ASSUME NEW a \in Nat, NEW f \in Nat, NEW q \in Nat, NEW b \in Nat,
         NEW i \in Int, 1 <= i, i <= b, b + q <= a - f
  PROVE  a - q - b + i \in (f + 1)..a
  OBVIOUS

(* One more record accepted leaves room for one more record held.           *)
LEMMA OneMoreFits ==
  ASSUME NEW a \in Nat, NEW f \in Nat, NEW q \in Nat, NEW b \in Nat, b + q <= a - f
  PROVE  b + (q + 1) <= (a + 1) - f
  OBVIOUS

(* The two ways of counting a position back from the last record agree.     *)
LEMMA SameOffset ==
  ASSUME NEW a \in Nat, NEW b \in Nat, NEW n \in Nat, NEW i \in Int
  PROVE  a - n - b + i = a - (b + n) + i
  OBVIOUS

(* flush() tests this.queue.length, the model compares with <<>>.           *)
LEMMA EmptyHasLengthZero ==
  ASSUME NEW q \in Seq(Nat)
  PROVE  q = <<>> <=> Len(q) = 0
  OBVIOUS

-----------------------------------------------------------------------------
(* A new process, which holds nothing, satisfies the invariant.             *)
THEOREM InitEstablishesIInv == Init => IInv
  <1> SUFFICES ASSUME Init PROVE IInv
    OBVIOUS
  <1> USE ExporterConstants DEF Init
  <1>1. TypeOK
    <2>1. <<>> \in Seq(Nat) /\ Len(<<>>) = 0
      OBVIOUS
    <2>2. enabled \in BOOLEAN /\ flushing \in BOOLEAN
      OBVIOUS
    <2>5. /\ queue \in Seq(Nat) /\ late \in [Posts -> Seq(Nat)]
          /\ timer \in {NoTimer} \cup FlushInterval..MaxBackoff
          /\ backoffMs \in FlushInterval..MaxBackoff
      BY <2>1
    <2>3. /\ pc \in [Runs -> RunStates]
          /\ batch \in [Runs -> Seq(Nat)]
          /\ \A r \in Runs : Len(batch[r]) <= BatchSize
      BY <2>1 DEF RunStates
    <2>4. /\ accepted \in 0..MaxRecords /\ forgotten \in 0..accepted
          /\ delivered \subseteq 1..accepted /\ logged \subseteq 1..accepted
          /\ failures \in 0..MaxFailures
      OBVIOUS
    <2> QED
      BY <2>2, <2>3, <2>4, <2>5 DEF TypeOK
  <1>2. SingleFlight /\ BatchHeld
    BY DEF SingleFlight, BatchHeld
  <1>3. QueueInOrder /\ BatchInOrder /\ PendingIsRecent /\ PrefixLogged
    BY DEF QueueInOrder, BatchInOrder, PendingIsRecent, PrefixLogged
  <1>4. StoredIsDelivered /\ LogNeverAhead /\ DisabledHoldsNothing
    BY DEF StoredIsDelivered, LogNeverAhead, DisabledHoldsNothing
  <1>5. LateOK
    <2>1. \A p \in Posts : late[p] = <<>>
      OBVIOUS
    <2>2. late \in [Posts -> Seq(Nat)]
      BY <1>1 DEF TypeOK
    <2> QED
      BY <2>1, <2>2 DEF LateOK, LateBlock
  <1> QED
    BY <1>1, <1>2, <1>3, <1>4, <1>5 DEF IInv

-----------------------------------------------------------------------------
(* The part of the invariant that flush(), the catch block and the finally  *)
(* block have to re-establish; the rest of it is about the export log.      *)
Placement ==
  /\ SingleFlight
  /\ BatchHeld
  /\ QueueInOrder
  /\ BatchInOrder
  /\ PendingIsRecent
  /\ PrefixLogged
  /\ StoredIsDelivered

MemoryTypeOK ==
  /\ queue \in Seq(Nat)
  /\ flushing \in BOOLEAN
  /\ pc \in [Runs -> RunStates]
  /\ batch \in [Runs -> Seq(Nat)]
  /\ \A r \in Runs : Len(batch[r]) <= BatchSize

(* A batch holds records that have been accepted and not forgotten.         *)
LEMMA BatchHoldsAccepted ==
  ASSUME IInv, NEW r \in Runs
  PROVE  Elements(batch[r]) \subseteq (forgotten + 1)..accepted
  <1>1. accepted \in Nat /\ forgotten \in Nat
    BY ExporterConstants DEF IInv, TypeOK
  <1>2. Len(batch[r]) \in Nat /\ Len(queue) \in Nat
    BY DEF IInv, TypeOK
  <1>3. Len(batch[r]) + Len(queue) <= accepted - forgotten
    BY DEF IInv, PendingIsRecent
  <1>4. \A i \in 1..Len(batch[r]) :
          batch[r][i] = accepted - Len(queue) - Len(batch[r]) + i
    BY DEF IInv, BatchInOrder
  <1> SUFFICES ASSUME NEW i \in 1..Len(batch[r])
               PROVE  batch[r][i] \in (forgotten + 1)..accepted
    BY DEF Elements
  <1>5. i \in Int /\ 1 <= i /\ i <= Len(batch[r])
    BY <1>2
  <1>6. batch[r][i] = accepted - Len(queue) - Len(batch[r]) + i
    BY <1>4
  <1> QED
    BY <1>1, <1>2, <1>3, <1>5, <1>6, PositionInRange

(* A call of flush() whose queue continues the records already placed.      *)
LEMMA FlushKeepsPlacement ==
  ASSUME IInv, enabled, NEW q \in Seq(Nat), Flush(q),
         accepted' \in Nat, accepted <= accepted',
         accepted' - Len(q) = accepted - Len(queue),
         \A i \in 1..Len(q) : q[i] = accepted' - Len(q) + i,
         UNCHANGED <<forgotten, delivered, logged>>
  PROVE  Placement' /\ MemoryTypeOK'
  <1>1. /\ queue \in Seq(Nat) /\ Len(queue) \in Nat /\ Len(q) \in Nat
        /\ accepted \in Nat /\ forgotten \in Nat
        /\ pc \in [Runs -> RunStates] /\ batch \in [Runs -> Seq(Nat)]
        /\ \A r \in Runs : Len(batch[r]) \in Nat /\ Len(batch[r]) <= BatchSize
    BY ExporterConstants DEF IInv, TypeOK
  <1>2. CASE flushing \/ q = <<>>
    <2>1. queue' = q /\ flushing' = flushing /\ pc' = pc /\ batch' = batch
      BY <1>2 DEF Flush
    <2>2. MemoryTypeOK'
      BY <1>1, <2>1 DEF MemoryTypeOK, IInv, TypeOK
    <2>3. SingleFlight' /\ BatchHeld' /\ StoredIsDelivered'
      BY <2>1 DEF IInv, SingleFlight, BatchHeld, StoredIsDelivered
    <2>4. QueueInOrder'
      BY <2>1 DEF QueueInOrder
    <2>5. BatchInOrder'
      BY <1>1, <2>1 DEF IInv, BatchInOrder
    <2>6. PendingIsRecent'
      BY <1>1, <2>1 DEF IInv, PendingIsRecent
    <2>7. PrefixLogged'
      BY <1>1, <2>1 DEF IInv, PrefixLogged
    <2> QED
      BY <2>2, <2>3, <2>4, <2>5, <2>6, <2>7 DEF Placement
  <1>3. CASE ~flushing /\ q # <<>>
    <2>1. /\ flushing' = TRUE
          /\ queue' = SubSeq(q, TakeCount(q) + 1, Len(q))
          /\ \E r \in Runs :
               /\ pc' = [pc EXCEPT ![r] = "signing"]
               /\ batch' = [batch EXCEPT ![r] = SubSeq(q, 1, TakeCount(q))]
      BY <1>3 DEF Flush
    <2>2. PICK r \in Runs :
            /\ pc' = [pc EXCEPT ![r] = "signing"]
            /\ batch' = [batch EXCEPT ![r] = SubSeq(q, 1, TakeCount(q))]
      BY <2>1
    <2> DEFINE k == TakeCount(q)
    <2>3. k \in 1..Len(q) /\ k \in 0..Len(q) /\ k <= BatchSize
      BY <1>1, <1>3, ExporterConstants, EmptyHasLengthZero DEF TakeCount, Lesser
    <2>4. /\ batch'[r] \in Seq(Nat) /\ Len(batch'[r]) = k
          /\ \A i \in 1..k : batch'[r][i] = q[i]
          /\ queue' \in Seq(Nat) /\ Len(queue') = Len(q) - k
          /\ \A i \in 1..(Len(q) - k) : queue'[i] = q[k + i]
      <3> HIDE DEF k
      <3>1. batch'[r] = SubSeq(q, 1, k) /\ queue' = SubSeq(q, k + 1, Len(q))
        BY <1>1, <2>1, <2>2 DEF k
      <3>2. k \in 0..Len(q)
        BY <2>3
      <3>3. /\ SubSeq(q, 1, k) \in Seq(Nat) /\ Len(SubSeq(q, 1, k)) = k
            /\ \A i \in 1..k : SubSeq(q, 1, k)[i] = q[i]
            /\ SubSeq(q, k + 1, Len(q)) \in Seq(Nat)
            /\ Len(SubSeq(q, k + 1, Len(q))) = Len(q) - k
            /\ \A i \in 1..(Len(q) - k) : SubSeq(q, k + 1, Len(q))[i] = q[k + i]
        BY <3>2, SplitIsPointwise
      <3> QED
        BY <3>1, <3>3, Zenon
    <2> HIDE DEF k
    <2>5. \A s \in Runs : pc[s] = "idle" /\ batch[s] = <<>> /\ Len(batch[s]) = 0
      BY <1>1, <1>3 DEF IInv, SingleFlight, BatchHeld
    <2>6. \A s \in Runs : s # r => pc'[s] = "idle" /\ batch'[s] = <<>> /\ Len(batch'[s]) = 0
      BY <1>1, <2>2, <2>5
    <2>7. pc'[r] = "signing"
      BY <1>1, <2>2
    <2>8. MemoryTypeOK'
      <3>1. pc' \in [Runs -> RunStates]
        BY <1>1, <2>2 DEF RunStates
      <3>2. batch' \in [Runs -> Seq(Nat)]
        <4>1. batch' = [batch EXCEPT ![r] = batch'[r]]
          BY <1>1, <2>2
        <4> QED
          BY <1>1, <2>4, <4>1
      <3>3. \A s \in Runs : Len(batch'[s]) <= BatchSize
        <4>1. BatchSize \in Nat
          BY ExporterConstants
        <4>2. \A s \in Runs : s # r => Len(batch'[s]) = 0
          BY <2>6
        <4>3. Len(batch'[r]) = k /\ k \in Int /\ k <= BatchSize
          BY <2>3, <2>4
        <4> QED
          BY <4>1, <4>2, <4>3
      <3> QED
        BY <2>1, <2>4, <3>1, <3>2, <3>3 DEF MemoryTypeOK
    <2>9. SingleFlight'
      BY <2>1, <2>6, <2>7 DEF SingleFlight
    <2>10. BatchHeld'
      <3>1. batch'[r] # <<>>
        BY <2>3, <2>4, EmptyHasLengthZero
      <3> QED
        BY <2>6, <2>7, <3>1 DEF BatchHeld
    <2>11. QueueInOrder'
      <3> SUFFICES ASSUME NEW i \in 1..Len(queue')
                   PROVE  queue'[i] = accepted' - Len(queue') + i
        BY DEF QueueInOrder
      <3>1. i \in Int /\ k \in Int /\ k + i \in 1..Len(q) /\ i \in 1..(Len(q) - k)
        <4>1. Len(q) \in Nat /\ Len(queue') = Len(q) - k
          BY <2>4
        <4> QED
          BY <2>3, <4>1
      <3>2. queue'[i] = q[k + i]
        BY <2>4, <3>1
      <3>3. q[k + i] = accepted' - Len(q) + (k + i)
        BY <3>1
      <3> QED
        BY <1>1, <2>4, <3>1, <3>2, <3>3
    <2>12. BatchInOrder'
      <3> SUFFICES ASSUME NEW s \in Runs, NEW i \in 1..Len(batch'[s])
                   PROVE  batch'[s][i] = accepted' - Len(queue') - Len(batch'[s]) + i
        BY DEF BatchInOrder
      <3>1. s = r
        BY <2>6
      <3>2. i \in Int /\ k \in Int /\ i \in 1..Len(q) /\ i \in 1..k
        <4>1. k \in 1..Len(q) /\ Len(q) \in Nat
          BY <1>1, <2>3
        <4>2. i \in 1..k
          BY <2>4, <3>1
        <4> QED
          BY <4>1, <4>2
      <3>3. batch'[s][i] = q[i] /\ q[i] = accepted' - Len(q) + i
        BY <2>4, <3>1, <3>2
      <3>4. Len(batch'[s]) = k /\ Len(queue') = Len(q) - k /\ Len(q) \in Nat
        BY <2>4, <3>1
      <3>5. accepted' - Len(q) + i = accepted' - (Len(q) - k) - k + i
        BY <3>2, <3>4
      <3> QED
        BY <3>3, <3>4, <3>5, Zenon
    <2>13. PendingIsRecent'
      <3>1. Len(q) <= accepted' - forgotten
        BY <1>1, <2>2, <2>5 DEF IInv, PendingIsRecent
      <3>2. k \in Nat /\ Len(q) \in Nat /\ accepted' - forgotten \in Int
        BY <1>1, <2>3
      <3>3. Len(queue') = Len(q) - k /\ Len(batch'[r]) = k
        BY <2>4
      <3>4. \A s \in Runs : s # r => Len(batch'[s]) = 0
        BY <2>6
      <3>5. \A s \in Runs : Len(batch'[s]) + Len(queue') <= accepted' - forgotten
        BY <3>1, <3>2, <3>3, <3>4
      <3> QED
        BY <3>5 DEF PendingIsRecent
    <2>14. PrefixLogged'
      <3>1. (forgotten + 1)..(accepted - Len(queue)) \subseteq logged
        BY <1>1, <1>3, <2>2, <2>5 DEF IInv, PrefixLogged
      <3>2. accepted' - Len(queue') - Len(batch'[r]) = accepted - Len(queue)
        BY <1>1, <2>3, <2>4
      <3> QED
        BY <2>1, <2>6, <3>1, <3>2 DEF PrefixLogged
    <2>15. StoredIsDelivered'
      BY <2>6, <2>7 DEF StoredIsDelivered
    <2> QED
      BY <2>8, <2>9, <2>10, <2>11, <2>12, <2>13, <2>14, <2>15 DEF Placement
  <1> QED
    BY <1>2, <1>3

(* What TypeOK and SingleFlight say, in the form the action lemmas use.     *)
LEMMA IInvTypes ==
  ASSUME IInv
  PROVE  /\ queue \in Seq(Nat) /\ Len(queue) \in Nat
         /\ accepted \in Nat /\ accepted <= MaxRecords
         /\ forgotten \in Nat /\ forgotten <= accepted
         /\ backoffMs \in Nat /\ FlushInterval <= backoffMs /\ backoffMs <= MaxBackoff
         /\ timer \in {NoTimer} \cup FlushInterval..MaxBackoff
         /\ pc \in [Runs -> RunStates] /\ batch \in [Runs -> Seq(Nat)]
         /\ delivered \subseteq 1..accepted /\ logged \subseteq delivered
         /\ failures \in Nat /\ failures <= MaxFailures
         /\ \A r \in Runs : Len(batch[r]) \in Nat /\ Len(batch[r]) <= BatchSize
  BY ExporterConstants DEF IInv, TypeOK, LogNeverAhead

(* When one run is past its guard every other one is idle and holds nothing.*)
LEMMA OthersAreIdle ==
  ASSUME IInv, NEW r \in Runs, pc[r] # "idle"
  PROVE  /\ flushing = TRUE /\ enabled
         /\ \A s \in Runs : s # r => pc[s] = "idle" /\ batch[s] = <<>> /\ Len(batch[s]) = 0
  <1>1. flushing = TRUE
    BY DEF IInv, SingleFlight, TypeOK
  <1>2. enabled
    BY <1>1 DEF IInv, DisabledHoldsNothing
  <1>3. \A s \in Runs : s # r => pc[s] = "idle" /\ batch[s] = <<>>
    BY DEF IInv, SingleFlight, BatchHeld
  <1> QED
    BY <1>1, <1>2, <1>3

(* What was given up stays a block as the feed goes on, and a batch on the  *)
(* wire is one when its caller gives it up.                                 *)
LEMMA LateBlocksStay ==
  ASSUME IInv, late' \in [Posts -> Seq(Nat)],
         \A p \in Posts : \/ late'[p] \in {late[p], <<>>}
                          \/ \E r \in Runs : pc[r] = "posting" /\ late'[p] = batch[r],
         accepted' \in Nat, accepted <= accepted', delivered \subseteq delivered',
         forgotten' = forgotten \/ (forgotten' \in Nat /\ accepted <= forgotten')
  PROVE  LateOK'
  <1>1. /\ accepted \in Nat /\ forgotten \in Nat /\ Len(queue) \in Nat
        /\ \A r \in Runs : batch[r] \in Seq(Nat) /\ Len(batch[r]) \in Nat
    BY IInvTypes
  <1>2. ASSUME NEW b \in Seq(Nat), LateBlock(b)
        PROVE  LateBlock(b)'
    <2> SUFFICES ASSUME b # <<>>
                 PROVE  /\ \A i \in 1..Len(b) : b[i] = b[1] + i - 1 /\ b[i] \in 1..accepted'
                        /\ (forgotten' + 1)..(b[1] - 1) \subseteq delivered'
      BY DEF LateBlock
    <2>1. /\ \A i \in 1..Len(b) : b[i] = b[1] + i - 1 /\ b[i] \in 1..accepted
          /\ (forgotten + 1)..(b[1] - 1) \subseteq delivered
      BY <1>2 DEF LateBlock
    <2>2. b[1] \in 1..accepted
      <3>1. 1 \in 1..Len(b)
        BY EmptyHasLengthZero
      <3> QED
        BY <2>1, <3>1
    <2> QED
      BY <1>1, <2>1, <2>2
  <1>3. ASSUME NEW r \in Runs, pc[r] = "posting"
        PROVE  LateBlock(batch[r])
    <2> DEFINE b == batch[r]
               c == accepted - Len(queue) - Len(b)
    <2>1. Len(b) + Len(queue) <= accepted - forgotten
      BY DEF IInv, PendingIsRecent
    <2>2. \A i \in 1..Len(b) : b[i] = c + i
      BY DEF IInv, BatchInOrder
    <2>3. (forgotten + 1)..c \subseteq delivered
      BY <1>3 DEF IInv, PrefixLogged, LogNeverAhead
    <2>4. b \in Seq(Nat) /\ Len(b) \in Nat /\ c \in Nat /\ c + Len(b) <= accepted
      <3> HIDE DEF b
      <3>1. b \in Seq(Nat) /\ Len(b) \in Nat
        BY <1>1 DEF b
      <3> QED
        BY <1>1, <2>1, <3>1
    <2> HIDE DEF b, c
    <2>5. ASSUME b # <<>>
          PROVE  /\ \A i \in 1..Len(b) : b[i] = b[1] + i - 1 /\ b[i] \in 1..accepted
                 /\ (forgotten + 1)..(b[1] - 1) \subseteq delivered
      <3>1. 1 \in 1..Len(b)
        BY <2>4, <2>5, EmptyHasLengthZero
      <3>2. b[1] = c + 1
        BY <2>2, <3>1
      <3> QED
        BY <1>1, <2>2, <2>3, <2>4, <3>2
    <2> QED
      BY <2>5 DEF LateBlock, b
  <1>4. ASSUME NEW p \in Posts
        PROVE  LateBlock(late'[p])
    <2>1. LateBlock(late[p]) /\ LateBlock(<<>>)
      BY DEF IInv, LateOK, LateBlock
    <2> QED
      BY <1>3, <2>1
  <1>5. \A p \in Posts : late'[p] \in Seq(Nat)
    OBVIOUS
  <1>6. ASSUME NEW p \in Posts
        PROVE  LateBlock(late[p])'
    <2>1. \A b \in Seq(Nat) : LateBlock(b) => LateBlock(b)'
      BY <1>2
    <2> QED
      BY <1>4, <1>5, <2>1 DEF LateBlock
  <1> QED
    BY <1>6 DEF LateOK

(* The catch block: the batch is put back in front of the queue.            *)
LEMMA FailPreservesIInv ==
  ASSUME IInv, LateOK', NEW r \in Runs,
         pc[r] \in {"signing", "posting", "stored", "logging"}, Fail(r),
         delivered' = delivered, logged \subseteq logged', logged' \subseteq delivered
  PROVE  IInv'
  <1>1. /\ queue' = batch[r] \o queue
        /\ batch' = [batch EXCEPT ![r] = <<>>]
        /\ backoffMs' = Lesser(backoffMs * 2, MaxBackoff)
        /\ pc' = [pc EXCEPT ![r] = "sleeping"]
        /\ failures' = Lesser(failures + 1, MaxFailures)
        /\ enabled' = enabled /\ flushing' = flushing /\ timer' = timer
        /\ accepted' = accepted /\ forgotten' = forgotten
    BY DEF Fail
  <1>2. /\ flushing = TRUE /\ enabled
        /\ \A s \in Runs : s # r => pc[s] = "idle" /\ batch[s] = <<>> /\ Len(batch[s]) = 0
    BY OthersAreIdle
  <1> DEFINE b == Len(batch[r])
             n == Len(queue)
  <1>3. /\ queue' \in Seq(Nat) /\ Len(queue') = b + n
        /\ \A i \in 1..b : queue'[i] = batch[r][i]
        /\ \A i \in 1..n : queue'[b + i] = queue[i]
    BY <1>1, IInvTypes, ConcatIsPointwise
  <1>4. b \in Nat /\ n \in Nat /\ accepted \in Nat /\ forgotten \in Nat
    BY IInvTypes
  <1>5. \A s \in Runs : batch'[s] = <<>> /\ Len(batch'[s]) = 0
    BY <1>1, <1>2, IInvTypes
  <1>6. pc'[r] = "sleeping" /\ \A s \in Runs : s # r => pc'[s] = "idle"
    BY <1>1, <1>2, IInvTypes
  <1>7. TypeOK'
    <2>1. backoffMs' \in FlushInterval..MaxBackoff
      BY <1>1, IInvTypes, ExporterConstants DEF Lesser
    <2>2. failures' \in 0..MaxFailures
      BY <1>1, IInvTypes, ExporterConstants DEF Lesser
    <2>3. pc' \in [Runs -> RunStates]
      BY <1>1, IInvTypes DEF RunStates
    <2>4. batch' \in [Runs -> Seq(Nat)] /\ \A s \in Runs : Len(batch'[s]) <= BatchSize
      <3>1. <<>> \in Seq(Nat)
        OBVIOUS
      <3>2. batch' \in [Runs -> Seq(Nat)]
        BY <1>1, <3>1, IInvTypes
      <3>3. \A s \in Runs : Len(batch'[s]) <= BatchSize
        BY <1>5, ExporterConstants
      <3> QED
        BY <3>2, <3>3
    <2>5. logged' \subseteq 1..accepted'
      BY <1>1, IInvTypes
    <2>6. /\ enabled' \in BOOLEAN /\ flushing' \in BOOLEAN
          /\ timer' \in {NoTimer} \cup FlushInterval..MaxBackoff
          /\ accepted' \in 0..MaxRecords /\ forgotten' \in 0..accepted'
          /\ delivered' \subseteq 1..accepted'
      BY <1>1 DEF IInv, TypeOK
    <2> QED
      BY <1>3, <2>1, <2>2, <2>3, <2>4, <2>5, <2>6 DEF TypeOK, LateOK
  <1>8. SingleFlight'
    BY <1>1, <1>2, <1>6 DEF SingleFlight
  <1>9. BatchHeld'
    BY <1>5, <1>6 DEF BatchHeld
  <1>10. QueueInOrder'
    <2> SUFFICES ASSUME NEW i \in 1..(b + n)
                 PROVE  queue'[i] = accepted - (b + n) + i
      BY <1>1, <1>3 DEF QueueInOrder
    <2>1. CASE i <= b
      <3>1. i \in 1..b
        BY <1>4, <2>1
      <3>2. queue'[i] = batch[r][i] /\ batch[r][i] = accepted - n - b + i
        BY <1>3, <3>1 DEF IInv, BatchInOrder
      <3> HIDE DEF b, n
      <3> QED
        BY <1>4, <3>1, <3>2
    <2>2. CASE i > b
      <3>1. i - b \in 1..n /\ i \in Int
        <4> HIDE DEF b, n
        <4> QED
          BY <1>4, <2>2
      <3>2. queue'[b + (i - b)] = queue[i - b] /\ queue[i - b] = accepted - n + (i - b)
        BY <1>3, <3>1 DEF IInv, QueueInOrder
      <3> HIDE DEF b, n
      <3>3. b + (i - b) = i
        BY <1>4, <3>1
      <3> QED
        BY <1>4, <3>1, <3>2, <3>3
    <2> HIDE DEF b, n
    <2> QED
      BY <1>4, <2>1, <2>2
  <1>11. BatchInOrder'
    BY <1>5 DEF BatchInOrder
  <1>12. PendingIsRecent'
    <2>1. b + n <= accepted - forgotten
      BY DEF IInv, PendingIsRecent
    <2>2. Len(queue') = b + n /\ \A s \in Runs : Len(batch'[s]) = 0
      BY <1>3, <1>5
    <2> HIDE DEF b, n
    <2>3. 0 + (b + n) <= accepted - forgotten
      BY <1>4, <2>1
    <2> QED
      BY <1>1, <2>2, <2>3 DEF PendingIsRecent
  <1>13. PrefixLogged'
    <2>1. (forgotten + 1)..(accepted - n - b) \subseteq logged
      BY DEF IInv, PrefixLogged
    <2> HIDE DEF b, n
    <2>2. accepted - (b + n) - 0 = accepted - n - b
      BY <1>4
    <2> QED
      BY <1>1, <1>2, <1>3, <1>5, <2>1, <2>2 DEF PrefixLogged
  <1>14. StoredIsDelivered'
    BY <1>6 DEF StoredIsDelivered
  <1>15. LogNeverAhead' /\ DisabledHoldsNothing'
    BY <1>1, <1>2 DEF LogNeverAhead, DisabledHoldsNothing
  <1> QED
    BY <1>7, <1>8, <1>9, <1>10, <1>11, <1>12, <1>13, <1>14, <1>15 DEF IInv

(* A run moves on to its next await without touching queue or batch.        *)
LEMMA AdvancePreservesIInv ==
  ASSUME IInv, LateOK', NEW r \in Runs, NEW x \in {"posting", "stored", "logging"},
         pc[r] \notin {"idle", "sleeping"},
         pc' = [pc EXCEPT ![r] = x],
         UNCHANGED <<enabled, queue, flushing, timer, batch, accepted, forgotten, logged>>,
         backoffMs' \in FlushInterval..MaxBackoff, failures' \in 0..MaxFailures,
         delivered \subseteq delivered', delivered' \subseteq 1..accepted,
         x \in {"stored", "logging"} => Elements(batch[r]) \subseteq delivered'
  PROVE  IInv'
  <1>1. pc \in [Runs -> RunStates] /\ x \in RunStates
    BY IInvTypes DEF RunStates
  <1>2. pc'[r] = x /\ \A s \in Runs : s # r => pc'[s] = pc[s]
    BY <1>1
  <1>3. TypeOK'
    BY <1>1 DEF IInv, TypeOK, LateOK
  <1>4. SingleFlight' /\ BatchHeld' /\ PrefixLogged'
    BY <1>2 DEF IInv, SingleFlight, BatchHeld, PrefixLogged
  <1>5. QueueInOrder' /\ BatchInOrder' /\ PendingIsRecent'
    BY DEF IInv, QueueInOrder, BatchInOrder, PendingIsRecent
  <1>6. StoredIsDelivered'
    BY <1>2 DEF IInv, StoredIsDelivered
  <1>7. LogNeverAhead' /\ DisabledHoldsNothing'
    BY DEF IInv, LogNeverAhead, DisabledHoldsNothing
  <1> QED
    BY <1>3, <1>4, <1>5, <1>6, <1>7 DEF IInv

(* scheduleFlush() never arms a delay outside FlushInterval..MaxBackoff.    *)
LEMMA ScheduledTimerInRange ==
  ASSUME IInv, NEW busy \in BOOLEAN
  PROVE  ScheduledTimer(busy, backoffMs) \in {NoTimer} \cup FlushInterval..MaxBackoff
  BY IInvTypes, ExporterConstants DEF ScheduledTimer

(* The finally block of a run whose batch, if it still has one, is logged.  *)
LEMMA FinishPreservesIInv ==
  ASSUME IInv, LateOK', NEW r \in Runs, pc[r] # "idle", Finish(r),
         batch' = [batch EXCEPT ![r] = <<>>],
         logged' = logged \cup Elements(batch[r]),
         Elements(batch[r]) \subseteq delivered,
         UNCHANGED <<enabled, queue, backoffMs, accepted, forgotten, delivered, failures>>
  PROVE  IInv'
  <1>1. /\ flushing' = FALSE
        /\ timer' = ScheduledTimer(FALSE, backoffMs)
        /\ pc' = [pc EXCEPT ![r] = "idle"]
    BY DEF Finish
  <1>2. enabled /\ \A s \in Runs : s # r =>
                       pc[s] = "idle" /\ batch[s] = <<>> /\ Len(batch[s]) = 0
    BY OthersAreIdle
  <1>3. \A s \in Runs : pc'[s] = "idle" /\ batch'[s] = <<>> /\ Len(batch'[s]) = 0
    BY <1>1, <1>2, IInvTypes
  <1>4. TypeOK'
    <2>1. timer' \in {NoTimer} \cup FlushInterval..MaxBackoff
      BY <1>1, ScheduledTimerInRange
    <2>2. pc' \in [Runs -> RunStates]
      BY <1>1, IInvTypes DEF RunStates
    <2>3. batch' \in [Runs -> Seq(Nat)] /\ \A s \in Runs : Len(batch'[s]) <= BatchSize
      <3>1. <<>> \in Seq(Nat)
        OBVIOUS
      <3> QED
        BY <1>3, <3>1, IInvTypes, ExporterConstants
    <2>4. logged' \subseteq 1..accepted
      BY IInvTypes
    <2>5. enabled' \in BOOLEAN /\ flushing' \in BOOLEAN
      BY <1>1 DEF IInv, TypeOK
    <2>6. /\ queue' \in Seq(Nat) /\ backoffMs' \in FlushInterval..MaxBackoff
          /\ accepted' \in 0..MaxRecords /\ forgotten' \in 0..accepted'
          /\ delivered' \subseteq 1..accepted' /\ failures' \in 0..MaxFailures
      BY DEF IInv, TypeOK
    <2> QED
      BY <2>1, <2>2, <2>3, <2>4, <2>5, <2>6 DEF TypeOK, LateOK
  <1>5. SingleFlight' /\ BatchHeld' /\ StoredIsDelivered'
    BY <1>1, <1>3 DEF SingleFlight, BatchHeld, StoredIsDelivered
  <1>6. QueueInOrder' /\ BatchInOrder'
    BY <1>3 DEF IInv, QueueInOrder, BatchInOrder
  <1> DEFINE b == Len(batch[r])
             n == Len(queue)
  <1>7. b \in Nat /\ n \in Nat /\ accepted \in Nat /\ forgotten \in Nat
    BY IInvTypes
  <1>8. PendingIsRecent'
    <2>1. b + n <= accepted - forgotten
      BY DEF IInv, PendingIsRecent
    <2>2. Len(queue') = n /\ \A s \in Runs : Len(batch'[s]) = 0
      BY <1>3
    <2> HIDE DEF b, n
    <2>3. 0 + n <= accepted - forgotten
      BY <1>7, <2>1
    <2> QED
      BY <2>2, <2>3 DEF PendingIsRecent
  <1>9. PrefixLogged'
    <2>1. (forgotten + 1)..(accepted - n - b) \subseteq logged
      BY DEF IInv, PrefixLogged
    <2>2. \A i \in 1..b : batch[r][i] = accepted - n - b + i
      BY DEF IInv, BatchInOrder
    <2>3. ASSUME NEW m \in (forgotten + 1)..(accepted - n)
          PROVE  m \in logged'
      <3>1. CASE m <= accepted - n - b
        <4>1. m \in (forgotten + 1)..(accepted - n - b)
          <5> HIDE DEF b, n
          <5> QED
            BY <1>7, <3>1
        <4> QED
          BY <2>1, <4>1
      <3>2. CASE m > accepted - n - b
        <4> DEFINE i == m - (accepted - n - b)
        <4>1. i \in 1..b /\ accepted - n - b + i = m
          <5> HIDE DEF b, n
          <5> QED
            BY <1>7, <3>2
        <4>2. batch[r][i] = m
          BY <2>2, <4>1
        <4> HIDE DEF i
        <4> QED
          BY <4>1, <4>2 DEF Elements
      <3>3. m <= accepted - n - b \/ m > accepted - n - b
        <4> HIDE DEF b, n
        <4> QED
          BY <1>7
      <3> QED
        BY <3>1, <3>2, <3>3
    <2>4. \A s \in Runs : accepted' - Len(queue') - Len(batch'[s]) = accepted - n
      BY <1>3, <1>7
    <2> HIDE DEF b, n
    <2> QED
      BY <2>3, <2>4 DEF PrefixLogged
  <1>10. LogNeverAhead' /\ DisabledHoldsNothing'
    BY <1>2, IInvTypes DEF LogNeverAhead, DisabledHoldsNothing
  <1> QED
    BY <1>4, <1>5, <1>6, <1>8, <1>9, <1>10 DEF IInv

(* enqueue(): disabled, reaching the batch size, or below it.               *)
LEMMA EnqueuePreservesIInv ==
  ASSUME IInv, LateOK', Enqueue
  PROVE  IInv'
  <1>1. /\ accepted' = accepted + 1 /\ accepted < MaxRecords
        /\ enabled' = enabled /\ backoffMs' = backoffMs /\ delivered' = delivered
        /\ logged' = logged /\ failures' = failures
    BY DEF Enqueue
  <1>2. accepted' \in Nat /\ accepted' \in 0..MaxRecords /\ accepted <= accepted'
    BY <1>1, IInvTypes, ExporterConstants
  <1>3. /\ enabled' \in BOOLEAN /\ backoffMs' \in FlushInterval..MaxBackoff
        /\ failures' \in 0..MaxFailures
        /\ delivered' \subseteq 1..accepted' /\ logged' \subseteq 1..accepted'
        /\ LogNeverAhead'
    <2>1. 1..accepted \subseteq 1..accepted'
      BY <1>1, IInvTypes
    <2> QED
      BY <1>1, <2>1 DEF IInv, TypeOK, LogNeverAhead
  <1> DEFINE q == Append(queue, accepted + 1)
  <1>4. /\ q \in Seq(Nat) /\ Len(q) = Len(queue) + 1
        /\ \A i \in 1..Len(queue) : q[i] = queue[i]
        /\ q[Len(queue) + 1] = accepted + 1
    BY <1>1, <1>2, IInvTypes, AppendIsPointwise
  <1>5. /\ Len(queue) \in Nat /\ accepted \in Nat /\ forgotten \in Nat
        /\ \A r \in Runs : Len(batch[r]) \in Nat
    BY IInvTypes
  <1>6. \A i \in 1..Len(q) : q[i] = accepted' - Len(q) + i
    <2> SUFFICES ASSUME NEW i \in 1..Len(q)
                 PROVE  q[i] = accepted' - Len(q) + i
      OBVIOUS
    <2> HIDE DEF q
    <2>1. CASE i = Len(queue) + 1
      BY <1>1, <1>4, <1>5, <2>1
    <2>2. CASE i # Len(queue) + 1
      <3>1. i \in 1..Len(queue) /\ i \in Int
        BY <1>4, <1>5, <2>2
      <3>2. q[i] = accepted - Len(queue) + i
        BY <1>4, <3>1 DEF IInv, QueueInOrder
      <3>3. Len(q) = Len(queue) + 1
        BY <1>4
      <3> QED
        BY <1>1, <1>5, <3>1, <3>2, <3>3
    <2> QED
      BY <2>1, <2>2
  <1>7. accepted' - Len(q) = accepted - Len(queue)
    <2> HIDE DEF q
    <2> QED
      BY <1>1, <1>4, <1>5
  <1>8. CASE ~enabled
    <2>1. /\ forgotten' = accepted'
          /\ queue' = queue /\ flushing' = flushing /\ timer' = timer
          /\ pc' = pc /\ batch' = batch
      BY <1>1, <1>8 DEF Enqueue
    <2>2. queue = <<>> /\ Len(queue) = 0 /\ ~flushing /\ timer = NoTimer
      BY <1>8 DEF IInv, DisabledHoldsNothing
    <2>3. \A r \in Runs : pc[r] = "idle" /\ batch[r] = <<>> /\ Len(batch[r]) = 0
      BY <2>2 DEF IInv, SingleFlight, BatchHeld
    <2>4. TypeOK'
      BY <1>2, <1>3, <2>1 DEF IInv, TypeOK, LateOK
    <2>5. SingleFlight' /\ BatchHeld' /\ StoredIsDelivered'
      BY <1>1, <2>1, <2>3 DEF IInv, SingleFlight, BatchHeld, StoredIsDelivered
    <2>6. QueueInOrder' /\ BatchInOrder'
      BY <2>1, <2>2, <2>3 DEF QueueInOrder, BatchInOrder
    <2>7. PendingIsRecent' /\ PrefixLogged'
      BY <1>2, <2>1, <2>2, <2>3 DEF PendingIsRecent, PrefixLogged
    <2>8. DisabledHoldsNothing'
      BY <2>1, <2>2 DEF DisabledHoldsNothing
    <2> QED
      BY <1>3, <2>4, <2>5, <2>6, <2>7, <2>8 DEF IInv
  <1>9. CASE enabled /\ Len(queue) + 1 >= BatchSize
    <2>1. Flush(q) /\ timer' = timer /\ forgotten' = forgotten
      <3>1. ~(Len(queue) + 1 < BatchSize)
        BY <1>5, <1>9, ExporterConstants
      <3> QED
        BY <1>9, <3>1 DEF Enqueue
    <2> HIDE DEF q
    <2>2. Placement' /\ MemoryTypeOK'
      BY <1>1, <1>2, <1>4, <1>6, <1>7, <1>9, <2>1, FlushKeepsPlacement
    <2>3. TypeOK'
      <3>1. timer' \in {NoTimer} \cup FlushInterval..MaxBackoff
        BY <2>1, IInvTypes
      <3>2. forgotten' \in 0..accepted'
        BY <1>2, <2>1, IInvTypes
      <3> QED
        BY <1>2, <1>3, <2>2, <3>1, <3>2 DEF TypeOK, MemoryTypeOK, LateOK
    <2>4. DisabledHoldsNothing'
      BY <1>1, <1>9 DEF DisabledHoldsNothing
    <2> QED
      BY <1>3, <2>2, <2>3, <2>4 DEF IInv, Placement
  <1>10. CASE enabled /\ Len(queue) + 1 < BatchSize
    <2>1. /\ queue' = q
          /\ timer' = ScheduledTimer(flushing, backoffMs)
          /\ flushing' = flushing /\ pc' = pc /\ batch' = batch /\ forgotten' = forgotten
      <3>1. ~(Len(queue) + 1 >= BatchSize)
        BY <1>5, <1>10, ExporterConstants
      <3> QED
        BY <1>10, <3>1 DEF Enqueue
    <2> HIDE DEF q
    <2>2. TypeOK'
      <3>1. timer' \in {NoTimer} \cup FlushInterval..MaxBackoff
        <4>1. flushing \in BOOLEAN
          BY DEF IInv, TypeOK
        <4> QED
          BY <2>1, <4>1, ScheduledTimerInRange
      <3>2. forgotten' \in 0..accepted'
        BY <1>2, <2>1, IInvTypes
      <3>3. /\ queue' \in Seq(Nat) /\ flushing' \in BOOLEAN
            /\ pc' \in [Runs -> RunStates] /\ batch' \in [Runs -> Seq(Nat)]
            /\ \A r \in Runs : Len(batch'[r]) <= BatchSize
        BY <1>4, <2>1 DEF IInv, TypeOK
      <3> QED
        BY <1>2, <1>3, <3>1, <3>2, <3>3 DEF TypeOK, LateOK
    <2>3. SingleFlight' /\ BatchHeld' /\ StoredIsDelivered'
      BY <1>1, <2>1 DEF IInv, SingleFlight, BatchHeld, StoredIsDelivered
    <2>4. QueueInOrder'
      BY <1>6, <2>1 DEF QueueInOrder
    <2>5. \A r \in Runs : /\ accepted' - Len(queue') = accepted - Len(queue)
                          /\ batch'[r] = batch[r] /\ pc'[r] = pc[r]
      BY <1>7, <2>1
    <2>6. BatchInOrder'
      BY <2>5 DEF IInv, BatchInOrder
    <2>7. PrefixLogged'
      BY <1>1, <2>1, <2>5 DEF IInv, PrefixLogged
    <2>8. PendingIsRecent'
      <3>1. Len(queue') = Len(queue) + 1
        BY <1>4, <2>1
      <3> SUFFICES ASSUME NEW r \in Runs
                   PROVE  Len(batch[r]) + (Len(queue) + 1) <= (accepted + 1) - forgotten
        BY <1>1, <2>1, <3>1 DEF PendingIsRecent
      <3>2. Len(batch[r]) + Len(queue) <= accepted - forgotten
        BY DEF IInv, PendingIsRecent
      <3>3. Len(batch[r]) \in Nat
        BY <1>5
      <3>4. Len(queue) \in Nat /\ accepted \in Nat /\ forgotten \in Nat
        BY <1>5
      <3> QED
        BY <3>2, <3>3, <3>4, OneMoreFits
    <2>9. DisabledHoldsNothing'
      BY <1>1, <1>10 DEF DisabledHoldsNothing
    <2> QED
      BY <1>3, <2>2, <2>3, <2>4, <2>6, <2>7, <2>8, <2>9 DEF IInv
  <1>11. ~enabled \/ (enabled /\ Len(queue) + 1 >= BatchSize)
                   \/ (enabled /\ Len(queue) + 1 < BatchSize)
    BY DEF Enqueue
  <1> QED
    BY <1>8, <1>9, <1>10, <1>11

(* The timer callback: the timer is cleared and flush() is called.          *)
LEMMA TimerFiresPreservesIInv ==
  ASSUME IInv, LateOK', TimerFires
  PROVE  IInv'
  <1>1. /\ timer # NoTimer /\ timer' = NoTimer /\ Flush(queue)
        /\ UNCHANGED <<enabled, backoffMs, accepted, forgotten, delivered, logged, failures>>
    BY DEF TimerFires, outsideVars
  <1>2. enabled
    BY <1>1 DEF IInv, DisabledHoldsNothing
  <1>3. Placement' /\ MemoryTypeOK'
    <2>1. /\ queue \in Seq(Nat) /\ accepted' \in Nat /\ accepted <= accepted'
          /\ accepted' - Len(queue) = accepted - Len(queue)
      BY <1>1, IInvTypes
    <2>2. \A i \in 1..Len(queue) : queue[i] = accepted' - Len(queue) + i
      BY <1>1 DEF IInv, QueueInOrder
    <2> QED
      BY <1>1, <1>2, <2>1, <2>2, FlushKeepsPlacement
  <1>4. TypeOK'
    BY <1>1, <1>3 DEF IInv, TypeOK, MemoryTypeOK, LateOK
  <1>5. LogNeverAhead' /\ DisabledHoldsNothing'
    BY <1>1, <1>2 DEF IInv, LogNeverAhead, DisabledHoldsNothing
  <1> QED
    BY <1>3, <1>4, <1>5 DEF IInv, Placement

(* A restart forgets everything accepted, and holds nothing.                *)
LEMMA RestartPreservesIInv ==
  ASSUME IInv, LateOK', Restart
  PROVE  IInv'
  <1> USE ExporterConstants DEF Restart
  <1>0. logged' \subseteq delivered
    BY IInvTypes DEF IInv, StoredIsDelivered
  <1>1. \A r \in Runs : pc'[r] = "idle" /\ batch'[r] = <<>> /\ Len(batch'[r]) = 0
    OBVIOUS
  <1>2. TypeOK'
    <2>1. <<>> \in Seq(Nat)
      OBVIOUS
    <2>2. enabled' \in BOOLEAN /\ flushing' \in BOOLEAN
      OBVIOUS
    <2>3. /\ queue' \in Seq(Nat)
          /\ timer' \in {NoTimer} \cup FlushInterval..MaxBackoff
          /\ backoffMs' \in FlushInterval..MaxBackoff
          /\ failures' \in 0..MaxFailures
      BY <2>1
    <2>4. /\ pc' \in [Runs -> RunStates] /\ batch' \in [Runs -> Seq(Nat)]
          /\ \A r \in Runs : Len(batch'[r]) <= BatchSize
      BY <1>1, <2>1 DEF RunStates
    <2>5. /\ accepted' \in 0..MaxRecords /\ forgotten' \in 0..accepted'
          /\ delivered' \subseteq 1..accepted' /\ logged' \subseteq 1..accepted'
      BY <1>0, IInvTypes
    <2> QED
      BY <2>2, <2>3, <2>4, <2>5 DEF TypeOK, LateOK
  <1>3. SingleFlight' /\ BatchHeld' /\ StoredIsDelivered'
    BY <1>1 DEF SingleFlight, BatchHeld, StoredIsDelivered
  <1>4. QueueInOrder' /\ BatchInOrder'
    BY <1>1 DEF QueueInOrder, BatchInOrder
  <1>5. PendingIsRecent' /\ PrefixLogged'
    <2>1. accepted' = accepted /\ forgotten' = accepted /\ Len(queue') = 0 /\ accepted \in Nat
      BY IInvTypes
    <2> QED
      BY <1>1, <2>1 DEF PendingIsRecent, PrefixLogged
  <1>6. LogNeverAhead' /\ DisabledHoldsNothing'
    BY <1>0 DEF LogNeverAhead, DisabledHoldsNothing
  <1> QED
    BY <1>2, <1>3, <1>4, <1>5, <1>6 DEF IInv

(* A POST that was given up is stored, or comes to nothing.                 *)
LEMMA LatePreservesIInv ==
  ASSUME IInv, LateOK', NEW p \in Posts, LateStores(p) \/ LateFails(p)
  PROVE  IInv'
  <1>1. /\ UNCHANGED <<enabled, queue, flushing, timer, backoffMs, pc, batch,
                       accepted, forgotten, logged, failures>>
        /\ delivered' \in {delivered, delivered \cup Elements(late[p])}
    BY DEF LateStores, LateFails, exporterVars
  <1>2. Elements(late[p]) \subseteq 1..accepted
    <2>1. LateBlock(late[p])
      BY DEF IInv, LateOK
    <2>2. late[p] # <<>>
      BY DEF LateStores, LateFails
    <2> QED
      BY <2>1, <2>2 DEF LateBlock, Elements
  <1>3. delivered \subseteq delivered' /\ delivered' \subseteq 1..accepted
    BY <1>1, <1>2, IInvTypes
  <1>4. TypeOK'
    BY <1>1, <1>3 DEF IInv, TypeOK, LateOK
  <1>5. SingleFlight' /\ BatchHeld' /\ PrefixLogged'
    BY <1>1 DEF IInv, SingleFlight, BatchHeld, PrefixLogged
  <1>6. QueueInOrder' /\ BatchInOrder' /\ PendingIsRecent'
    BY <1>1 DEF IInv, QueueInOrder, BatchInOrder, PendingIsRecent
  <1>7. StoredIsDelivered'
    BY <1>1, <1>3 DEF IInv, StoredIsDelivered
  <1>8. LogNeverAhead' /\ DisabledHoldsNothing'
    BY <1>1, <1>3 DEF IInv, LogNeverAhead, DisabledHoldsNothing
  <1> QED
    BY <1>4, <1>5, <1>6, <1>7, <1>8 DEF IInv

-----------------------------------------------------------------------------
(* Every step of a run that is past its guard, await by await.              *)
LEMMA RunStepPreservesIInv ==
  ASSUME IInv, LateOK', NEW r \in Runs, RunStep(r)
  PROVE  IInv'
  <1>1. CASE SignOk(r)
    <2>1. /\ pc[r] = "signing" /\ pc' = [pc EXCEPT ![r] = "posting"]
          /\ UNCHANGED <<enabled, queue, flushing, timer, batch, accepted, forgotten,
                         delivered, logged>>
          /\ backoffMs' \in FlushInterval..MaxBackoff /\ failures' \in 0..MaxFailures
          /\ delivered \subseteq 1..accepted
      BY <1>1 DEF SignOk, outsideVars, IInv, TypeOK
    <2> QED
      BY <2>1, AdvancePreservesIInv
  <1>2. CASE SignFails(r)
    BY <1>2, IInvTypes, FailPreservesIInv DEF SignFails
  <1>3. CASE ServerStores(r)
    <2>1. delivered' = delivered \cup Elements(batch[r]) /\ delivered' \subseteq 1..accepted
      BY <1>3, IInvTypes, BatchHoldsAccepted DEF ServerStores
    <2>2. /\ pc[r] = "posting" /\ pc' = [pc EXCEPT ![r] = "stored"]
          /\ UNCHANGED <<enabled, queue, flushing, timer, batch, accepted, forgotten, logged>>
          /\ backoffMs' \in FlushInterval..MaxBackoff /\ failures' \in 0..MaxFailures
      BY <1>3 DEF ServerStores, IInv, TypeOK
    <2> QED
      BY <2>1, <2>2, AdvancePreservesIInv
  <1>4. CASE PostRefused(r)
    BY <1>4, IInvTypes, FailPreservesIInv DEF PostRefused
  <1>10. CASE PostBreaks(r)
    BY <1>10, IInvTypes, FailPreservesIInv DEF PostBreaks
  <1>5. CASE ResponseOk(r)
    <2>1. Elements(batch[r]) \subseteq delivered /\ delivered \subseteq 1..accepted
      BY <1>5, IInvTypes DEF ResponseOk, IInv, StoredIsDelivered
    <2>2. /\ pc[r] = "stored" /\ pc' = [pc EXCEPT ![r] = "logging"]
          /\ UNCHANGED <<enabled, queue, flushing, timer, batch, accepted, forgotten,
                         delivered, logged>>
          /\ backoffMs' \in FlushInterval..MaxBackoff /\ failures' \in 0..MaxFailures
      BY <1>5, ExporterConstants DEF ResponseOk
    <2> QED
      BY <2>1, <2>2, AdvancePreservesIInv
  <1>6. CASE ResponseLost(r)
    BY <1>6, IInvTypes, FailPreservesIInv DEF ResponseLost
  <1>7. CASE LogOk(r)
    <2>1. Elements(batch[r]) \subseteq delivered
      BY <1>7 DEF LogOk, IInv, StoredIsDelivered
    <2> QED
      BY <1>7, <2>1, FinishPreservesIInv DEF LogOk
  <1>8. CASE LogFails(r)
    <2>1. Elements(batch[r]) \subseteq delivered
      BY <1>8 DEF LogFails, IInv, StoredIsDelivered
    <2> QED
      BY <1>8, <2>1, IInvTypes, FailPreservesIInv DEF LogFails
  <1>9. CASE Wakes(r)
    <2>1. batch[r] = <<>> /\ Elements(batch[r]) = {}
      BY <1>9 DEF Wakes, IInv, BatchHeld, Elements
    <2>2. batch' = [batch EXCEPT ![r] = <<>>] /\ logged' = logged \cup Elements(batch[r])
      BY <1>9, <2>1, IInvTypes DEF Wakes, outsideVars
    <2> QED
      BY <1>9, <2>1, <2>2, FinishPreservesIInv DEF Wakes, outsideVars
  <1> QED
    BY <1>1, <1>2, <1>3, <1>4, <1>5, <1>6, <1>7, <1>8, <1>9, <1>10 DEF RunStep

(* No step makes anything but a block of records a POST that was given up.  *)
LEMMA LateStays ==
  ASSUME IInv, [Next]_vars
  PROVE  LateOK'
  <1>1. /\ accepted \in Nat /\ forgotten \in Nat /\ forgotten <= accepted
        /\ late \in [Posts -> Seq(Nat)] /\ batch \in [Runs -> Seq(Nat)]
        /\ <<>> \in Seq(Nat)
    BY IInvTypes DEF IInv, LateOK
  <1>2. ASSUME UNCHANGED late, accepted' \in Nat, accepted <= accepted',
               delivered \subseteq delivered',
               forgotten' = forgotten \/ (forgotten' \in Nat /\ accepted <= forgotten')
        PROVE  LateOK'
    BY <1>1, <1>2, LateBlocksStay
  <1>3. ASSUME NEW r \in Runs, pc[r] = "posting", Outlives(r),
               UNCHANGED <<accepted, delivered>>, forgotten' \in {forgotten, accepted}
        PROVE  LateOK'
    <2>1. PICK p \in Posts : late' = [late EXCEPT ![p] = batch[r]]
      BY <1>3 DEF Outlives
    <2>2. late' \in [Posts -> Seq(Nat)]
      BY <1>1, <2>1
    <2>3. \A o \in Posts : late'[o] = late[o] \/ late'[o] = batch[r]
      BY <1>1, <2>1
    <2> QED
      BY <1>1, <1>3, <2>2, <2>3, LateBlocksStay
  <1>4. ASSUME NEW p \in Posts, LateStores(p) \/ LateFails(p)
        PROVE  LateOK'
    <2>1. /\ late' = [late EXCEPT ![p] = <<>>]
          /\ UNCHANGED <<accepted, forgotten>> /\ delivered \subseteq delivered'
      BY <1>4 DEF LateStores, LateFails
    <2>2. late' \in [Posts -> Seq(Nat)]
      BY <1>1, <2>1
    <2>3. \A o \in Posts : late'[o] \in {late[o], <<>>}
      BY <1>1, <2>1
    <2> QED
      BY <1>1, <2>1, <2>2, <2>3, LateBlocksStay
  <1>5. CASE Enqueue
    BY <1>1, <1>2, <1>5 DEF Enqueue
  <1>6. CASE Restart
    <2>1. accepted' = accepted /\ delivered' = delivered /\ forgotten' = accepted
      BY <1>6 DEF Restart
    <2>2. UNCHANGED late \/ \E r \in Runs : pc[r] = "posting" /\ Outlives(r)
      BY <1>6 DEF Restart
    <2> QED
      BY <1>1, <1>2, <1>3, <2>1, <2>2
  <1>7. ASSUME NEW r \in Runs, RunStep(r) PROVE LateOK'
    <2>1. CASE PostBreaks(r)
      BY <1>3, <2>1 DEF PostBreaks, Fail
    <2>2. CASE ~PostBreaks(r)
      <3>1. UNCHANGED <<late, accepted, forgotten>> /\ delivered \subseteq delivered'
        BY <1>7, <2>2 DEF RunStep, SignOk, SignFails, ServerStores, PostRefused,
           ResponseOk, ResponseLost, LogOk, LogFails, Wakes, Fail, outsideVars
      <3> QED
        BY <1>1, <1>2, <3>1
    <2> QED
      BY <2>1, <2>2
  <1>8. CASE TimerFires \/ UNCHANGED vars
    BY <1>1, <1>2, <1>8 DEF TimerFires, outsideVars, vars
  <1> QED
    BY <1>4, <1>5, <1>6, <1>7, <1>8 DEF Next

(* The invariant is inductive: every step of the exporter preserves it.     *)
THEOREM StepPreservesIInv == IInv /\ [Next]_vars => IInv'
  <1> SUFFICES ASSUME IInv, [Next]_vars PROVE IInv'
    OBVIOUS
  <1>0. LateOK'
    BY LateStays
  <1>1. CASE Enqueue
    BY <1>0, <1>1, EnqueuePreservesIInv
  <1>2. CASE TimerFires
    BY <1>0, <1>2, TimerFiresPreservesIInv
  <1>3. CASE Restart
    BY <1>0, <1>3, RestartPreservesIInv
  <1>4. ASSUME NEW r \in Runs, RunStep(r) PROVE IInv'
    BY <1>0, <1>4, RunStepPreservesIInv
  <1>5. ASSUME NEW p \in Posts, LateStores(p) \/ LateFails(p) PROVE IInv'
    BY <1>0, <1>5, LatePreservesIInv
  <1>6. CASE UNCHANGED vars
    BY <1>6 DEF vars, IInv, TypeOK, SingleFlight, BatchHeld, QueueInOrder, BatchInOrder,
                PendingIsRecent, PrefixLogged, StoredIsDelivered, LogNeverAhead,
                LateOK, LateBlock, DisabledHoldsNothing
  <1> QED
    BY <1>1, <1>2, <1>3, <1>4, <1>5, <1>6 DEF Next

(* The invariant holds in every reachable state.                            *)
THEOREM Invariance == Spec => []IInv
  BY InitEstablishesIInv, StepPreservesIInv, PTL DEF Spec

-----------------------------------------------------------------------------
(* Every variable keeps its type; in particular no batch exceeds BatchSize  *)
(* and every delay stays between the flush interval and the cap.            *)
THEOREM TypeCorrect == Spec => []TypeOK
  <1>1. IInv => TypeOK
    BY DEF IInv
  <1> QED
    BY <1>1, Invariance, PTL

(* Two batches are never in flight together, whatever calls flush().        *)
THEOREM AtMostOneFlight == Spec => []SingleFlight
  <1>1. IInv => SingleFlight
    BY DEF IInv
  <1> QED
    BY <1>1, Invariance, PTL

(* A "success" row of export_log is only written for stored records.        *)
THEOREM LogIsTruthful == Spec => []LogNeverAhead
  <1>1. IInv => LogNeverAhead
    BY DEF IInv
  <1> QED
    BY <1>1, Invariance, PTL

(* The batch in flight and the queue are the latest records, in order.      *)
THEOREM OrderIsKept == Spec => []FifoOrder
  <1>1. ASSUME IInv PROVE FifoOrder
    <2> SUFFICES ASSUME NEW r \in Runs, NEW i \in 1..Len(batch[r] \o queue)
                 PROVE  (batch[r] \o queue)[i] = accepted - Len(batch[r] \o queue) + i
      BY DEF FifoOrder
    <2> DEFINE b == Len(batch[r])
               n == Len(queue)
    <2>1. b \in Nat /\ n \in Nat /\ accepted \in Nat
      BY <1>1, IInvTypes
    <2>2. /\ Len(batch[r] \o queue) = b + n
          /\ \A j \in 1..b : (batch[r] \o queue)[j] = batch[r][j]
          /\ \A j \in 1..n : (batch[r] \o queue)[b + j] = queue[j]
      BY <1>1, IInvTypes, ConcatIsPointwise
    <2>3. /\ \A j \in 1..b : batch[r][j] = accepted - n - b + j
          /\ \A j \in 1..n : queue[j] = accepted - n + j
      BY <1>1 DEF IInv, BatchInOrder, QueueInOrder
    <2>4. i \in Int /\ i \in 1..(b + n)
      BY <2>1, <2>2
    <2> HIDE DEF b, n
    <2>5. CASE i <= b
      <3>1. i \in 1..b
        BY <2>1, <2>4, <2>5
      <3>2. (batch[r] \o queue)[i] = accepted - n - b + i
        BY <2>2, <2>3, <3>1
      <3>3. Len(batch[r] \o queue) = b + n
        BY <2>2
      <3>4. accepted - n - b + i = accepted - (b + n) + i
        BY <2>1, <2>4, SameOffset
      <3> QED
        BY <3>2, <3>3, <3>4
    <2>6. CASE i > b
      <3>1. i - b \in 1..n /\ b + (i - b) = i
        BY <2>1, <2>4, <2>6
      <3>2. (batch[r] \o queue)[i] = accepted - n + (i - b)
        BY <2>2, <2>3, <3>1
      <3> QED
        BY <2>1, <2>2, <2>4, <3>2
    <2>7. i <= b \/ i > b
      BY <2>1, <2>4
    <2> QED
      BY <2>5, <2>6, <2>7
  <1> QED
    BY <1>1, Invariance, PTL

(* A record that is no longer held is in the export log or was let go of    *)
(* by a stop or a disabled exporter: no failure path loses a record.        *)
THEOREM NothingIsDropped == Spec => []NoRecordDropped
  <1>1. ASSUME IInv PROVE NoRecordDropped
    <2> SUFFICES ASSUME NEW m \in (forgotten + 1)..accepted
                 PROVE  \/ m \in Elements(queue)
                        \/ \E r \in Runs : m \in Elements(batch[r])
                        \/ m \in logged
      BY DEF NoRecordDropped
    <2>1. \E r \in Runs : pc[r] # "idle" \/ ~flushing
      BY <1>1, ExporterConstants DEF IInv, SingleFlight, TypeOK
    <2>2. PICK r \in Runs : pc[r] # "idle" \/ ~flushing
      BY <2>1
    <2> DEFINE b == Len(batch[r])
               n == Len(queue)
    <2>3. /\ b \in Nat /\ n \in Nat /\ accepted \in Nat /\ forgotten \in Nat
          /\ m \in Int
      BY <1>1, IInvTypes
    <2>4. /\ \A j \in 1..b : batch[r][j] = accepted - n - b + j
          /\ \A j \in 1..n : queue[j] = accepted - n + j
          /\ (forgotten + 1)..(accepted - n - b) \subseteq logged
      BY <1>1, <2>2 DEF IInv, BatchInOrder, QueueInOrder, PrefixLogged
    <2>5. CASE m > accepted - n
      <3>1. m - (accepted - n) \in 1..n /\ accepted - n + (m - (accepted - n)) = m
        <4> HIDE DEF b, n
        <4> QED
          BY <2>3, <2>5
      <3>2. queue[m - (accepted - n)] = m
        BY <2>4, <3>1
      <3> QED
        BY <3>1, <3>2 DEF Elements
    <2>6. CASE m <= accepted - n /\ m > accepted - n - b
      <3> DEFINE j == m - (accepted - n - b)
      <3>1. j \in 1..b /\ accepted - n - b + j = m
        <4> HIDE DEF b, n
        <4> QED
          BY <2>3, <2>6
      <3>2. batch[r][j] = m
        BY <2>4, <3>1
      <3> HIDE DEF j
      <3> QED
        BY <3>1, <3>2 DEF Elements
    <2>7. CASE m <= accepted - n - b
      <3>1. m \in (forgotten + 1)..(accepted - n - b)
        <4> HIDE DEF b, n
        <4> QED
          BY <2>3, <2>7
      <3> QED
        BY <2>4, <3>1
    <2>8. m > accepted - n \/ (m <= accepted - n /\ m > accepted - n - b)
                          \/ m <= accepted - n - b
      <3> HIDE DEF b, n
      <3> QED
        BY <2>3
    <2> QED
      BY <2>5, <2>6, <2>7, <2>8
  <1> QED
    BY <1>1, Invariance, PTL

-----------------------------------------------------------------------------
(* No interleaving of size trigger, timer and back-off strands the queue.   *)
THEOREM QueueIsNeverStranded == Spec => []NoStranding
  <1>1. Init => NoStranding
    BY DEF Init, NoStranding
  <1>2. ASSUME IInv, NoStranding, [Next]_vars PROVE NoStranding'
    <2>1. \A d \in FlushInterval..MaxBackoff : d # NoTimer
      BY ExporterConstants DEF NoTimer
    <2>2. backoffMs # NoTimer
      BY <1>2, <2>1 DEF IInv, TypeOK
    <2>3. CASE Enqueue
      <3>1. CASE ~enabled
        BY <2>3, <3>1, <1>2 DEF Enqueue, NoStranding
      <3>2. CASE enabled /\ Flush(Append(queue, accepted + 1))
        <4>1. Append(queue, accepted + 1) # <<>>
          <5>1. accepted + 1 \in Nat /\ queue \in Seq(Nat)
            BY <1>2, IInvTypes
          <5> QED
            BY <5>1
        <4>2. flushing'
          BY <3>2, <4>1 DEF Flush
        <4> QED
          BY <4>2 DEF NoStranding
      <3>3. CASE enabled /\ timer' = ScheduledTimer(flushing, backoffMs) /\ flushing' = flushing
        BY <2>2, <3>3 DEF ScheduledTimer, NoStranding
      <3> QED
        BY <2>3, <3>1, <3>2, <3>3 DEF Enqueue
    <2>4. CASE TimerFires
      <3>1. Flush(queue) /\ enabled' = enabled
        BY <2>4 DEF TimerFires
      <3> QED
        BY <3>1 DEF Flush, NoStranding
    <2>5. CASE Restart
      BY <2>5 DEF Restart, NoStranding
    <2>6. ASSUME NEW r \in Runs, RunStep(r) PROVE NoStranding'
      <3>1. flushing = TRUE
        <4>1. pc[r] # "idle"
          BY <2>6 DEF RunStep, SignOk, SignFails, ServerStores, PostRefused, PostBreaks,
                      ResponseOk, ResponseLost, LogOk, LogFails, Wakes
        <4> QED
          BY <1>2, <4>1, OthersAreIdle
      <3>2. CASE Finish(r)
        <4>1. timer' = ScheduledTimer(FALSE, backoffMs)
          BY <3>2 DEF Finish
        <4>2. timer' # NoTimer
          BY <2>2, <4>1 DEF ScheduledTimer
        <4> QED
          BY <4>2 DEF NoStranding
      <3>3. CASE flushing' = flushing
        BY <3>1, <3>3 DEF NoStranding
      <3> QED
        BY <2>6, <3>2, <3>3 DEF RunStep, SignOk, SignFails, ServerStores, PostRefused,
                                PostBreaks, ResponseOk, ResponseLost, LogOk, LogFails, Wakes, Fail
    <2>7. CASE UNCHANGED vars
      BY <1>2, <2>7 DEF vars, NoStranding
    <2>8. ASSUME NEW p \in Posts, LateStores(p) \/ LateFails(p) PROVE NoStranding'
      BY <1>2, <2>8 DEF LateStores, LateFails, exporterVars, NoStranding
    <2> QED
      BY <1>2, <2>3, <2>4, <2>5, <2>6, <2>7, <2>8 DEF Next
  <1> QED
    BY <1>1, <1>2, Invariance, PTL DEF Spec

-----------------------------------------------------------------------------
(* A call of flush() up to its first await touches no POST.                 *)
LEMMA FlushLeavesPosts ==
  ASSUME IInv, NEW q, Flush(q) \/ UNCHANGED <<pc, batch>>
  PROVE  \A s \in Runs : /\ pc'[s] = "posting" <=> pc[s] = "posting"
                         /\ pc[s] = "posting" => batch'[s] = batch[s]
  <1>1. pc \in [Runs -> RunStates] /\ batch \in [Runs -> Seq(Nat)]
    BY IInvTypes
  <1>2. CASE UNCHANGED <<pc, batch>>
    BY <1>2
  <1>3. ASSUME NEW r \in Runs, pc[r] = "idle", pc' = [pc EXCEPT ![r] = "signing"],
               batch' = [batch EXCEPT ![r] = SubSeq(q, 1, TakeCount(q))]
        PROVE  \A s \in Runs : /\ pc'[s] = "posting" <=> pc[s] = "posting"
                               /\ pc[s] = "posting" => batch'[s] = batch[s]
    BY <1>1, <1>3
  <1> QED
    BY <1>2, <1>3 DEF Flush

(* A step that changes no POST leaves the blocks on the wire as they are.   *)
LEMMA PostsStay ==
  ASSUME late' = late,
         \A s \in Runs : /\ pc'[s] = "posting" <=> pc[s] = "posting"
                         /\ pc[s] = "posting" => batch'[s] = batch[s]
  PROVE  PostsUnderway' = PostsUnderway
  <1> DEFINE on == {s \in Runs : pc[s] = "posting"}
  <1>1. PostsUnderway = {Elements(batch[s]) : s \in on}
                          \cup {Elements(late[p]) : p \in {p \in Posts : late[p] # <<>>}}
    BY DEF PostsUnderway
  <1>2. {s \in Runs : pc'[s] = "posting"} = on
    OBVIOUS
  <1>3. PostsUnderway' = {Elements(batch'[s]) : s \in on}
                          \cup {Elements(late[p]) : p \in {p \in Posts : late[p] # <<>>}}
    BY <1>2 DEF PostsUnderway
  <1>4. \A s \in on : batch'[s] = batch[s]
    OBVIOUS
  <1> HIDE DEF on
  <1>5. {Elements(batch'[s]) : s \in on} = {Elements(batch[s]) : s \in on}
    BY <1>4
  <1> QED
    BY <1>1, <1>3, <1>5

(* A run that starts its POST sends the block of records it holds.          *)
LEMMA PostingIsSending ==
  ASSUME IInv, NEW r \in Runs, SignOk(r)
  PROVE  Feed!Send
  <1> DEFINE b == Len(batch[r])
             n == Len(queue)
             first == accepted - n - b + 1
             last == accepted - n
  <1>1. /\ b \in Nat /\ n \in Nat /\ accepted \in Nat /\ forgotten \in Nat
        /\ b <= BatchSize /\ BatchSize \in Nat
    BY IInvTypes, ExporterConstants
  <1>2. b # 0
    <2>1. batch[r] # <<>>
      BY DEF SignOk, IInv, BatchHeld
    <2> QED
      BY <2>1, IInvTypes, EmptyHasLengthZero
  <1>3. b + n <= accepted - forgotten
    BY DEF IInv, PendingIsRecent
  <1>4. /\ first \in (forgotten + 1)..accepted /\ last \in (forgotten + 1)..accepted
        /\ first <= last /\ last < first + BatchSize
        /\ first - 1 = accepted - n - b /\ first \in Int /\ last \in Int
    <2> HIDE DEF b, n
    <2> QED
      BY <1>1, <1>2, <1>3
  <1>5. (forgotten + 1)..(first - 1) \subseteq delivered
    <2>1. (forgotten + 1)..(accepted - n - b) \subseteq logged /\ logged \subseteq delivered
      BY DEF SignOk, IInv, PrefixLogged, LogNeverAhead
    <2> HIDE DEF first
    <2> QED
      BY <1>4, <2>1
  <1>6. Elements(batch[r]) = first..last
    <2>1. \A i \in 1..b : batch[r][i] = accepted - n - b + i
      BY DEF IInv, BatchInOrder
    <2>2. ASSUME NEW i \in 1..b PROVE batch[r][i] \in first..last
      <3>1. batch[r][i] = accepted - n - b + i
        BY <2>1
      <3> HIDE DEF b, n
      <3> QED
        BY <1>1, <3>1
    <2>3. ASSUME NEW m \in first..last PROVE \E i \in 1..b : batch[r][i] = m
      <3> DEFINE i == m - (accepted - n - b)
      <3>1. i \in 1..b /\ accepted - n - b + i = m
        <4> HIDE DEF b, n
        <4> QED
          BY <1>1
      <3> HIDE DEF i
      <3>2. batch[r][i] = m
        BY <2>1, <3>1
      <3> QED
        BY <3>1, <3>2
    <2> HIDE DEF first, last
    <2> QED
      BY <2>2, <2>3 DEF Elements
  <1> HIDE DEF first, last
  <1>7. PostsUnderway' = PostsUnderway \cup {first..last}
    <2>1. \A s \in Runs : pc'[s] = "posting" <=> pc[s] = "posting" \/ s = r
      BY IInvTypes DEF SignOk
    <2>2. /\ batch' = batch /\ late' = late
      BY DEF SignOk, outsideVars
    <2> DEFINE on == {s \in Runs : pc[s] = "posting"}
    <2>3. {s \in Runs : pc'[s] = "posting"} = on \cup {r}
      BY <2>1
    <2>4. PostsUnderway = {Elements(batch[s]) : s \in on}
                            \cup {Elements(late[p]) : p \in {p \in Posts : late[p] # <<>>}}
      BY DEF PostsUnderway
    <2>5. PostsUnderway' = {Elements(batch[s]) : s \in on \cup {r}}
                            \cup {Elements(late[p]) : p \in {p \in Posts : late[p] # <<>>}}
      BY <2>2, <2>3 DEF PostsUnderway
    <2> HIDE DEF on
    <2>6. {Elements(batch[s]) : s \in on \cup {r}}
            = {Elements(batch[s]) : s \in on} \cup {first..last}
      BY <1>6
    <2> QED
      BY <2>4, <2>5, <2>6
  <1>8. UNCHANGED <<accepted, forgotten, delivered>>
    BY DEF SignOk, outsideVars
  <1> QED
    BY <1>4, <1>5, <1>7, <1>8 DEF Feed!Send

(* Any other step of a run takes its block off the wire, stored or not, or  *)
(* leaves it there for the overseas API to decide.                          *)
LEMMA RunStepOfFeed ==
  ASSUME IInv, NEW r \in Runs, RunStep(r), ~SignOk(r)
  PROVE  Feed!Arrive \/ Feed!Lose
  <1>1. pc \in [Runs -> RunStates] /\ batch \in [Runs -> Seq(Nat)]
    BY IInvTypes
  <1>2. UNCHANGED <<accepted, forgotten>>
    BY DEF RunStep, SignFails, ServerStores, PostRefused, PostBreaks, ResponseOk,
       ResponseLost, LogOk, LogFails, Wakes, Fail, outsideVars
  <1>3. CASE ServerStores(r)
    <2> DEFINE block == Elements(batch[r])
               others == {Elements(batch[s]) : s \in {s \in Runs : pc[s] = "posting" /\ s # r}}
               lates == {Elements(late[p]) : p \in {p \in Posts : late[p] # <<>>}}
    <2>1. /\ pc[r] = "posting" /\ pc' = [pc EXCEPT ![r] = "stored"]
          /\ UNCHANGED <<batch, late>> /\ delivered' = delivered \cup block
      BY <1>3 DEF ServerStores
    <2>2. \A s \in Runs : pc'[s] = "posting" <=> pc[s] = "posting" /\ s # r
      BY <1>1, <2>1
    <2>3. PostsUnderway' = others \cup lates
      BY <2>1, <2>2 DEF PostsUnderway, Elements
    <2>4. PostsUnderway = others \cup lates \cup {block}
      BY <2>1 DEF PostsUnderway
    <2> HIDE DEF others, lates, block
    <2>5. block \in PostsUnderway /\ PostsUnderway' \in {PostsUnderway, PostsUnderway \ {block}}
      BY <2>3, <2>4
    <2> QED
      BY <1>2, <2>1, <2>5 DEF Feed!Arrive
  <1>4. CASE ~ServerStores(r)
    <2>1. delivered' = delivered
      BY <1>4 DEF RunStep, SignFails, PostRefused, PostBreaks, ResponseOk,
         ResponseLost, LogOk, LogFails, Wakes, outsideVars
    <2>2. ASSUME NEW s \in Runs, pc'[s] = "posting"
          PROVE  pc[s] = "posting" /\ batch'[s] = batch[s]
      <3>1. \E x \in RunStates \ {"posting"} : pc' = [pc EXCEPT ![r] = x]
        BY <1>4 DEF RunStep, SignFails, PostRefused, PostBreaks, ResponseOk,
           ResponseLost, LogOk, LogFails, Wakes, Fail, Finish, RunStates
      <3>2. s # r /\ pc[s] = "posting"
        BY <1>1, <2>2, <3>1
      <3>3. batch' = batch \/ batch' = [batch EXCEPT ![r] = <<>>]
        BY <1>4 DEF RunStep, SignFails, PostRefused, PostBreaks, ResponseOk,
           ResponseLost, LogOk, LogFails, Wakes, Fail, Finish
      <3> QED
        BY <1>1, <3>2, <3>3
    <2>3. ASSUME NEW p \in Posts, late'[p] # <<>>
          PROVE  \/ late'[p] = late[p]
                 \/ pc[r] = "posting" /\ late'[p] = batch[r]
      <3>1. CASE PostBreaks(r)
        <4>1. late \in [Posts -> Seq(Nat)]
          BY DEF IInv, LateOK
        <4> QED
          BY <3>1, <4>1 DEF PostBreaks, Outlives
      <3>2. CASE ~PostBreaks(r)
        BY <1>4, <3>2 DEF RunStep, SignFails, PostRefused, ResponseOk,
           ResponseLost, LogOk, LogFails, Wakes, outsideVars
      <3> QED
        BY <3>1, <3>2
    <2>4. PostsUnderway' \subseteq PostsUnderway
      BY <2>2, <2>3 DEF PostsUnderway, Elements
    <2> QED
      BY <1>2, <2>1, <2>4 DEF Feed!Lose
  <1> QED
    BY <1>3, <1>4

(* What happens to a POST that was given up happens to its block.           *)
LEMMA LateStepOfFeed ==
  ASSUME IInv, NEW p \in Posts, LateStores(p) \/ LateFails(p)
  PROVE  Feed!Arrive \/ Feed!Lose
  <1> DEFINE block == Elements(late[p])
             runs == {Elements(batch[s]) : s \in {s \in Runs : pc[s] = "posting"}}
             others == {Elements(late[o]) : o \in {o \in Posts : late[o] # <<>> /\ o # p}}
  <1>1. /\ late[p] # <<>> /\ late' = [late EXCEPT ![p] = <<>>]
        /\ UNCHANGED <<pc, batch, accepted, forgotten>>
    BY DEF LateStores, LateFails, exporterVars
  <1>2. \A o \in Posts : late'[o] # <<>> <=> late[o] # <<>> /\ o # p
    BY <1>1 DEF IInv, LateOK
  <1>3. \A o \in Posts : o # p => late'[o] = late[o]
    BY <1>1 DEF IInv, LateOK
  <1>4. PostsUnderway' = runs \cup others
    BY <1>1, <1>2, <1>3 DEF PostsUnderway, Elements
  <1>5. PostsUnderway = runs \cup others \cup {block}
    BY <1>1 DEF PostsUnderway
  <1>6. delivered' \in {delivered, delivered \cup block}
    BY DEF LateStores, LateFails
  <1> HIDE DEF runs, others, block
  <1>7. /\ block \in PostsUnderway /\ PostsUnderway' \subseteq PostsUnderway
        /\ PostsUnderway' \in {PostsUnderway, PostsUnderway \ {block}}
    BY <1>4, <1>5
  <1> QED
    BY <1>1, <1>6, <1>7 DEF Feed!Arrive, Feed!Lose

(* The exporter implements the ordered feed: its initial states are the     *)
(* feed's, and each of its steps is a step of the feed or changes nothing   *)
(* the feed shows.                                                          *)
THEOREM ExporterImplementsFeed == Spec => ImplementsFeed
  <1>1. Init => Feed!FeedInit
    <2> SUFFICES ASSUME Init PROVE Feed!FeedInit
      OBVIOUS
    <2>1. (\A r \in Runs : pc[r] # "posting") /\ (\A p \in Posts : late[p] = <<>>)
      BY DEF Init
    <2>2. PostsUnderway = {}
      BY <2>1 DEF PostsUnderway
    <2> QED
      BY <2>2 DEF Init, Feed!FeedInit
  <1>2. ASSUME IInv, [Next]_vars PROVE [Feed!FeedNext]_(Feed!feedVars)
    <2>1. CASE Enqueue
      <3>1. UNCHANGED PostsUnderway
        <4>1. late' = late
          BY <2>1 DEF Enqueue
        <4>2. \A s \in Runs : /\ pc'[s] = "posting" <=> pc[s] = "posting"
                              /\ pc[s] = "posting" => batch'[s] = batch[s]
          BY <1>2, <2>1, FlushLeavesPosts DEF Enqueue
        <4> QED
          BY <4>1, <4>2, PostsStay
      <3>2. Feed!Accept
        BY <2>1, <3>1 DEF Enqueue, Feed!Accept
      <3> QED
        BY <3>2 DEF Feed!FeedNext
    <2>2. CASE TimerFires
      <3>1. UNCHANGED PostsUnderway
        <4>1. late' = late
          BY <2>2 DEF TimerFires, outsideVars
        <4>2. \A s \in Runs : /\ pc'[s] = "posting" <=> pc[s] = "posting"
                              /\ pc[s] = "posting" => batch'[s] = batch[s]
          BY <1>2, <2>2, FlushLeavesPosts DEF TimerFires
        <4> QED
          BY <4>1, <4>2, PostsStay
      <3> QED
        BY <2>2, <3>1 DEF TimerFires, outsideVars, Feed!feedVars
    <2>3. CASE Restart
      <3>1. \A s \in Runs : pc'[s] # "posting"
        BY <2>3 DEF Restart
      <3>2. \A p \in Posts : \/ late'[p] = late[p]
                             \/ \E r \in Runs : pc[r] = "posting" /\ late'[p] = batch[r]
        <4>1. late \in [Posts -> Seq(Nat)]
          BY <1>2 DEF IInv, LateOK
        <4>2. late' = late \/ \E r \in Runs : pc[r] = "posting" /\ Outlives(r)
          BY <2>3 DEF Restart
        <4> QED
          BY <4>1, <4>2 DEF Outlives
      <3>3. PostsUnderway' \subseteq PostsUnderway
        BY <3>1, <3>2 DEF PostsUnderway, Elements
      <3>4. forgotten' = accepted /\ accepted' = accepted /\ delivered' = delivered
        BY <2>3 DEF Restart
      <3> QED
        BY <3>3, <3>4 DEF Feed!FeedNext, Feed!LetGo
    <2>4. ASSUME NEW r \in Runs, RunStep(r) PROVE Feed!FeedNext
      BY <1>2, <2>4, PostingIsSending, RunStepOfFeed DEF Feed!FeedNext
    <2>5. ASSUME NEW p \in Posts, LateStores(p) \/ LateFails(p) PROVE Feed!FeedNext
      BY <1>2, <2>5, LateStepOfFeed DEF Feed!FeedNext
    <2>6. CASE UNCHANGED vars
      BY <2>6 DEF vars, PostsUnderway, Elements, Feed!feedVars
    <2> QED
      BY <1>2, <2>1, <2>2, <2>3, <2>4, <2>5, <2>6 DEF Next
  <1> QED
    BY <1>1, <1>2, Invariance, PTL DEF Spec, ImplementsFeed, Feed!FeedSpec
-----------------------------------------------------------------------------
(* Doubled is the function its recursion describes. The recursion is on     *)
(* numbers, so there is no smallest one for which no such function exists.  *)
LEMMA DoubledIsDefined ==
  /\ Doubled[0] = FlushInterval
  /\ \A n \in 0..MaxFailures : Doubled[n] \in Nat
  /\ \A n \in 0..MaxFailures :
       n + 1 \in 0..MaxFailures => Doubled[n + 1] = 2 * Doubled[n]
  <1> DEFINE Value(f, k) == IF k = 0 THEN FlushInterval ELSE 2 * f[k - 1]
             Solves(f, n) == f = [k \in 0..n |-> Value(f, k)]
             Defined(n) == \E f : Solves(f, n)
  <1>1. Defined(0)
    <2> DEFINE f == [k \in 0..0 |-> FlushInterval]
    <2>1. f = [k \in 0..0 |-> Value(f, k)]
      OBVIOUS
    <2> HIDE DEF f
    <2> QED
      BY <2>1
  <1>2. ASSUME NEW n \in Nat, Defined(n) PROVE Defined(n + 1)
    <2>1. PICK f : Solves(f, n)
      BY <1>2
    <2> DEFINE g == [k \in 0..(n + 1) |-> Value(f, k)]
    <2>2. \A k \in 0..n : f[k] = Value(f, k)
      <3>1. f = [k \in 0..n |-> Value(f, k)]
        BY <2>1
      <3> HIDE DEF Value
      <3> QED
        BY <3>1
    <2>3. \A k \in 0..n : g[k] = f[k]
      <3>1. \A k \in 0..n : k \in 0..(n + 1)
        OBVIOUS
      <3> HIDE DEF Value
      <3> QED
        BY <2>2, <3>1
    <2>4. \A k \in 0..(n + 1) : Value(f, k) = Value(g, k)
      <3>1. \A k \in 0..(n + 1) : k # 0 => k - 1 \in 0..n
        OBVIOUS
      <3> HIDE DEF g
      <3> QED
        BY <2>3, <3>1
    <2>5. g = [k \in 0..(n + 1) |-> Value(g, k)]
      <3> HIDE DEF Value
      <3> QED
        BY <2>4
    <2> HIDE DEF g, Value
    <2> QED
      BY <2>5
  <1>3. Defined(MaxFailures)
    <2> HIDE DEF Defined
    <2> DEFINE Undefined == {n \in Nat : ~Defined(n)}
    <2>1. SUFFICES ASSUME Undefined # {} PROVE FALSE
      BY ExporterConstants
    <2>2. PICK n \in Undefined : \A m \in Undefined : n <= m
      BY <2>1, SmallestExists
    <2>3. n # 0
      BY <1>1
    <2>4. n - 1 \in Nat /\ n - 1 \notin Undefined
      BY <2>2, <2>3
    <2>5. Defined((n - 1) + 1)
      BY <1>2, <2>4
    <2> QED
      BY <2>2, <2>5
  <1>4. Doubled = [k \in 0..MaxFailures |-> Value(Doubled, k)]
    BY <1>3 DEF Doubled
  <1>5. \A k \in 0..MaxFailures : Doubled[k] = Value(Doubled, k)
    <2> HIDE DEF Value
    <2> QED
      BY <1>4
  <1>6. \A k \in 0..MaxFailures : Doubled[k] \in Nat
    <2> DEFINE Bad == {k \in 0..MaxFailures : Doubled[k] \notin Nat}
    <2>1. SUFFICES ASSUME Bad # {} PROVE FALSE
      OBVIOUS
    <2>2. PICK k \in Bad : \A m \in Bad : k <= m
      <3>1. Bad \in SUBSET Nat
        OBVIOUS
      <3> HIDE DEF Bad
      <3> QED
        BY <2>1, <3>1, SmallestExists
    <2>3. k # 0
      BY <1>5, ExporterConstants
    <2>4. k - 1 \in 0..MaxFailures /\ k - 1 \notin Bad
      <3>1. k \in 0..MaxFailures /\ MaxFailures \in Nat
        BY <2>2, ExporterConstants
      <3>2. k - 1 \in 0..MaxFailures /\ ~(k <= k - 1)
        BY <2>3, <3>1
      <3> HIDE DEF Bad
      <3> QED
        BY <2>2, <3>2
    <2>5. Doubled[k - 1] \in Nat /\ Doubled[k] = 2 * Doubled[k - 1]
      BY <1>5, <2>3, <2>4
    <2> QED
      BY <2>5
  <1>7. \A n \in 0..MaxFailures :
          n + 1 \in 0..MaxFailures => Doubled[n + 1] = 2 * Doubled[n]
    BY <1>5
  <1>8. Doubled[0] = FlushInterval
    BY <1>5, ExporterConstants
  <1> QED
    BY <1>6, <1>7, <1>8

(* A failure doubles the back-off and counts once, a 2xx resets both.       *)
LEMMA StepKeepsBackoff ==
  IInv /\ BackoffMatchesFailures /\ [Next]_vars => BackoffMatchesFailures'
  <1> SUFFICES ASSUME IInv, BackoffMatchesFailures, [Next]_vars
               PROVE  BackoffMatchesFailures'
    OBVIOUS
  <1>1. /\ FlushInterval \in Nat /\ MaxBackoff \in Nat
        /\ FlushInterval <= MaxBackoff
        /\ MaxFailures \in Nat /\ failures \in 0..MaxFailures
    BY ExporterConstants DEF IInv, TypeOK
  <1>2. ASSUME NEW r \in Runs, Fail(r) PROVE BackoffMatchesFailures'
    <2>1. /\ backoffMs' = Lesser(Lesser(Doubled[failures], MaxBackoff) * 2, MaxBackoff)
          /\ failures' = Lesser(failures + 1, MaxFailures)
      BY <1>2 DEF Fail, BackoffMatchesFailures
    <2>2. Doubled[failures] \in Nat
      BY <1>1, DoubledIsDefined
    <2>3. CASE failures < MaxFailures
      <3>1. failures' = failures + 1
        BY <1>1, <2>1, <2>3 DEF Lesser
      <3>2. Doubled[failures + 1] = 2 * Doubled[failures]
        BY <1>1, <2>3, DoubledIsDefined
      <3> QED
        BY <1>1, <2>1, <2>2, <3>1, <3>2 DEF Lesser, BackoffMatchesFailures
    <2>4. CASE failures = MaxFailures
      <3>1. failures' = failures
        BY <1>1, <2>1, <2>4 DEF Lesser
      <3>2. MaxBackoff <= Doubled[failures]
        BY <2>4, FailuresReachCap
      <3> QED
        BY <1>1, <2>1, <2>2, <3>1, <3>2 DEF Lesser, BackoffMatchesFailures
    <2> QED
      BY <1>1, <2>3, <2>4
  <1>3. ASSUME backoffMs' = FlushInterval, failures' = 0
        PROVE  BackoffMatchesFailures'
    BY <1>1, <1>3, DoubledIsDefined DEF BackoffMatchesFailures, Lesser
  <1>4. ASSUME UNCHANGED <<backoffMs, failures>> PROVE BackoffMatchesFailures'
    BY <1>4 DEF BackoffMatchesFailures
  <1>5. ASSUME NEW r \in Runs, RunStep(r) PROVE BackoffMatchesFailures'
    BY <1>2, <1>3, <1>4, <1>5 DEF RunStep, SignOk, SignFails, ServerStores, PostRefused,
       PostBreaks, ResponseOk, ResponseLost, LogOk, LogFails, Wakes, outsideVars
  <1>6. CASE UNCHANGED vars
    BY <1>4, <1>6 DEF vars
  <1>8. ASSUME NEW p \in Posts, LateStores(p) \/ LateFails(p)
        PROVE  BackoffMatchesFailures'
    BY <1>4, <1>8 DEF LateStores, LateFails, exporterVars
  <1>7. CASE Enqueue \/ TimerFires \/ Restart
    BY <1>3, <1>4, <1>7 DEF Enqueue, TimerFires, Restart, outsideVars
  <1> QED
    BY <1>5, <1>6, <1>7, <1>8 DEF Next

(* The back-off is the interval doubled once per failure since the last     *)
(* 2xx, up to its cap: no step doubles it twice for one failure, forgets a  *)
(* failure of export_log or keeps it over a success or a restart            *)
(* (exporter.ts:76, 86).                                                    *)
THEOREM BackoffCountsFailures == Spec => []BackoffMatchesFailures
  <1>1. Init => BackoffMatchesFailures
    BY ExporterConstants, DoubledIsDefined DEF Init, BackoffMatchesFailures, Lesser
  <1> QED
    BY <1>1, StepKeepsBackoff, Invariance, PTL DEF Spec
=============================================================================
