------------------------ MODULE GatewayIngestProofs -------------------------
(***************************************************************************)
(* The ingest route of the gateway, for any devices, keys, HMACs, sizes of *)
(* ring and budget, with Redis or without.                                 *)
(*                                                                         *)
(* What one request has found out before an await and uses after it is     *)
(* what the invariant is about: its pseudonym is an HMAC of its device     *)
(* under some key (Stages), the INSERT that gave the device its name       *)
(* decides what is exported (ExportedIsMapped), and an answer on its way   *)
(* to the idempotency store is true when it is stored because nothing is   *)
(* ever taken back (AcceptIsTrue).                                         *)
(*                                                                         *)
(* The budget rests on INCR being atomic (CountedOnce). Repeats are proved *)
(* of the history of admissions: the ring, and what a request has read of  *)
(* it and writes back at its leisure, remember the latest of them, except  *)
(* those that came while somebody else was about to write (AdmissionsKept).*)
(* Whoever replaces a stored answer has missed it when he looked           *)
(* (AnsweredAreOvertaken).                                                 *)
(*                                                                         *)
(* The last theorem says all that concerns names at once: the route is a   *)
(* registry of pseudonyms. A row is one step of it and the hand-over       *)
(* another, for which the request must still know the row (Stages): it is  *)
(* the name of the table although other requests have run since.           *)
(***************************************************************************)
EXTENDS GatewayIngest, SequenceTheorems, TLAPS

(* The device of the request r serves.                                        *)
Device(r) == req[r].body.device

(* What the model keeps of a request                                          *)
RequestRecords == [body : Bodies, key : Keys \cup {NoKey}]

(* and of what its handler has found out.                                     *)
WorkRecords ==
  [base : Bases \cup {None}, entry : Seq(Seqs), counter : 0..MaxSuffix - 1,
   status : Statuses \cup {"none"}, did : {NoName} \cup Pseudonyms]

(* The types of what the handlers have found out.                             *)
WorkShape == work \in [Requests -> WorkRecords]

(* The awaits at which a request has its pseudonym,                           *)
Identified == {"limiting", "expiring", "checking", "persisting", "mapping",
               "queueing"}

(* and those at which the ring has its number and the exporter has it not.    *)
Admitted == {"mapping", "queueing"}

(* The pseudonym is an HMAC of the device, under an old key perhaps.          *)
BaseIsOf(base, device) ==
  base \in Bases /\ \E v \in Versions : Hmac[v][device] = base

(* What holds of a request at each of its awaits.                             *)
Stages ==
  \A r \in Requests :
    /\ pc[r] # "idle" => req[r] \in RequestRecords
    /\ pc[r] \in Identified => BaseIsOf(work[r].base, Device(r))
    /\ pc[r] \in {"expiring", "persisting"} => redis
    /\ pc[r] = "queueing" =>
         work[r].did # NoName /\ mapping[Device(r)] = work[r].did
    /\ pc[r] = "recording" => work[r].status = "4xx"
    /\ pc[r] = "sending" => work[r].status \in Statuses

(* The UNIQUE constraint of the mapping table.                                *)
NamesDiffer ==
  \A d, e \in Devices : mapping[d] # NoName /\ mapping[d] = mapping[e] => d = e

(* A device was exported under its name in the table only; a row of the table *)
(* never changes.                                                             *)
ExportedIsMapped == \A p \in exported : p[2] # NoName /\ mapping[p[1]] = p[2]

(* StoredAcceptIsTrue for a 202 that has not been stored yet.                 *)
AcceptIsTrue ==
  \A r \in Requests : pc[r] = "sending" /\ work[r].status = "202" =>
    req[r].body \in queued /\ <<Device(r), work[r].did>> \in exported

(* Every reading let through has been counted, and the one that is about to   *)
(* get its bucket an expiry is the only one of its pseudonym.                 *)
CountedOnce ==
  /\ passed \in [Bases -> Nat]
  /\ \A b \in Bases : passed[b] <= RateLimit /\ passed[b] <= rate[b].count
  /\ \A b \in Bases : rate[b].expires => rate[b].count > 0
  /\ \A r \in Requests : \A b \in Bases : pc[r] = "expiring"
       /\ work[r].base = b =>
       /\ passed[b] + 1 <= RateLimit
       /\ passed[b] + 1 <= rate[b].count
       /\ ~rate[b].expires
       /\ \A s \in Requests : pc[s] = "expiring" /\ work[s].base = b => s = r

(* The history is kept as far as a ring reaches, and one more.                *)
RecentShape == \A b \in Bases : Len(recent[b]) <= RingSize + 1

(* An entry knows the latest admissions, up to those that came while another  *)
(* request was about to write: each is as near to the end of the entry as it  *)
(* is to the end of the history, or nearer.                                   *)
Remembers(admissions, entry) ==
  \A i \in 1..Len(admissions) :
    ~admissions[i].overlapped /\ Len(admissions) - i < RingSize =>
      \E j \in 1..Len(entry) :
        /\ entry[j] = admissions[i].seq
        /\ Len(entry) - j <= Len(admissions) - i

(* A sequence number that was admitted twice overlapped the first time.       *)
RepeatsOverlapped(admissions) ==
  \A i, j \in 1..Len(admissions) :
    i < j /\ admissions[i].seq = admissions[j].seq => admissions[i].overlapped

(* So do the ring and whatever a request has read of it and not yet written   *)
(* back, however much later it does; without Redis nothing overlaps.          *)
AdmissionsKept ==
  /\ \A b \in Bases : Remembers(recent[b], ring[b])
  /\ \A r \in Requests : pc[r] = "persisting" =>
       /\ Remembers(recent[work[r].base], work[r].entry)
       /\ ~Contains(work[r].entry, req[r].body.seq)
  /\ ~redis => \A b \in Bases : \A i \in 1..Len(recent[b]) :
       ~recent[b][i].overlapped

(* Where a key has an answer, whoever is still at work with it has looked it  *)
(* up too early.                                                              *)
AnsweredAreOvertaken ==
  \A k \in Keys, r \in Requests :
    responses[k] # None /\ pc[r] # "idle" /\ req[r].key = k => r \in overtaken

(* What the ring may remember: readings handed over, about to be, or lost     *)
(* with their request.                                                        *)
Accounted(b, seq) ==
  \/ \E body \in queued :
       body.seq = seq /\ \E v \in Versions : Hmac[v][body.device] = b
  \/ \E r \in Requests : <<b, seq>> \in Abandoned(r)
  \/ <<b, seq>> \in dropped

(* RememberedWasAccepted for the rings,                                       *)
RingAccounted ==
  \A b \in Bases, seq \in Seqs : Contains(ring[b], seq) => Accounted(b, seq)

(* and for what a request has read of a ring and not yet written back.        *)
LoadedAccounted ==
  \A r \in Requests : pc[r] = "persisting" =>
    \A b \in Bases, seq \in Seqs :
      work[r].base = b /\ Contains(work[r].entry, seq) => Accounted(b, seq)

(* The inductive invariant.                                                   *)
IInv ==
  /\ TypeOK
  /\ WorkShape
  /\ Stages
  /\ NamesDiffer
  /\ ExportedIsMapped
  /\ AcceptIsTrue
  /\ StoredAcceptIsTrue
  /\ CountedOnce
  /\ RecentShape
  /\ AdmissionsKept
  /\ RepeatsOnlyByOverlap
  /\ AnsweredAreOvertaken
  /\ RingAccounted
  /\ LoadedAccounted

-----------------------------------------------------------------------------
(* What is left of a sequence when its latest n members are kept.             *)
LEMMA LatestOfFacts ==
  ASSUME NEW S, NEW s \in Seq(S), NEW n \in Nat
  PROVE  /\ LatestOf(s, n) \in Seq(S)
         /\ Len(LatestOf(s, n)) = IF Len(s) <= n THEN Len(s) ELSE n
         /\ \A i \in 1..Len(LatestOf(s, n)) :
              LatestOf(s, n)[i] = s[Len(s) - Len(LatestOf(s, n)) + i]
  <1>1. CASE Len(s) <= n  BY <1>1 DEF LatestOf
  <1>2. CASE ~(Len(s) <= n)
    <2>. DEFINE m == Len(s) - n + 1
    <2>1. m \in Int /\ m <= Len(s) + 1 /\ Len(s) \in Nat
            /\ \A i \in m..Len(s) : s[i] \in S
      BY <1>2
    <2>2. LatestOf(s, n) = SubSeq(s, m, Len(s))  BY <1>2 DEF LatestOf
    <2>. HIDE DEF m
    <2>3. /\ SubSeq(s, m, Len(s)) \in Seq(S)
          /\ Len(SubSeq(s, m, Len(s))) = IF m <= Len(s) THEN Len(s) - m + 1
                                         ELSE 0
          /\ \A i \in 1..Len(s) - m + 1 : SubSeq(s, m, Len(s))[i] = s[m + i - 1]
      BY <2>1, SubSeqProperties
    <2>. QED  BY <2>1, <2>2, <2>3, <1>2 DEF m
  <1>. QED  BY <1>1, <1>2

(* The same with one more member.                                             *)
LEMMA LatestAppended ==
  ASSUME NEW S, NEW s \in Seq(S), NEW n \in Nat, NEW x \in S
  PROVE  LET t == Append(LatestOf(s, n), x)
         IN
         /\ t \in Seq(S)
         /\ Len(t) = IF Len(s) <= n THEN Len(s) + 1 ELSE n + 1
         /\ t[Len(t)] = x
         /\ \A i \in 1..Len(t) - 1 : t[i] = s[Len(s) - (Len(t) - 1) + i]
  <1>. DEFINE l == LatestOf(s, n)
              t == Append(l, x)
  <1>1. /\ l \in Seq(S) /\ Len(l) \in Nat
        /\ Len(l) = IF Len(s) <= n THEN Len(s) ELSE n
        /\ \A i \in 1..Len(l) : l[i] = s[Len(s) - Len(l) + i]
    BY LatestOfFacts
  <1>. HIDE DEF l
  <1>2. /\ t \in Seq(S) /\ Len(t) = Len(l) + 1 /\ t[Len(l) + 1] = x
        /\ \A i \in 1..Len(l) : t[i] = l[i]
    BY <1>1, AppendProperties
  <1>. HIDE DEF t
  <1>3. /\ Len(t) - 1 = Len(l)
        /\ Len(t) = IF Len(s) <= n THEN Len(s) + 1 ELSE n + 1
    BY <1>1, <1>2
  <1>4. \A i \in 1..Len(t) - 1 : t[i] = s[Len(s) - (Len(t) - 1) + i]
    BY <1>1, <1>2, <1>3
  <1>5. t[Len(t)] = x  BY <1>2
  <1>. QED  BY <1>2, <1>3, <1>4, <1>5 DEF t, l

(* An assignment to one field keeps the type of the record.                   *)
LEMMA WorkFacts ==
  ASSUME NEW w \in WorkRecords
  PROVE  /\ \A x \in Statuses : [w EXCEPT !.status = x] \in WorkRecords
         /\ \A x \in Bases : [w EXCEPT !.base = x] \in WorkRecords
         /\ \A x \in Seq(Seqs) : [w EXCEPT !.entry = x] \in WorkRecords
         /\ \A x \in 0..MaxSuffix - 1 : [w EXCEPT !.counter = x] \in WorkRecords
         /\ \A x \in Pseudonyms :
              [w EXCEPT !.status = "202", !.did = x] \in WorkRecords
  <1>1. "202" \in Statuses  BY DEF Statuses
  <1>2. \A x \in Pseudonyms :
          [w EXCEPT !.status = "202", !.did = x] \in WorkRecords
    <2>. SUFFICES ASSUME NEW x \in Pseudonyms
                  PROVE  [w EXCEPT !.status = "202", !.did = x] \in WorkRecords
      OBVIOUS
    <2>1. [w EXCEPT !.status = "202"] \in WorkRecords  BY <1>1 DEF WorkRecords
    <2>. DEFINE v == [w EXCEPT !.status = "202"]
    <2>2. [v EXCEPT !.did = x] \in WorkRecords  BY <2>1 DEF WorkRecords
    <2>3. [v EXCEPT !.did = x] = [w EXCEPT !.status = "202", !.did = x]
      OBVIOUS
    <2>. QED  BY <2>2, <2>3
  <1>. QED  BY <1>1, <1>2 DEF WorkRecords

(* A step that gives up no request between ring and exporter, or notes it as  *)
(* lost, leaves every reading accounted for.                                  *)
LEMMA AccountedStays ==
  ASSUME IInv, queued \subseteq queued', dropped \subseteq dropped',
         \A s \in Requests : pc[s] \in Admitted =>
           \/ pc'[s] \in Admitted /\ req'[s] = req[s]
                /\ work'[s].base = work[s].base
           \/ req[s].body \in queued'
           \/ <<work[s].base, req[s].body.seq>> \in dropped'
  PROVE  \A b \in Bases, x \in Seqs : Accounted(b, x) => Accounted(b, x)'
  <1>. SUFFICES ASSUME NEW b \in Bases, NEW x \in Seqs, Accounted(b, x)
                PROVE  Accounted(b, x)'
    OBVIOUS
  <1>1. CASE \E body \in queued :
               body.seq = x /\ \E v \in Versions : Hmac[v][body.device] = b
    BY <1>1 DEF Accounted
  <1>2. CASE \E s \in Requests : <<b, x>> \in Abandoned(s)
    <2>1. PICK s \in Requests : <<b, x>> \in Abandoned(s)  BY <1>2
    <2>2. pc[s] \in Admitted /\ b = work[s].base /\ x = req[s].body.seq
      BY <2>1 DEF Abandoned, Admitted
    <2>3. CASE pc'[s] \in Admitted /\ req'[s] = req[s]
                 /\ work'[s].base = work[s].base
      <3>1. <<b, x>> \in Abandoned(s)'  BY <2>2, <2>3 DEF Abandoned, Admitted
      <3>. QED  BY <3>1 DEF Accounted
    <2>4. CASE req[s].body \in queued'
      <3>1. \E v \in Versions : Hmac[v][req[s].body.device] = b
        BY <2>2 DEF IInv, Stages, Identified, Admitted, BaseIsOf, Device
      <3>. QED  BY <2>2, <2>4, <3>1 DEF Accounted
    <2>5. CASE <<work[s].base, req[s].body.seq>> \in dropped'
      BY <2>2, <2>5 DEF Accounted
    <2>. QED  BY <2>2, <2>3, <2>4, <2>5
  <1>3. CASE <<b, x>> \in dropped  BY <1>3 DEF Accounted
  <1>. QED  BY <1>1, <1>2, <1>3 DEF Accounted

(* A step that leaves the counters alone and sends no request to EXPIRE keeps *)
(* what is said of them.                                                      *)
LEMMA CountsStay ==
  ASSUME IInv, UNCHANGED <<rate, passed>>,
         \A s \in Requests : pc'[s] = "expiring" =>
           pc[s] = "expiring" /\ work'[s].base = work[s].base
  PROVE  CountedOnce'
  BY DEF IInv, CountedOnce

(* A handler that has found out nothing.                                      *)
LEMMA NoWorkIsWork == NoWork \in WorkRecords
  BY IngestConstants DEF NoWork, WorkRecords

(* A step that admits nothing, or forgets all that was admitted, and lets     *)
(* nobody read a ring keeps what is said of them.                             *)
LEMMA AdmissionsStay ==
  ASSUME IInv, UNCHANGED redis,
         \A c \in Bases : \/ ring'[c] = ring[c] /\ recent'[c] = recent[c]
                          \/ Len(recent'[c]) = 0,
         \A s \in Requests : pc'[s] = "persisting" =>
           /\ pc[s] = "persisting" /\ work'[s] = work[s] /\ req'[s] = req[s]
  PROVE  AdmissionsKept' /\ RepeatsOnlyByOverlap'
  <1>1. ASSUME NEW c \in Bases, NEW e, Remembers(recent[c], e)
        PROVE  Remembers(recent'[c], e)
    BY <1>1 DEF Remembers
  <1>2. \A c \in Bases : Remembers(recent'[c], ring'[c])
    <2>. SUFFICES ASSUME NEW c \in Bases PROVE Remembers(recent'[c], ring'[c])
      OBVIOUS
    <2>1. CASE ring'[c] = ring[c] /\ recent'[c] = recent[c]
      BY <2>1 DEF IInv, AdmissionsKept
    <2>2. CASE Len(recent'[c]) = 0
      BY <2>2 DEF Remembers
    <2>. QED  BY <2>1, <2>2
  <1>3. ASSUME NEW s \in Requests, pc'[s] = "persisting"
        PROVE  /\ Remembers(recent'[work'[s].base], work'[s].entry)
               /\ ~Contains(work'[s].entry, req'[s].body.seq)
    <2>1. /\ pc[s] = "persisting" /\ work'[s] = work[s] /\ req'[s] = req[s]
          /\ work[s].base \in Bases
      BY <1>3 DEF IInv, Stages, Identified, BaseIsOf
    <2>2. /\ Remembers(recent[work[s].base], work[s].entry)
          /\ ~Contains(work[s].entry, req[s].body.seq)
      BY <2>1 DEF IInv, AdmissionsKept
    <2>. QED  BY <2>1, <2>2, <1>1
  <1>4. ~redis' => \A c \in Bases : \A i \in 1..Len(recent'[c]) :
          ~recent'[c][i].overlapped
    BY DEF IInv, AdmissionsKept
  <1>5. AdmissionsKept'  BY <1>2, <1>3, <1>4 DEF AdmissionsKept
  <1>6. RepeatsOnlyByOverlap'  BY DEF IInv, RepeatsOnlyByOverlap
  <1>. QED  BY <1>5, <1>6

(* A step that stores no answer and lets no keyed request past the store      *)
(* overtakes nobody.                                                          *)
LEMMA OvertakenStay ==
  ASSUME IInv, UNCHANGED overtaken,
         \A k \in Keys : responses'[k] = responses[k] \/ responses'[k] = None,
         \A s \in Requests : pc'[s] # "idle" =>
           pc[s] # "idle" /\ req'[s] = req[s]
  PROVE  AnsweredAreOvertaken'
  BY DEF IInv, AnsweredAreOvertaken

(* One more admission: of what was remembered, what is cut from the entry is  *)
(* too far from the end of the history to matter.                             *)
LEMMA AdmittedIsRemembered ==
  ASSUME NEW old \in Seq(Admissions), NEW entry \in Seq(Seqs),
         NEW a \in Admissions, Remembers(old, entry)
  PROVE  LET new == Append(LatestOf(old, RingSize), a)
         IN
         /\ Remembers(new, Append(LatestOf(entry, RingSize - 1), a.seq))
         /\ a.overlapped => Remembers(new, entry)
         /\ /\ RepeatsOverlapped(old) /\ ~Contains(entry, a.seq)
            => RepeatsOverlapped(new)
         /\ \A i \in 1..Len(new) : new[i].overlapped =>
              a.overlapped \/ \E j \in 1..Len(old) : old[j].overlapped
  <1>. DEFINE new == Append(LatestOf(old, RingSize), a)
              kept == Append(LatestOf(entry, RingSize - 1), a.seq)
              m == Len(new)
              n == Len(kept)
              k == Len(old) - (m - 1)
  <1>1. RingSize \in Nat /\ RingSize - 1 \in Nat /\ RingSize - 1 + 1 = RingSize
          /\ a.seq \in Seqs
    BY IngestConstants DEF Admissions
  <1>2. /\ new \in Seq(Admissions)
        /\ m = IF Len(old) <= RingSize THEN Len(old) + 1 ELSE RingSize + 1
        /\ new[m] = a
        /\ \A i \in 1..m - 1 : new[i] = old[k + i]
    BY <1>1, LatestAppended
  <1>3. /\ kept \in Seq(Seqs)
        /\ n = IF Len(entry) <= RingSize - 1 THEN Len(entry) + 1
               ELSE RingSize - 1 + 1
        /\ kept[n] = a.seq
        /\ \A i \in 1..n - 1 : kept[i] = entry[Len(entry) - (n - 1) + i]
    BY <1>1, LatestAppended
  <1>4. Len(old) \in Nat /\ Len(entry) \in Nat  OBVIOUS
  <1>. HIDE DEF new, kept
  <1>5. m \in Nat /\ n \in Nat  BY <1>2, <1>3
  <1>. HIDE DEF m, n
  <1>6. /\ k \in Nat /\ m \in Nat \ {0} /\ m - 1 <= RingSize
        /\ \A i \in 1..m - 1 : k + i \in 1..Len(old)
             /\ Len(old) - (k + i) = m - 1 - i
    BY <1>1, <1>2, <1>4, <1>5
  <1>. HIDE DEF k
  <1>7. ASSUME NEW i \in 1..m - 1, ~new[i].overlapped, m - 1 - i < RingSize
        PROVE  \E j \in 1..Len(entry) : entry[j] = new[i].seq
                 /\ Len(entry) - j <= m - 1 - i
    <2>1. new[i] = old[k + i] /\ k + i \in 1..Len(old)
            /\ Len(old) - (k + i) = m - 1 - i
      BY <1>2, <1>6
    <2>2. ~old[k + i].overlapped /\ Len(old) - (k + i) < RingSize
      BY <2>1, <1>7
    <2>3. PICK j \in 1..Len(entry) : entry[j] = old[k + i].seq
            /\ Len(entry) - j <= Len(old) - (k + i)
      BY <2>1, <2>2 DEF Remembers
    <2>. QED  BY <2>1, <2>3
  <1>8. Remembers(new, kept)
    <2>. SUFFICES ASSUME NEW i \in 1..m, ~new[i].overlapped, m - i < RingSize
                  PROVE  \E j \in 1..n : kept[j] = new[i].seq /\ n - j <= m - i
      BY DEF Remembers, m, n
    <2>1. CASE i = m
      <3>1. n \in 1..n  BY <1>1, <1>3, <1>4, <1>5
      <3>2. kept[n] = new[i].seq /\ n - n <= m - i
        BY <2>1, <1>2, <1>3, <1>5
      <3>. QED  BY <3>1, <3>2
    <2>2. CASE i # m
      <3>0. m \in Nat /\ n \in Nat /\ RingSize \in Nat  BY <1>1, <1>5
      <3>1. /\ i \in 1..m - 1 /\ m - 1 - i < RingSize - 1
            /\ m - 1 - i < RingSize
        BY <2>2, <3>0
      <3>2. PICK j \in 1..Len(entry) : entry[j] = new[i].seq
              /\ Len(entry) - j <= m - 1 - i
        BY <3>1, <1>7
      <3>. DEFINE l == j - (Len(entry) - (n - 1))
      <3>3. l \in 1..n - 1 /\ Len(entry) - (n - 1) + l = j /\ n - l <= m - i
        <4>1. n = IF Len(entry) <= RingSize - 1 THEN Len(entry) + 1
                  ELSE RingSize
          BY <1>1, <1>3
        <4>2. j \in Nat /\ 1 <= j /\ j <= Len(entry)
                /\ Len(entry) - j <= m - 1 - i
          BY <3>2
        <4>3. i \in Nat /\ 1 <= i /\ i <= m - 1  BY <3>0, <3>1
        <4>4. n - 1 <= Len(entry) /\ (n - 1 < Len(entry) => n = RingSize)
          BY <3>0, <4>1, <1>4
        <4>5. l \in Int /\ l <= n - 1 /\ Len(entry) - (n - 1) + l = j
          BY <3>0, <4>2, <1>4
        <4>6. n - l <= m - i  BY <3>0, <4>2, <4>3, <4>5, <1>4
        <4>7. 1 <= l
          <5>1. CASE n - 1 = Len(entry)  BY <5>1, <4>2, <4>5
          <5>2. CASE n = RingSize
            BY <5>2, <3>0, <3>1, <4>2, <4>3, <4>5, <1>4
          <5>. QED  BY <5>1, <5>2, <4>4, <3>0, <1>4
        <4>. QED  BY <4>5, <4>6, <4>7, <3>0
      <3>. HIDE DEF l
      <3>4. kept[l] = new[i].seq /\ l \in 1..n
        BY <3>2, <3>3, <1>3, <1>5
      <3>. QED  BY <3>3, <3>4
    <2>. QED  BY <2>1, <2>2
  <1>9. ASSUME a.overlapped PROVE Remembers(new, entry)
    <2>. SUFFICES ASSUME NEW i \in 1..m, ~new[i].overlapped, m - i < RingSize
                  PROVE  \E j \in 1..Len(entry) : entry[j] = new[i].seq
                           /\ Len(entry) - j <= m - i
      BY DEF Remembers, m
    <2>1. i \in 1..m - 1 /\ m - 1 - i < RingSize
      BY <1>1, <1>2, <1>6, <1>9
    <2>2. PICK j \in 1..Len(entry) : entry[j] = new[i].seq
            /\ Len(entry) - j <= m - 1 - i
      BY <2>1, <1>7
    <2>3. Len(entry) - j <= m - i  BY <2>1, <2>2, <1>4, <1>6
    <2>. QED  BY <2>2, <2>3
  <1>10. ASSUME RepeatsOverlapped(old), ~Contains(entry, a.seq)
         PROVE  RepeatsOverlapped(new)
    <2>. SUFFICES ASSUME NEW i \in 1..m, NEW j \in 1..m, i < j,
                         new[i].seq = new[j].seq, ~new[i].overlapped
                  PROVE  FALSE
      BY DEF RepeatsOverlapped, m
    <2>1. i \in 1..m - 1  BY <1>6
    <2>2. CASE j = m
      <3>1. m - 1 - i < RingSize  BY <2>1, <1>1, <1>6
      <3>2. PICK l \in 1..Len(entry) : entry[l] = new[i].seq
        BY <2>1, <3>1, <1>7
      <3>. QED  BY <2>2, <3>2, <1>2, <1>10 DEF Contains
    <2>3. CASE j # m
      <3>1. j \in 1..m - 1  BY <2>3, <1>6
      <3>2. /\ old[k + i].seq = old[k + j].seq /\ ~old[k + i].overlapped
            /\ k + i \in 1..Len(old) /\ k + j \in 1..Len(old)
        BY <2>1, <3>1, <1>2, <1>6
      <3>3. k + i < k + j  BY <1>6
      <3>. QED  BY <3>2, <3>3, <1>10 DEF RepeatsOverlapped
    <2>. QED  BY <2>2, <2>3
  <1>11. \A i \in 1..m : new[i].overlapped =>
           a.overlapped \/ \E j \in 1..Len(old) : old[j].overlapped
    <2>. SUFFICES ASSUME NEW i \in 1..m, new[i].overlapped, ~a.overlapped
                  PROVE  \E j \in 1..Len(old) : old[j].overlapped
      OBVIOUS
    <2>1. i \in 1..m - 1  BY <1>2, <1>6
    <2>. QED  BY <2>1, <1>2, <1>6
  <1>. QED  BY <1>8, <1>9, <1>10, <1>11 DEF new, kept, m

(* Admit: the new ring and the new history of admissions end with the number  *)
(* admitted.                                                                  *)
LEMMA AdmitFacts ==
  ASSUME IInv, NEW r \in Requests, pc[r] \in Identified,
         NEW entry \in Seq(Seqs), Admit(r, entry)
  PROVE  LET b == work[r].base
             seq == req[r].body.seq
         IN  /\ b \in Bases /\ seq \in Seqs /\ recent[b] \in Seq(Admissions)
             /\ Admission(r) \in Admissions /\ Admission(r).seq = seq
             /\ ring' \in [Bases -> Seq(Seqs)]
             /\ recent' \in [Bases -> Seq(Admissions)]
             /\ \A c \in Bases \ {b} : ring'[c] = ring[c]
                  /\ recent'[c] = recent[c]
             /\ ring'[b] = Append(LatestOf(entry, RingSize - 1), seq)
             /\ Len(ring'[b]) = IF Len(entry) < RingSize THEN Len(entry) + 1
                                ELSE RingSize
             /\ ring'[b][Len(ring'[b])] = seq
             /\ \A i \in 1..Len(ring'[b]) - 1 :
                  ring'[b][i] = entry[Len(entry) - (Len(ring'[b]) - 1) + i]
             /\ recent'[b] = Append(LatestOf(recent[b], RingSize), Admission(r))
             /\ Len(recent'[b]) <= RingSize + 1
  <1>. DEFINE b == work[r].base
              seq == req[r].body.seq
              a == Admission(r)
  <1>1. b \in Bases /\ seq \in Seqs
    <2>1. req[r] \in RequestRecords  BY DEF IInv, Stages, Identified
    <2>. QED  BY <2>1 DEF IInv, Stages, BaseIsOf, RequestRecords, Bodies
  <1>2. /\ ring' = [ring EXCEPT ![b] = Append(LatestOf(entry, RingSize - 1),
                                              seq)]
        /\ recent' = [recent EXCEPT ![b] = Append(LatestOf(@, RingSize), a)]
    BY DEF Admit
  <1>a. a \in Admissions /\ a.seq = seq
    <2>1. Overlapped(r) \in BOOLEAN  BY DEF Overlapped
    <2>. QED  BY <2>1, <1>1 DEF Admission, Admissions
  <1>. HIDE DEF b, seq, a
  <1>3. /\ ring \in [Bases -> Seq(Seqs)]
        /\ recent \in [Bases -> Seq(Admissions)]
        /\ RingSize - 1 \in Nat /\ RingSize \in Nat
        /\ RingSize - 1 + 1 = RingSize
    <2>1. /\ RingSize - 1 \in Nat /\ RingSize \in Nat
          /\ RingSize - 1 + 1 = RingSize
      BY IngestConstants
    <2>. QED  BY <2>1 DEF IInv, TypeOK
  <1>4. ring'[b] = Append(LatestOf(entry, RingSize - 1), seq)
    BY <1>1, <1>2, <1>3
  <1>5. recent'[b] = Append(LatestOf(recent[b], RingSize), a)
    BY <1>1, <1>2, <1>3
  <1>6. /\ ring'[b] \in Seq(Seqs)
        /\ Len(ring'[b]) = IF Len(entry) <= RingSize - 1
                           THEN Len(entry) + 1 ELSE RingSize - 1 + 1
        /\ ring'[b][Len(ring'[b])] = seq
        /\ \A i \in 1..Len(ring'[b]) - 1 :
             ring'[b][i] = entry[Len(entry) - (Len(ring'[b]) - 1) + i]
    <2>. DEFINE t == Append(LatestOf(entry, RingSize - 1), seq)
    <2>1. /\ t \in Seq(Seqs)
          /\ Len(t) = IF Len(entry) <= RingSize - 1 THEN Len(entry) + 1
                      ELSE RingSize - 1 + 1
          /\ t[Len(t)] = seq
          /\ \A i \in 1..Len(t) - 1 :
               t[i] = entry[Len(entry) - (Len(t) - 1) + i]
      BY <1>1, <1>3, LatestAppended
    <2>. QED  BY <2>1, <1>4
  <1>7. recent[b] \in Seq(Admissions)  BY <1>1, <1>3
  <1>8. /\ recent'[b] \in Seq(Admissions)
        /\ Len(recent'[b]) <= RingSize + 1
    <2>. DEFINE t == Append(LatestOf(recent[b], RingSize), a)
    <2>1. /\ t \in Seq(Admissions)
          /\ Len(t) = IF Len(recent[b]) <= RingSize THEN Len(recent[b]) + 1
                      ELSE RingSize + 1
      BY <1>a, <1>3, <1>7, LatestAppended
    <2>2. Len(recent[b]) \in Nat  BY <1>7
    <2>. HIDE DEF t
    <2>3. Len(t) <= RingSize + 1  BY <2>1, <2>2, <1>3
    <2>. QED  BY <2>1, <2>3, <1>5 DEF t
  <1>9. \A c \in Bases \ {b} : ring'[c] = ring[c] /\ recent'[c] = recent[c]
    BY <1>2, <1>3
  <1>10. /\ ring' \in [Bases -> Seq(Seqs)]
         /\ recent' \in [Bases -> Seq(Admissions)]
    BY <1>2, <1>3, <1>6, <1>8, <1>9
  <1>11. Len(ring'[b]) = IF Len(entry) < RingSize THEN Len(entry) + 1
                         ELSE RingSize
    BY <1>3, <1>6
  <1>. QED  BY <1>a, <1>1, <1>4, <1>5, <1>6, <1>7, <1>8, <1>9, <1>10, <1>11
     DEF b, seq, a

(* Admit keeps the types of the history.                                      *)
LEMMA AdmitShapes ==
  ASSUME IInv, NEW r \in Requests, pc[r] \in Identified,
         NEW entry \in Seq(Seqs), Admit(r, entry)
  PROVE  /\ ring' \in [Bases -> Seq(Seqs)]
         /\ recent' \in [Bases -> Seq(Admissions)]
         /\ \A c \in Bases : Len(ring'[c]) <= RingSize
              /\ Len(recent'[c]) <= RingSize + 1
  <1>. DEFINE b == work[r].base
  <1>1. /\ b \in Bases
        /\ ring' \in [Bases -> Seq(Seqs)]
        /\ recent' \in [Bases -> Seq(Admissions)]
        /\ \A c \in Bases \ {b} : ring'[c] = ring[c] /\ recent'[c] = recent[c]
        /\ Len(ring'[b]) = IF Len(entry) < RingSize THEN Len(entry) + 1
                           ELSE RingSize
        /\ Len(recent'[b]) <= RingSize + 1
    BY AdmitFacts
  <1>. HIDE DEF b
  <1>2. \A c \in Bases \ {b} : Len(ring'[c]) <= RingSize
          /\ Len(recent'[c]) <= RingSize + 1
    BY <1>1 DEF IInv, TypeOK, RecentShape
  <1>3. Len(entry) \in Nat /\ RingSize \in Nat  BY IngestConstants
  <1>4. Len(ring'[b]) <= RingSize  BY <1>1, <1>3
  <1>. QED  BY <1>1, <1>2, <1>4

(* Every number in the ring after Admit was in it before, or is the one       *)
(* admitted.                                                                  *)
LEMMA AdmittedOrKnown ==
  ASSUME IInv, NEW r \in Requests, pc[r] \in Identified,
         NEW entry \in Seq(Seqs), Admit(r, entry), NEW c \in Bases,
         NEW x \in Seqs,
         Contains(ring'[c], x)
  PROVE  \/ c # work[r].base /\ Contains(ring[c], x)
         \/ c = work[r].base /\ (x = req[r].body.seq \/ Contains(entry, x))
  <1>. DEFINE b == work[r].base
              n == Len(ring'[b])
  <1>1. CASE c # b
    BY <1>1, AdmitFacts
  <1>2. CASE c = b
    <2>0. /\ b \in Bases /\ ring' \in [Bases -> Seq(Seqs)]
          /\ n = IF Len(entry) < RingSize THEN Len(entry) + 1 ELSE RingSize
          /\ ring'[b][n] = req[r].body.seq
          /\ \A i \in 1..n - 1 : ring'[b][i] = entry[Len(entry) - (n - 1) + i]
      BY AdmitFacts
    <2>1. /\ ring'[b] \in Seq(Seqs) /\ n <= Len(entry) + 1
          /\ ring'[b][n] = req[r].body.seq
          /\ \A i \in 1..n - 1 : ring'[b][i] = entry[Len(entry) - (n - 1) + i]
      <3>. HIDE DEF n, b
      <3>1. Len(entry) \in Nat /\ RingSize \in Nat  BY IngestConstants
      <3>2. n <= Len(entry) + 1  BY <2>0, <3>1
      <3>. QED  BY <2>0, <3>2
    <2>2. PICK i \in 1..n : ring'[b][i] = x  BY <1>2 DEF Contains
    <2>3. n \in Nat /\ Len(entry) \in Nat  BY <2>1
    <2>. HIDE DEF n, b
    <2>4. CASE i = n  BY <1>2, <2>1, <2>2, <2>4 DEF b
    <2>5. CASE i # n
      <3>1. i \in 1..n - 1 /\ Len(entry) - (n - 1) + i \in 1..Len(entry)
        BY <2>1, <2>2, <2>3, <2>5
      <3>2. entry[Len(entry) - (n - 1) + i] = x  BY <2>1, <2>2, <3>1
      <3>. QED  BY <1>2, <3>1, <3>2 DEF Contains, b
    <2>. QED  BY <2>4, <2>5
  <1>. QED  BY <1>1, <1>2

(* Admitting a number that is not in an entry that remembers the latest       *)
(* admissions: the others that are about to write make it overlap, and what   *)
(* they have read still remembers the rest.                                   *)
LEMMA AdmitKeepsAdmissions ==
  ASSUME IInv, NEW r \in Requests, pc[r] \in Identified,
         NEW entry \in Seq(Seqs), Admit(r, entry),
         Remembers(recent[work[r].base], entry),
         ~Contains(entry, req[r].body.seq),
         UNCHANGED redis, pc'[r] # "persisting",
         \A s \in Requests \ {r} :
           pc'[s] = pc[s] /\ work'[s] = work[s] /\ req'[s] = req[s]
  PROVE  AdmissionsKept' /\ RepeatsOnlyByOverlap'
  <1>. DEFINE b == work[r].base
              old == recent[b]
              new == recent'[b]
              a == Admission(r)
  <1>1. /\ b \in Bases /\ old \in Seq(Admissions) /\ a \in Admissions
        /\ a.seq = req[r].body.seq
        /\ \A c \in Bases \ {b} : ring'[c] = ring[c] /\ recent'[c] = recent[c]
        /\ ring'[b] = Append(LatestOf(entry, RingSize - 1), a.seq)
        /\ new = Append(LatestOf(old, RingSize), a)
    <2>1. /\ b \in Bases /\ old \in Seq(Admissions) /\ a \in Admissions
          /\ a.seq = req[r].body.seq
      BY AdmitFacts
    <2>2. \A c \in Bases \ {b} : ring'[c] = ring[c] /\ recent'[c] = recent[c]
      BY AdmitFacts
    <2>3. ring'[b] = Append(LatestOf(entry, RingSize - 1), req[r].body.seq)
      BY AdmitFacts
    <2>4. new = Append(LatestOf(old, RingSize), a)
      BY AdmitFacts
    <2>. HIDE DEF b, old, new, a
    <2>. QED  BY <2>1, <2>2, <2>3, <2>4
  <1>2. RepeatsOverlapped(old)
    BY <1>1 DEF IInv, RepeatsOnlyByOverlap, RepeatsOverlapped
  <1>3. Remembers(old, entry) /\ ~Contains(entry, a.seq)  BY <1>1
  <1>4. a.overlapped = Overlapped(r)  BY DEF Admission
  <1>. HIDE DEF b, old, new, a
  <1>5. /\ Remembers(new, ring'[b])
        /\ RepeatsOverlapped(new)
        /\ \A i \in 1..Len(new) : new[i].overlapped =>
             a.overlapped \/ \E j \in 1..Len(old) : old[j].overlapped
    BY <1>1, <1>2, <1>3, AdmittedIsRemembered
  <1>6. \A c \in Bases : Remembers(recent'[c], ring'[c])
    BY <1>1, <1>5 DEF IInv, AdmissionsKept, new
  <1>7. ASSUME NEW s \in Requests, pc'[s] = "persisting"
        PROVE  /\ Remembers(recent'[work'[s].base], work'[s].entry)
               /\ ~Contains(work'[s].entry, req'[s].body.seq)
    <2>1. /\ s # r /\ pc[s] = "persisting" /\ work'[s] = work[s]
          /\ req'[s] = req[s]
      BY <1>7
    <2>2. /\ Remembers(recent[work[s].base], work[s].entry)
          /\ ~Contains(work[s].entry, req[s].body.seq)
          /\ work[s].base \in Bases /\ work[s].entry \in Seq(Seqs)
      <3>1. work[s] \in WorkRecords  BY DEF IInv, WorkShape
      <3>. QED  BY <2>1, <3>1 DEF IInv, AdmissionsKept, Stages, Identified,
         BaseIsOf, WorkRecords
    <2>3. CASE work[s].base = b
      <3>1. a.overlapped  BY <2>1, <2>3, <1>4 DEF Overlapped, b
      <3>2. Remembers(old, work[s].entry)  BY <2>2, <2>3 DEF old
      <3>3. Remembers(new, work[s].entry)
        BY <2>2, <3>1, <3>2, <1>1, AdmittedIsRemembered
      <3>. QED  BY <2>1, <2>2, <2>3, <3>3 DEF new
    <2>4. CASE work[s].base # b
      BY <2>1, <2>2, <2>4, <1>1
    <2>. QED  BY <2>3, <2>4
  <1>8. ASSUME ~redis', NEW c \in Bases, NEW i \in 1..Len(recent'[c])
        PROVE  ~recent'[c][i].overlapped
    <2>1. \A d \in Bases : \A j \in 1..Len(recent[d]) :
            ~recent[d][j].overlapped
      BY <1>8 DEF IInv, AdmissionsKept
    <2>2. ~a.overlapped
      BY <1>4, <1>8 DEF IInv, Stages, Overlapped
    <2>3. CASE c = b  BY <2>1, <2>2, <2>3, <1>1, <1>5, <1>8 DEF new, old
    <2>4. CASE c # b  BY <2>1, <2>4, <1>1, <1>8
    <2>. QED  BY <2>3, <2>4
  <1>9. \A c \in Bases : RepeatsOverlapped(recent'[c])
    <2>. SUFFICES ASSUME NEW c \in Bases PROVE RepeatsOverlapped(recent'[c])
      OBVIOUS
    <2>1. CASE c = b  BY <2>1, <1>5 DEF new
    <2>2. CASE c # b
      <3>1. RepeatsOverlapped(recent[c])
        BY DEF IInv, RepeatsOnlyByOverlap, RepeatsOverlapped
      <3>. QED  BY <2>2, <3>1, <1>1
    <2>. QED  BY <2>1, <2>2
  <1>10. AdmissionsKept'  BY <1>6, <1>7, <1>8 DEF AdmissionsKept
  <1>11. RepeatsOnlyByOverlap'
    BY <1>9 DEF RepeatsOnlyByOverlap, RepeatsOverlapped
  <1>. QED  BY <1>10, <1>11

-----------------------------------------------------------------------------
(* No request, no name, no history.                                           *)
LEMMA InitIInv == Init => IInv
  <1>. SUFFICES ASSUME Init PROVE IInv  OBVIOUS
  <1>. USE IngestConstants DEF Init
  <1>1. TypeOK
    BY DEF TypeOK, RequestStates, NoRate
  <1>2. WorkShape
    BY NoWorkIsWork DEF WorkShape
  <1>3. Stages
    BY DEF Stages, Identified
  <1>4. NamesDiffer
    BY DEF NamesDiffer
  <1>5. ExportedIsMapped
    BY DEF ExportedIsMapped
  <1>6. AcceptIsTrue
    BY DEF AcceptIsTrue
  <1>7. StoredAcceptIsTrue
    BY DEF StoredAcceptIsTrue
  <1>8. CountedOnce
    BY DEF CountedOnce, NoRate
  <1>9. RecentShape
    BY DEF RecentShape
  <1>10. AdmissionsKept /\ RepeatsOnlyByOverlap
    BY DEF AdmissionsKept, Remembers, RepeatsOnlyByOverlap
  <1>11. AnsweredAreOvertaken
    BY DEF AnsweredAreOvertaken
  <1>12. RingAccounted
    BY DEF RingAccounted, Contains
  <1>13. LoadedAccounted
    BY DEF LoadedAccounted
  <1>. QED  BY <1>1, <1>2, <1>3, <1>4, <1>5, <1>6, <1>7, <1>8, <1>9, <1>10,
     <1>11, <1>12, <1>13
     DEF IInv

(* A request that arrives is answered from the store, refused, or starts.     *)
LEMMA ArriveKeepsIInv ==
  ASSUME IInv, NEW r \in Requests, Arrive(r)  PROVE  IInv'
  <1>a. /\ \A s \in Requests \ {r} : pc'[s] = pc[s] /\ req'[s] = req[s]
             /\ work'[s] = work[s]
        /\ pc' \in [Requests -> RequestStates]
        /\ work' \in [Requests -> WorkRecords]
        /\ UNCHANGED <<redis, keyVersion, responses, rate, ring, mapping, work,
                       passed, recent, exported, queued, dropped, overtaken>>
        /\ pc[r] = "idle" /\ pc'[r] \in {"idle", "verifying"}
    BY DEF Arrive, Goto, RequestStates, stores, IInv, TypeOK, WorkShape
  <1>b. /\ pc'[r] # "idle" => req'[r] \in RequestRecords
        /\ req' \in [Requests -> {None} \cup RequestRecords]
    <2>1. CASE UNCHANGED <<pc, req>>
      BY <2>1, <1>a DEF IInv, TypeOK, RequestRecords
    <2>2. ASSUME NEW body \in Bodies, NEW key \in Keys \cup {NoKey},
                 req' = [req EXCEPT ![r] = [body |-> body, key |-> key]]
          PROVE  /\ req'[r] \in RequestRecords
                 /\ req' \in [Requests -> {None} \cup RequestRecords]
      <3>1. [body |-> body, key |-> key] \in RequestRecords
        BY DEF RequestRecords
      <3>2. req \in [Requests -> {None} \cup RequestRecords]
        BY DEF IInv, TypeOK, RequestRecords
      <3>. QED  BY <2>2, <3>1, <3>2
    <2>. QED  BY <2>1, <2>2 DEF Arrive
  <1>0. \A c \in Bases, x \in Seqs : Accounted(c, x) => Accounted(c, x)'
    BY <1>a, <1>b, AccountedStays DEF Admitted
  <1>1. TypeOK'
    BY <1>a, <1>b DEF IInv, TypeOK, RequestRecords
  <1>2. WorkShape'
    BY <1>a, <1>b DEF WorkShape
  <1>3. Stages'
    BY <1>a, <1>b DEF IInv, Stages, Identified, Device
  <1>4. NamesDiffer'
    BY <1>a, <1>b DEF IInv, NamesDiffer
  <1>5. ExportedIsMapped'
    BY <1>a, <1>b DEF IInv, ExportedIsMapped
  <1>6. AcceptIsTrue'
    BY <1>a, <1>b DEF IInv, AcceptIsTrue, Device
  <1>7. StoredAcceptIsTrue'
    BY <1>a, <1>b DEF IInv, StoredAcceptIsTrue
  <1>8. CountedOnce'
    BY <1>a, <1>b, CountsStay
  <1>9. RecentShape'
    BY <1>a, <1>b DEF IInv, RecentShape
  <1>10. AdmissionsKept' /\ RepeatsOnlyByOverlap'
    BY <1>a, AdmissionsStay
  <1>11. AnsweredAreOvertaken'
    <2>. SUFFICES ASSUME NEW k \in Keys, NEW s \in Requests,
                         responses[k] # None,
                         pc'[s] # "idle", req'[s].key = k
                  PROVE  s \in overtaken
      BY <1>a DEF AnsweredAreOvertaken
    <2>1. CASE UNCHANGED <<pc, req>>
      BY <2>1 DEF IInv, AnsweredAreOvertaken
    <2>2. ASSUME NEW body \in Bodies, NEW key \in Keys \cup {NoKey},
                 ~Answered(key),
                 req' = [req EXCEPT ![r] = [body |-> body, key |-> key]]
          PROVE  s \in overtaken
      <3>1. CASE s = r
        <4>1. req \in [Requests -> {None} \cup RequestRecords]
          BY DEF IInv, TypeOK, RequestRecords
        <4>2. req'[r].key = key  BY <2>2, <4>1
        <4>. QED  BY <2>2, <3>1, <4>2 DEF Answered
      <3>2. CASE s # r
        BY <3>2, <1>a DEF IInv, AnsweredAreOvertaken
      <3>. QED  BY <3>1, <3>2
    <2>. QED  BY <2>1, <2>2 DEF Arrive
  <1>12. RingAccounted'
    BY <1>0, <1>a, <1>b DEF IInv, RingAccounted
  <1>13. LoadedAccounted'
    BY <1>0, <1>a, <1>b DEF IInv, LoadedAccounted
  <1>. QED  BY <1>1, <1>2, <1>3, <1>4, <1>5, <1>6, <1>7, <1>8, <1>9, <1>10,
     <1>11, <1>12, <1>13
     DEF IInv

(* A flawed body is refused before anything is counted.                       *)
LEMMA RejectBodyKeepsIInv ==
  ASSUME IInv, NEW r \in Requests, RejectBody(r)  PROVE  IInv'
  <1>p. /\ pc[r] = "verifying" /\ work' = [work EXCEPT ![r].status = "4xx"]
        /\ \/ pc' = [pc EXCEPT ![r] = "sending"]
           \/ pc' = [pc EXCEPT ![r] = "recording"]
        /\ UNCHANGED <<redis, keyVersion, responses, rate, ring, mapping, req,
                       arrived, passed, recent, exported, queued, dropped,
                       overtaken>>
    BY DEF RejectBody, Reply, RefuseAndRecord, Goto, stores, history
  <1>a. /\ \A s \in Requests \ {r} : pc'[s] = pc[s] /\ req'[s] = req[s]
             /\ work'[s] = work[s]
        /\ pc' \in [Requests -> RequestStates]
        /\ work' \in [Requests -> WorkRecords]
        /\ pc'[r] \in {"sending", "recording"} /\ work'[r].status = "4xx"
    <2>1. work[r] \in WorkRecords /\ work \in [Requests -> WorkRecords]
      BY DEF IInv, WorkShape
    <2>2. [work[r] EXCEPT !.status = "4xx"] \in WorkRecords
      BY <2>1, WorkFacts DEF Statuses
    <2>3. [work[r] EXCEPT !.status = "4xx"].status = "4xx"
      BY <2>1 DEF WorkRecords
    <2>. QED  BY <2>1, <2>2, <2>3, <1>p DEF RequestStates, IInv, TypeOK
  <1>0. \A c \in Bases, x \in Seqs : Accounted(c, x) => Accounted(c, x)'
    BY <1>a, <1>p, AccountedStays DEF Admitted
  <1>1. TypeOK'
    BY <1>a, <1>p DEF IInv, TypeOK
  <1>2. WorkShape'
    BY <1>a, <1>p DEF WorkShape
  <1>3. Stages'
    BY <1>a, <1>p DEF IInv, Stages, Statuses, Identified, Device
  <1>4. NamesDiffer'
    BY <1>a, <1>p DEF IInv, NamesDiffer
  <1>5. ExportedIsMapped'
    BY <1>a, <1>p DEF IInv, ExportedIsMapped
  <1>6. AcceptIsTrue'
    BY <1>a, <1>p DEF IInv, AcceptIsTrue, Device
  <1>7. StoredAcceptIsTrue'
    BY <1>a, <1>p DEF IInv, StoredAcceptIsTrue
  <1>8. CountedOnce'
    BY <1>a, <1>p, CountsStay
  <1>9. RecentShape'
    BY <1>a, <1>p DEF IInv, RecentShape
  <1>10. AdmissionsKept' /\ RepeatsOnlyByOverlap'
    BY <1>a, <1>p, AdmissionsStay
  <1>11. AnsweredAreOvertaken'
    BY <1>a, <1>p, OvertakenStay
  <1>12. RingAccounted'
    BY <1>0, <1>a, <1>p DEF IInv, RingAccounted
  <1>13. LoadedAccounted'
    BY <1>0, <1>a, <1>p DEF IInv, LoadedAccounted
  <1>. QED  BY <1>1, <1>2, <1>3, <1>4, <1>5, <1>6, <1>7, <1>8, <1>9, <1>10,
     <1>11, <1>12, <1>13
     DEF IInv

(* The pseudonym is computed with the key cached now.                         *)
LEMMA PseudonymizeKeepsIInv ==
  ASSUME IInv, NEW r \in Requests, Pseudonymize(r)  PROVE  IInv'
  <1>p. /\ pc[r] = "verifying" /\ pc' = [pc EXCEPT ![r] = "limiting"]
        /\ work' = [work EXCEPT ![r].base = Hmac[keyVersion][Device(r)]]
        /\ UNCHANGED <<redis, keyVersion, responses, rate, ring, mapping, req,
                       arrived, passed, recent, exported, queued, dropped,
                       overtaken>>
    BY DEF Pseudonymize, Device, Goto, stores, history
  <1>q. BaseIsOf(Hmac[keyVersion][Device(r)], Device(r))
    <2>1. req[r] \in RequestRecords  BY <1>p DEF IInv, Stages
    <2>2. Device(r) \in Devices  BY <2>1 DEF Device, RequestRecords, Bodies
    <2>. QED  BY <2>2, IngestConstants DEF BaseIsOf, IInv, TypeOK
  <1>a. /\ \A s \in Requests \ {r} : pc'[s] = pc[s] /\ req'[s] = req[s]
             /\ work'[s] = work[s]
        /\ pc' \in [Requests -> RequestStates]
        /\ work' \in [Requests -> WorkRecords]
        /\ pc'[r] = "limiting" /\ work'[r].base = Hmac[keyVersion][Device(r)]
    <2>. DEFINE h == Hmac[keyVersion][Device(r)]
    <2>1. work[r] \in WorkRecords /\ work \in [Requests -> WorkRecords]
      BY DEF IInv, WorkShape
    <2>2. [work[r] EXCEPT !.base = h] \in WorkRecords
      BY <2>1, <1>q, WorkFacts DEF BaseIsOf
    <2>3. [work[r] EXCEPT !.base = h].base = h  BY <2>1 DEF WorkRecords
    <2>. QED  BY <2>1, <2>2, <2>3, <1>p DEF RequestStates, IInv, TypeOK
  <1>0. \A c \in Bases, x \in Seqs : Accounted(c, x) => Accounted(c, x)'
    BY <1>a, <1>p, <1>q, AccountedStays DEF Admitted
  <1>1. TypeOK'
    BY <1>a, <1>p, <1>q DEF IInv, TypeOK
  <1>2. WorkShape'
    BY <1>a, <1>p, <1>q DEF WorkShape
  <1>3. Stages'
    BY <1>a, <1>p, <1>q DEF IInv, Stages, Device
  <1>4. NamesDiffer'
    BY <1>a, <1>p, <1>q DEF IInv, NamesDiffer
  <1>5. ExportedIsMapped'
    BY <1>a, <1>p, <1>q DEF IInv, ExportedIsMapped
  <1>6. AcceptIsTrue'
    BY <1>a, <1>p, <1>q DEF IInv, AcceptIsTrue, Device
  <1>7. StoredAcceptIsTrue'
    BY <1>a, <1>p, <1>q DEF IInv, StoredAcceptIsTrue
  <1>8. CountedOnce'
    BY <1>a, <1>p, <1>q, CountsStay
  <1>9. RecentShape'
    BY <1>a, <1>p, <1>q DEF IInv, RecentShape
  <1>10. AdmissionsKept' /\ RepeatsOnlyByOverlap'
    BY <1>a, <1>p, AdmissionsStay
  <1>11. AnsweredAreOvertaken'
    BY <1>a, <1>p, OvertakenStay
  <1>12. RingAccounted'
    BY <1>0, <1>a, <1>p, <1>q DEF IInv, RingAccounted
  <1>13. LoadedAccounted'
    BY <1>0, <1>a, <1>p, <1>q DEF IInv, LoadedAccounted
  <1>. QED  BY <1>1, <1>2, <1>3, <1>4, <1>5, <1>6, <1>7, <1>8, <1>9, <1>10,
     <1>11, <1>12, <1>13
     DEF IInv

(* A counter that is below the limit is incremented with the reading that     *)
(* passes; with Redis it gets its expiry in a second step.                    *)
LEMMA ConsumeKeepsIInv ==
  ASSUME IInv, NEW r \in Requests, Consume(r)  PROVE  IInv'
  <1>. DEFINE b == work[r].base
  <1>p. /\ pc[r] = "limiting" /\ b \in Bases /\ rate[b].count \in Nat
        /\ rate' = [rate EXCEPT ![b].count = rate[b].count + 1]
        /\ UNCHANGED <<redis, keyVersion, responses, ring, mapping, req,
                       arrived, recent, exported, queued, dropped, overtaken>>
    BY DEF Consume, IInv, Stages, Identified, BaseIsOf, TypeOK
  <1>b. /\ rate' \in [Bases -> [count : Nat, expires : BOOLEAN]]
        /\ \A c \in Bases : rate'[c].expires = rate[c].expires
        /\ \A c \in Bases \ {b} : rate'[c].count = rate[c].count
        /\ rate'[b].count = rate[b].count + 1
    <2>. DEFINE n == rate[b].count + 1
    <2>1. rate[b] \in [count : Nat, expires : BOOLEAN] /\ n \in Nat
      BY <1>p DEF IInv, TypeOK
    <2>. HIDE DEF n
    <2>2. [rate[b] EXCEPT !.count = n] \in [count : Nat, expires : BOOLEAN]
      BY <2>1
    <2>3. rate' = [rate EXCEPT ![b] = [rate[b] EXCEPT !.count = n]]
      BY <1>p DEF n
    <2>. QED  BY <2>1, <2>2, <2>3, <1>p DEF IInv, TypeOK
  <1>c. \/ /\ rate[b].count = 0 /\ redis /\ pc' = [pc EXCEPT ![r] = "expiring"]
           /\ work' = work /\ passed' = passed
        \/ /\ rate[b].count + 1 <= RateLimit /\ ~(rate[b].count = 0 /\ redis)
           /\ pc' = [pc EXCEPT ![r] = "checking"] /\ work' = work
           /\ passed' = [passed EXCEPT ![b] = @ + 1]
        \/ /\ pc' = [pc EXCEPT ![r] = "recording"] /\ passed' = passed
           /\ work' = [work EXCEPT ![r].status = "4xx"]
    <2>1. CASE rate[b].count + 1 = 1 /\ redis
                 /\ pc' = [pc EXCEPT ![r] = "expiring"]
                 /\ UNCHANGED <<work, passed>>
      BY <2>1, <1>p
    <2>2. CASE ~OverLimit(rate[b].count + 1)
                 /\ ~(rate[b].count + 1 = 1 /\ redis) /\ LetPass(r, b)
      BY <2>2, <1>p, IngestConstants DEF OverLimit, LetPass, Goto
    <2>3. CASE RefuseAndRecord(r) /\ UNCHANGED passed
      BY <2>3 DEF RefuseAndRecord, Goto
    <2>. QED  BY <2>1, <2>2, <2>3 DEF Consume, Goto
  <1>a. /\ \A s \in Requests \ {r} : pc'[s] = pc[s] /\ req'[s] = req[s]
             /\ work'[s] = work[s]
        /\ pc' \in [Requests -> RequestStates]
        /\ work' \in [Requests -> WorkRecords]
        /\ work'[r].base = b
        /\ pc'[r] \in {"expiring", "checking", "recording"}
        /\ pc'[r] = "expiring" => redis
        /\ pc'[r] = "recording" => work'[r].status = "4xx"
    <2>1. work[r] \in WorkRecords /\ work \in [Requests -> WorkRecords]
      BY DEF IInv, WorkShape
    <2>2. [work[r] EXCEPT !.status = "4xx"] \in WorkRecords
      BY <2>1, WorkFacts DEF Statuses
    <2>3. /\ [work[r] EXCEPT !.status = "4xx"].status = "4xx"
          /\ [work[r] EXCEPT !.status = "4xx"].base = work[r].base
      BY <2>1 DEF WorkRecords
    <2>4. /\ pc \in [Requests -> RequestStates] /\ req' = req
          /\ {"expiring", "checking", "recording"} \subseteq RequestStates
      BY <1>p DEF IInv, TypeOK, RequestStates
    <2>5. CASE /\ redis /\ pc' = [pc EXCEPT ![r] = "expiring"]
               /\ work' = work
      BY <2>1, <2>4, <2>5
    <2>6. CASE pc' = [pc EXCEPT ![r] = "checking"] /\ work' = work
      BY <2>1, <2>4, <2>6
    <2>7. CASE /\ pc' = [pc EXCEPT ![r] = "recording"]
               /\ work' = [work EXCEPT ![r].status = "4xx"]
      <3>1. work' = [work EXCEPT ![r] = [work[r] EXCEPT !.status = "4xx"]]
        BY <2>7
      <3>. QED  BY <2>1, <2>2, <2>3, <2>4, <2>7, <3>1
    <2>. QED  BY <2>5, <2>6, <2>7, <1>c
  <1>0. \A c \in Bases, x \in Seqs : Accounted(c, x) => Accounted(c, x)'
    BY <1>a, <1>b, <1>p, AccountedStays DEF Admitted
  <1>1. TypeOK'
    BY <1>a, <1>b, <1>p DEF IInv, TypeOK
  <1>2. WorkShape'
    BY <1>a, <1>b, <1>p DEF WorkShape
  <1>3. Stages'
    BY <1>a, <1>b, <1>p DEF IInv, Stages, Identified, Device
  <1>4. NamesDiffer'
    BY <1>a, <1>b, <1>p DEF IInv, NamesDiffer
  <1>5. ExportedIsMapped'
    BY <1>a, <1>b, <1>p DEF IInv, ExportedIsMapped
  <1>6. AcceptIsTrue'
    BY <1>a, <1>b, <1>p DEF IInv, AcceptIsTrue, Device
  <1>7. StoredAcceptIsTrue'
    BY <1>a, <1>b, <1>p DEF IInv, StoredAcceptIsTrue
  <1>8. CountedOnce'
    <2>. HIDE DEF b
    <2>1. /\ passed \in [Bases -> Nat] /\ RateLimit \in Nat
          /\ \A c \in Bases : passed[c] <= RateLimit
               /\ passed[c] <= rate[c].count
          /\ \A c \in Bases : rate[c].count \in Nat
          /\ \A c \in Bases : rate[c].expires => rate[c].count > 0
          /\ \A s \in Requests : \A c \in Bases : pc[s] = "expiring"
               /\ work[s].base = c =>
               /\ passed[c] + 1 <= RateLimit /\ passed[c] + 1 <= rate[c].count
               /\ ~rate[c].expires
               /\ \A t \in Requests : pc[t] = "expiring" /\ work[t].base = c =>
                    t = s
      BY IngestConstants DEF IInv, CountedOnce, TypeOK
    <2>2. CASE /\ rate[b].count = 0 /\ redis
               /\ pc' = [pc EXCEPT ![r] = "expiring"]
               /\ work' = work /\ passed' = passed
      <3>1. passed[b] = 0 /\ rate'[b].count = 1 /\ 1 <= RateLimit
        BY <2>1, <2>2, <1>b, <1>p, IngestConstants
      <3>2. \A s \in Requests : ~(pc[s] = "expiring" /\ work[s].base = b)
        BY <2>1, <2>2, <1>p
      <3>3. ~rate[b].expires  BY <2>1, <2>2, <1>p
      <3>. QED  BY <2>1, <2>2, <3>1, <3>2, <3>3, <1>a, <1>b, <1>p
         DEF CountedOnce
    <2>3. CASE /\ rate[b].count + 1 <= RateLimit
               /\ ~(rate[b].count = 0 /\ redis)
               /\ pc' = [pc EXCEPT ![r] = "checking"] /\ work' = work
               /\ passed' = [passed EXCEPT ![b] = @ + 1]
      <3>1. /\ passed' \in [Bases -> Nat]
            /\ passed'[b] = passed[b] + 1
            /\ \A c \in Bases \ {b} : passed'[c] = passed[c]
        BY <2>1, <2>3, <1>p
      <3>2. \A s \in Requests : pc'[s] = "expiring" => pc[s] = "expiring"
              /\ work'[s].base = work[s].base
        BY <2>3, <1>a
      <3>3. \A c \in Bases : passed'[c] <= RateLimit
              /\ passed'[c] <= rate'[c].count
        BY <2>1, <2>3, <3>1, <1>b, <1>p
      <3>4. \A s \in Requests : \A c \in Bases : pc'[s] = "expiring"
              /\ work'[s].base = c =>
               /\ passed'[c] + 1 <= RateLimit
               /\ passed'[c] + 1 <= rate'[c].count
               /\ ~rate'[c].expires
        BY <2>1, <2>3, <3>1, <3>2, <1>b, <1>p
      <3>5. \A c \in Bases : rate'[c].expires => rate'[c].count > 0
        BY <2>1, <1>b
      <3>. QED  BY <2>1, <3>1, <3>2, <3>3, <3>4, <3>5 DEF CountedOnce
    <2>4. CASE /\ pc' = [pc EXCEPT ![r] = "recording"] /\ passed' = passed
      <3>1. \A s \in Requests : pc'[s] = "expiring" => pc[s] = "expiring"
              /\ work'[s].base = work[s].base
        BY <2>4, <1>a
      <3>2. \A c \in Bases : rate[c].count <= rate'[c].count
              /\ rate'[c].count \in Nat
        BY <2>1, <1>b
      <3>3. \A c \in Bases : passed[c] <= rate'[c].count
        BY <2>1, <3>2
      <3>4. \A s \in Requests : \A c \in Bases : pc'[s] = "expiring"
              /\ work'[s].base = c =>
               passed[c] + 1 <= rate'[c].count
        BY <2>1, <3>1, <3>2
      <3>. QED  BY <2>1, <2>4, <3>1, <3>3, <3>4, <1>b DEF CountedOnce
    <2>. QED  BY <2>2, <2>3, <2>4, <1>c DEF b
  <1>9. RecentShape'
    BY <1>a, <1>b, <1>p DEF IInv, RecentShape
  <1>10. AdmissionsKept' /\ RepeatsOnlyByOverlap'
    BY <1>a, <1>p, AdmissionsStay
  <1>11. AnsweredAreOvertaken'
    BY <1>a, <1>p, OvertakenStay
  <1>12. RingAccounted'
    BY <1>0, <1>a, <1>b, <1>p DEF IInv, RingAccounted
  <1>13. LoadedAccounted'
    BY <1>0, <1>a, <1>b, <1>p DEF IInv, LoadedAccounted
  <1>. QED  BY <1>1, <1>2, <1>3, <1>4, <1>5, <1>6, <1>7, <1>8, <1>9, <1>10,
     <1>11, <1>12, <1>13
     DEF IInv

(* The first request of a minute gives its bucket an expiry and passes.       *)
LEMMA SetExpiryKeepsIInv ==
  ASSUME IInv, NEW r \in Requests, SetExpiry(r)  PROVE  IInv'
  <1>. DEFINE b == work[r].base
  <1>p. /\ pc[r] = "expiring" /\ b \in Bases /\ redis
        /\ rate' = [rate EXCEPT ![b].expires = TRUE]
        /\ pc' = [pc EXCEPT ![r] = "checking"]
        /\ passed' = [passed EXCEPT ![b] = @ + 1]
        /\ UNCHANGED <<redis, keyVersion, responses, ring, mapping, req, work,
                       arrived, recent, exported, queued, dropped, overtaken>>
    BY DEF SetExpiry, LetPass, Goto, IInv, Stages, Identified, BaseIsOf
  <1>b. /\ rate' \in [Bases -> [count : Nat, expires : BOOLEAN]]
        /\ \A c \in Bases : rate'[c].count = rate[c].count
        /\ \A c \in Bases \ {b} : rate'[c].expires = rate[c].expires
    <2>1. rate \in [Bases -> [count : Nat, expires : BOOLEAN]]
      BY DEF IInv, TypeOK
    <2>2. b \in Bases  BY <1>p
    <2>. HIDE DEF b
    <2>3. rate[b] \in [count : Nat, expires : BOOLEAN]  BY <2>1, <2>2
    <2>4. /\ [rate[b] EXCEPT !.expires = TRUE]
               \in [count : Nat, expires : BOOLEAN]
          /\ [rate[b] EXCEPT !.expires = TRUE].count = rate[b].count
      BY <2>3
    <2>5. rate' = [rate EXCEPT ![b] = [rate[b] EXCEPT !.expires = TRUE]]
      BY <1>p
    <2>. QED  BY <2>1, <2>2, <2>4, <2>5
  <1>a. /\ \A s \in Requests \ {r} : pc'[s] = pc[s] /\ req'[s] = req[s]
             /\ work'[s] = work[s]
        /\ pc' \in [Requests -> RequestStates]
        /\ work' \in [Requests -> WorkRecords]
        /\ pc'[r] = "checking"
    BY <1>p DEF RequestStates, IInv, TypeOK, WorkShape
  <1>0. \A c \in Bases, x \in Seqs : Accounted(c, x) => Accounted(c, x)'
    BY <1>a, <1>b, <1>p, AccountedStays DEF Admitted
  <1>1. TypeOK'
    BY <1>a, <1>b, <1>p DEF IInv, TypeOK
  <1>2. WorkShape'
    BY <1>a, <1>b, <1>p DEF WorkShape
  <1>3. Stages'
    BY <1>a, <1>b, <1>p DEF IInv, Stages, Identified, Device
  <1>4. NamesDiffer'
    BY <1>a, <1>b, <1>p DEF IInv, NamesDiffer
  <1>5. ExportedIsMapped'
    BY <1>a, <1>b, <1>p DEF IInv, ExportedIsMapped
  <1>6. AcceptIsTrue'
    BY <1>a, <1>b, <1>p DEF IInv, AcceptIsTrue, Device
  <1>7. StoredAcceptIsTrue'
    BY <1>a, <1>b, <1>p DEF IInv, StoredAcceptIsTrue
  <1>8. CountedOnce'
    <2>. HIDE DEF b
    <2>1. /\ passed \in [Bases -> Nat] /\ RateLimit \in Nat
          /\ \A c \in Bases : passed[c] <= RateLimit
               /\ passed[c] <= rate[c].count
          /\ \A c \in Bases : rate[c].count \in Nat
          /\ \A c \in Bases : rate[c].expires => rate[c].count > 0
          /\ \A s \in Requests : \A c \in Bases : pc[s] = "expiring"
               /\ work[s].base = c =>
               /\ passed[c] + 1 <= RateLimit /\ passed[c] + 1 <= rate[c].count
               /\ ~rate[c].expires
               /\ \A t \in Requests : pc[t] = "expiring" /\ work[t].base = c =>
                    t = s
      BY IngestConstants DEF IInv, CountedOnce, TypeOK
    <2>2. /\ passed' \in [Bases -> Nat] /\ passed'[b] = passed[b] + 1
          /\ \A c \in Bases \ {b} : passed'[c] = passed[c]
      BY <2>1, <1>p
    <2>3. /\ passed[b] + 1 <= RateLimit /\ passed[b] + 1 <= rate[b].count
          /\ \A s \in Requests \ {r} : ~(pc[s] = "expiring" /\ work[s].base = b)
      BY <2>1, <1>p DEF b
    <2>4. \A s \in Requests : pc'[s] = "expiring" =>
            s # r /\ pc[s] = "expiring" /\ work'[s].base = work[s].base
              /\ work[s].base # b
      BY <2>3, <1>a
    <2>5. \A c \in Bases : passed'[c] <= RateLimit
            /\ passed'[c] <= rate'[c].count
      BY <2>1, <2>2, <2>3, <1>b, <1>p
    <2>6. \A c \in Bases : rate'[c].expires => rate'[c].count > 0
      BY <2>1, <2>3, <1>b, <1>p
    <2>7. \A s \in Requests : \A c \in Bases : pc'[s] = "expiring"
            /\ work'[s].base = c =>
               /\ passed'[c] + 1 <= RateLimit
               /\ passed'[c] + 1 <= rate'[c].count
               /\ ~rate'[c].expires
               /\ \A t \in Requests : pc'[t] = "expiring"
                    /\ work'[t].base = c => t = s
      BY <2>1, <2>2, <2>4, <1>b, <1>p
    <2>. QED  BY <2>2, <2>5, <2>6, <2>7 DEF CountedOnce
  <1>9. RecentShape'
    BY <1>a, <1>b, <1>p DEF IInv, RecentShape
  <1>10. AdmissionsKept' /\ RepeatsOnlyByOverlap'
    BY <1>a, <1>p, AdmissionsStay
  <1>11. AnsweredAreOvertaken'
    BY <1>a, <1>p, OvertakenStay
  <1>12. RingAccounted'
    BY <1>0, <1>a, <1>b, <1>p DEF IInv, RingAccounted
  <1>13. LoadedAccounted'
    BY <1>0, <1>a, <1>b, <1>p DEF IInv, LoadedAccounted
  <1>. QED  BY <1>1, <1>2, <1>3, <1>4, <1>5, <1>6, <1>7, <1>8, <1>9, <1>10,
     <1>11, <1>12, <1>13
     DEF IInv

(* An old reading is refused before the ring is asked.                        *)
LEMMA OutOfWindowKeepsIInv ==
  ASSUME IInv, NEW r \in Requests, OutOfWindow(r)  PROVE  IInv'
  <1>p. /\ pc[r] = "checking" /\ work' = [work EXCEPT ![r].status = "4xx"]
        /\ pc' = [pc EXCEPT ![r] = "recording"]
        /\ UNCHANGED <<redis, keyVersion, responses, rate, ring, mapping, req,
                       arrived, passed, recent, exported, queued, dropped,
                       overtaken>>
    BY DEF OutOfWindow, RefuseAndRecord, Goto, stores, history
  <1>a. /\ \A s \in Requests \ {r} : pc'[s] = pc[s] /\ req'[s] = req[s]
             /\ work'[s] = work[s]
        /\ pc' \in [Requests -> RequestStates]
        /\ work' \in [Requests -> WorkRecords]
        /\ pc'[r] = "recording" /\ work'[r].status = "4xx"
    <2>1. work[r] \in WorkRecords /\ work \in [Requests -> WorkRecords]
      BY DEF IInv, WorkShape
    <2>2. [work[r] EXCEPT !.status = "4xx"] \in WorkRecords
      BY <2>1, WorkFacts DEF Statuses
    <2>3. [work[r] EXCEPT !.status = "4xx"].status = "4xx"
      BY <2>1 DEF WorkRecords
    <2>. QED  BY <2>1, <2>2, <2>3, <1>p DEF RequestStates, IInv, TypeOK
  <1>0. \A c \in Bases, x \in Seqs : Accounted(c, x) => Accounted(c, x)'
    BY <1>a, <1>p, AccountedStays DEF Admitted
  <1>1. TypeOK'
    BY <1>a, <1>p DEF IInv, TypeOK
  <1>2. WorkShape'
    BY <1>a, <1>p DEF WorkShape
  <1>3. Stages'
    BY <1>a, <1>p DEF IInv, Stages, Identified, Device
  <1>4. NamesDiffer'
    BY <1>a, <1>p DEF IInv, NamesDiffer
  <1>5. ExportedIsMapped'
    BY <1>a, <1>p DEF IInv, ExportedIsMapped
  <1>6. AcceptIsTrue'
    BY <1>a, <1>p DEF IInv, AcceptIsTrue, Device
  <1>7. StoredAcceptIsTrue'
    BY <1>a, <1>p DEF IInv, StoredAcceptIsTrue
  <1>8. CountedOnce'
    BY <1>a, <1>p, CountsStay
  <1>9. RecentShape'
    BY <1>a, <1>p DEF IInv, RecentShape
  <1>10. AdmissionsKept' /\ RepeatsOnlyByOverlap'
    BY <1>a, <1>p, AdmissionsStay
  <1>11. AnsweredAreOvertaken'
    BY <1>a, <1>p, OvertakenStay
  <1>12. RingAccounted'
    BY <1>0, <1>a, <1>p DEF IInv, RingAccounted
  <1>13. LoadedAccounted'
    BY <1>0, <1>a, <1>p DEF IInv, LoadedAccounted
  <1>. QED  BY <1>1, <1>2, <1>3, <1>4, <1>5, <1>6, <1>7, <1>8, <1>9, <1>10,
     <1>11, <1>12, <1>13
     DEF IInv

(* Without Redis a number is looked up and admitted in one step; with it, the *)
(* ring is read and an await follows.                                         *)
LEMMA CheckSeqKeepsIInv ==
  ASSUME IInv, NEW r \in Requests, CheckSeq(r)  PROVE  IInv'
  <1>. DEFINE b == work[r].base
              seq == req[r].body.seq
  <1>p. /\ pc[r] = "checking" /\ pc[r] \in Identified /\ b \in Bases
        /\ seq \in Seqs
        /\ ring[b] \in Seq(Seqs)
        /\ UNCHANGED <<redis, keyVersion, responses, rate, mapping, req,
                       arrived, passed, exported, queued, dropped, overtaken>>
    <2>1. pc[r] = "checking" /\ pc[r] \in Identified
      BY DEF CheckSeq, Identified
    <2>2. req[r] \in RequestRecords /\ b \in Bases
      BY <2>1 DEF IInv, Stages, BaseIsOf
    <2>3. seq \in Seqs  BY <2>2 DEF RequestRecords, Bodies
    <2>. QED  BY <2>1, <2>2, <2>3 DEF CheckSeq, IInv, TypeOK
  <1>c. \/ /\ pc' = [pc EXCEPT ![r] = "sending"]
           /\ work' = [work EXCEPT ![r].status = "4xx"]
           /\ UNCHANGED <<ring, recent>>
        \/ /\ pc' = [pc EXCEPT ![r] = "persisting"] /\ redis
           /\ ~Contains(ring[b], seq)
           /\ work' = [work EXCEPT ![r].entry = ring[b]]
           /\ UNCHANGED <<ring, recent>>
        \/ /\ pc' = [pc EXCEPT ![r] = "mapping"] /\ ~redis
           /\ ~Contains(ring[b], seq) /\ Admit(r, ring[b]) /\ UNCHANGED work
    BY DEF CheckSeq, Reply, Admit, Goto
  <1>d. \/ UNCHANGED <<ring, recent>>
        \/ /\ ~redis /\ ~Contains(ring[b], seq) /\ Admit(r, ring[b])
           /\ pc'[r] = "mapping" /\ work'[r] = work[r]
    BY <1>c, <1>p DEF IInv, TypeOK
  <1>a. /\ \A s \in Requests \ {r} : pc'[s] = pc[s] /\ req'[s] = req[s]
             /\ work'[s] = work[s]
        /\ pc' \in [Requests -> RequestStates]
        /\ work' \in [Requests -> WorkRecords]
        /\ work'[r].base = b
        /\ pc'[r] \in {"sending", "persisting", "mapping"}
        /\ pc'[r] = "sending" => work'[r].status = "4xx"
        /\ pc'[r] = "persisting" =>
             redis /\ work'[r].entry = ring[b] /\ ~Contains(ring[b], seq)
    <2>1. work[r] \in WorkRecords /\ work \in [Requests -> WorkRecords]
      BY DEF IInv, WorkShape
    <2>2. /\ [work[r] EXCEPT !.status = "4xx"] \in WorkRecords
          /\ [work[r] EXCEPT !.entry = ring[b]] \in WorkRecords
      BY <2>1, <1>p, WorkFacts DEF Statuses
    <2>3. /\ [work[r] EXCEPT !.status = "4xx"].status = "4xx"
          /\ [work[r] EXCEPT !.status = "4xx"].base = work[r].base
          /\ [work[r] EXCEPT !.entry = ring[b]].entry = ring[b]
          /\ [work[r] EXCEPT !.entry = ring[b]].base = work[r].base
      BY <2>1 DEF WorkRecords
    <2>4. pc \in [Requests -> RequestStates] /\ req' = req
      BY <1>p DEF IInv, TypeOK
    <2>5. CASE pc' = [pc EXCEPT ![r] = "sending"]
                 /\ work' = [work EXCEPT ![r].status = "4xx"]
      BY <2>1, <2>2, <2>3, <2>4, <2>5 DEF RequestStates
    <2>6. CASE pc' = [pc EXCEPT ![r] = "persisting"] /\ redis
                 /\ ~Contains(ring[b], seq)
                 /\ work' = [work EXCEPT ![r].entry = ring[b]]
      BY <2>1, <2>2, <2>3, <2>4, <2>6 DEF RequestStates
    <2>7. CASE pc' = [pc EXCEPT ![r] = "mapping"] /\ work' = work
      BY <2>1, <2>4, <2>7 DEF RequestStates
    <2>. QED  BY <1>c, <2>5, <2>6, <2>7
  <1>. HIDE DEF b, seq
  <1>0. \A c \in Bases, x \in Seqs : Accounted(c, x) => Accounted(c, x)'
    BY <1>a, <1>p, AccountedStays DEF Admitted
  <1>1. TypeOK'
    <2>1. CASE UNCHANGED <<ring, recent>>
      BY <2>1, <1>a, <1>p DEF IInv, TypeOK
    <2>2. CASE Admit(r, ring[b])
      <3>1. /\ ring' \in [Bases -> Seq(Seqs)]
            /\ recent' \in [Bases -> Seq(Admissions)]
            /\ \A c \in Bases : Len(ring'[c]) <= RingSize
        BY <2>2, <1>p, AdmitShapes
      <3>. QED  BY <3>1, <1>a, <1>p DEF IInv, TypeOK
    <2>. QED  BY <2>1, <2>2, <1>d
  <1>2. WorkShape'
    BY <1>a, <1>p DEF WorkShape
  <1>3. Stages'
    BY <1>a, <1>p DEF IInv, Stages, Device, Statuses, b
  <1>4. NamesDiffer'
    BY <1>a, <1>p DEF IInv, NamesDiffer
  <1>5. ExportedIsMapped'
    BY <1>a, <1>p DEF IInv, ExportedIsMapped
  <1>6. AcceptIsTrue'
    BY <1>a, <1>p DEF IInv, AcceptIsTrue, Device
  <1>7. StoredAcceptIsTrue'
    BY <1>a, <1>p DEF IInv, StoredAcceptIsTrue
  <1>8. CountedOnce'
    BY <1>a, <1>p, CountsStay
  <1>9. RecentShape'
    <2>1. CASE Admit(r, ring[b])
      BY <2>1, <1>p, AdmitShapes DEF RecentShape
    <2>. QED  BY <2>1, <1>d DEF IInv, RecentShape
  <1>10. AdmissionsKept' /\ RepeatsOnlyByOverlap'
    <2>1. CASE UNCHANGED <<ring, recent>>
      <3>1. ASSUME NEW s \in Requests, pc'[s] = "persisting"
            PROVE  /\ Remembers(recent[work'[s].base], work'[s].entry)
                   /\ ~Contains(work'[s].entry, req'[s].body.seq)
        <4>1. CASE s = r
          BY <3>1, <4>1, <1>a, <1>p DEF IInv, AdmissionsKept, seq
        <4>2. CASE s # r
          BY <3>1, <4>2, <1>a, <1>p DEF IInv, AdmissionsKept
        <4>. QED  BY <4>1, <4>2
      <3>2. AdmissionsKept'
        BY <2>1, <3>1, <1>p DEF IInv, AdmissionsKept
      <3>3. RepeatsOnlyByOverlap'
        BY <2>1, <1>p DEF IInv, RepeatsOnlyByOverlap
      <3>. QED  BY <3>2, <3>3
    <2>2. CASE /\ ~redis /\ ~Contains(ring[b], seq) /\ Admit(r, ring[b])
               /\ pc'[r] = "mapping" /\ work'[r] = work[r]
      <3>1. Remembers(recent[b], ring[b])  BY <1>p DEF IInv, AdmissionsKept
      <3>. QED  BY <2>2, <3>1, <1>a, <1>p, AdmitKeepsAdmissions DEF b, seq
    <2>. QED  BY <2>1, <2>2, <1>d
  <1>11. AnsweredAreOvertaken'
    BY <1>a, <1>p, OvertakenStay
  <1>12. RingAccounted'
    <2>. SUFFICES ASSUME NEW c \in Bases, NEW x \in Seqs, Contains(ring'[c], x)
                  PROVE  Accounted(c, x)'
      BY DEF RingAccounted
    <2>1. CASE Contains(ring[c], x)
      BY <2>1, <1>0 DEF IInv, RingAccounted
    <2>2. CASE ~Contains(ring[c], x)
      <3>1. Admit(r, ring[b]) /\ pc'[r] = "mapping" /\ work'[r].base = b
        BY <2>2, <1>d, <1>a
      <3>2. c = b /\ x = seq
        BY <2>2, <3>1, <1>p, AdmittedOrKnown DEF b, seq
      <3>3. <<c, x>> \in Abandoned(r)'
        BY <3>1, <3>2, <1>p DEF Abandoned, seq
      <3>. QED  BY <3>3 DEF Accounted
    <2>. QED  BY <2>1, <2>2
  <1>13. LoadedAccounted'
    <2>. SUFFICES ASSUME NEW s \in Requests, pc'[s] = "persisting",
                         NEW c \in Bases,
                         NEW x \in Seqs, work'[s].base = c,
                         Contains(work'[s].entry, x)
                  PROVE  Accounted(c, x)'
      BY DEF LoadedAccounted
    <2>1. CASE s = r
      BY <2>1, <1>0, <1>a, <1>p DEF IInv, RingAccounted
    <2>2. CASE s # r
      BY <2>2, <1>0, <1>a DEF IInv, LoadedAccounted
    <2>. QED  BY <2>1, <2>2
  <1>. QED  BY <1>1, <1>2, <1>3, <1>4, <1>5, <1>6, <1>7, <1>8, <1>9, <1>10,
     <1>11, <1>12, <1>13
     DEF IInv

(* With Redis a ring read earlier is written back, with the number at its     *)
(* end.                                                                       *)
LEMMA PersistSeqKeepsIInv ==
  ASSUME IInv, NEW r \in Requests, PersistSeq(r)  PROVE  IInv'
  <1>. DEFINE b == work[r].base
              seq == req[r].body.seq
              entry == work[r].entry
  <1>p. /\ pc[r] = "persisting" /\ pc[r] \in Identified /\ redis
        /\ b \in Bases /\ entry \in Seq(Seqs) /\ Admit(r, entry)
        /\ pc' = [pc EXCEPT ![r] = "mapping"]
        /\ UNCHANGED <<redis, keyVersion, responses, rate, mapping, req, work,
                       arrived, passed, exported, queued, dropped, overtaken>>
    <2>1. work[r] \in WorkRecords  BY DEF IInv, WorkShape
    <2>. QED
      BY <2>1 DEF PersistSeq, Admit, Goto, Identified, IInv, Stages, BaseIsOf,
                  WorkRecords
  <1>a. /\ \A s \in Requests \ {r} : pc'[s] = pc[s] /\ req'[s] = req[s]
             /\ work'[s] = work[s]
        /\ pc' \in [Requests -> RequestStates]
        /\ work' \in [Requests -> WorkRecords]
        /\ pc'[r] = "mapping"
    BY <1>p DEF RequestStates, IInv, TypeOK, WorkShape
  <1>b. /\ ring' \in [Bases -> Seq(Seqs)]
        /\ \A c \in Bases : Len(ring'[c]) <= RingSize
        /\ recent' \in [Bases -> Seq(Admissions)]
        /\ \A c \in Bases : Len(recent'[c]) <= RingSize + 1
    BY <1>p, AdmitShapes
  <1>. HIDE DEF b, seq, entry
  <1>0. \A c \in Bases, x \in Seqs : Accounted(c, x) => Accounted(c, x)'
    BY <1>a, <1>b, <1>p, AccountedStays DEF Admitted
  <1>1. TypeOK'
    BY <1>a, <1>b, <1>p DEF IInv, TypeOK
  <1>2. WorkShape'
    BY <1>a, <1>b, <1>p DEF WorkShape
  <1>3. Stages'
    BY <1>a, <1>b, <1>p DEF IInv, Stages, Device
  <1>4. NamesDiffer'
    BY <1>a, <1>b, <1>p DEF IInv, NamesDiffer
  <1>5. ExportedIsMapped'
    BY <1>a, <1>b, <1>p DEF IInv, ExportedIsMapped
  <1>6. AcceptIsTrue'
    BY <1>a, <1>b, <1>p DEF IInv, AcceptIsTrue, Device
  <1>7. StoredAcceptIsTrue'
    BY <1>a, <1>b, <1>p DEF IInv, StoredAcceptIsTrue
  <1>8. CountedOnce'
    BY <1>a, <1>b, <1>p, CountsStay
  <1>9. RecentShape'
    BY <1>a, <1>b, <1>p DEF RecentShape
  <1>10. AdmissionsKept' /\ RepeatsOnlyByOverlap'
    <2>1. Remembers(recent[b], entry) /\ ~Contains(entry, seq)
      BY <1>p DEF IInv, AdmissionsKept, b, entry, seq
    <2>. QED  BY <2>1, <1>a, <1>p, AdmitKeepsAdmissions DEF b, seq
  <1>11. AnsweredAreOvertaken'
    BY <1>a, <1>p, OvertakenStay
  <1>12. RingAccounted'
    <2>. SUFFICES ASSUME NEW c \in Bases, NEW x \in Seqs, Contains(ring'[c], x)
                  PROVE  Accounted(c, x)'
      BY DEF RingAccounted
    <2>1. CASE Contains(ring[c], x)
      BY <2>1, <1>0 DEF IInv, RingAccounted
    <2>2. CASE c = b /\ x = seq
      <3>1. <<c, x>> \in Abandoned(r)'
        BY <2>2, <1>a, <1>p DEF Abandoned, seq, b
      <3>. QED  BY <3>1 DEF Accounted
    <2>3. CASE c = b /\ Contains(entry, x)
      BY <2>3, <1>0, <1>p DEF IInv, LoadedAccounted, b, entry
    <2>. QED  BY <2>1, <2>2, <2>3, <1>p, AdmittedOrKnown DEF b, seq
  <1>13. LoadedAccounted'
    BY <1>0, <1>a, <1>b, <1>p DEF IInv, LoadedAccounted
  <1>. QED  BY <1>1, <1>2, <1>3, <1>4, <1>5, <1>6, <1>7, <1>8, <1>9, <1>10,
     <1>11, <1>12, <1>13
     DEF IInv

(* The row has the device's name, now if not before, and the request knows    *)
(* it.                                                                        *)
LEMMA RowKeepsIInv ==
  ASSUME IInv, NEW r \in Requests, NEW did \in Pseudonyms,
         pc[r] = "mapping", did # NoName, Goto(r, "queueing"),
         work' = [work EXCEPT ![r].did = did],
         \/ mapping[Device(r)] = did /\ UNCHANGED mapping
         \/ /\ mapping[Device(r)] = NoName /\ \A e \in Devices :
                 mapping[e] # did
            /\ mapping' = [mapping EXCEPT ![Device(r)] = did],
         UNCHANGED <<redis, keyVersion, responses, rate, ring, req, arrived,
                     passed, recent, exported, queued, dropped, overtaken>>
  PROVE  IInv'
  <1>. DEFINE d == Device(r)
  <1>p. /\ d \in Devices /\ req[r].body \in Bodies
        /\ pc' = [pc EXCEPT ![r] = "queueing"]
    <2>1. req[r] \in RequestRecords  BY DEF IInv, Stages
    <2>. QED  BY <2>1 DEF RequestRecords, Bodies, Device, Goto
  <1>a. /\ \A s \in Requests \ {r} : pc'[s] = pc[s] /\ req'[s] = req[s]
             /\ work'[s] = work[s]
        /\ pc' \in [Requests -> RequestStates]
        /\ work' \in [Requests -> WorkRecords]
        /\ pc'[r] = "queueing" /\ work'[r].base = work[r].base
        /\ work'[r].did = did
    <2>1. work[r] \in WorkRecords /\ work \in [Requests -> WorkRecords]
      BY DEF IInv, WorkShape
    <2>. DEFINE w == [work[r] EXCEPT !.did = did]
    <2>2. w \in WorkRecords  BY <2>1 DEF WorkRecords
    <2>3. w.base = work[r].base /\ w.did = did  BY <2>1 DEF WorkRecords
    <2>4. work' = [work EXCEPT ![r] = w]  OBVIOUS
    <2>. HIDE DEF w
    <2>. QED  BY <2>1, <2>2, <2>3, <2>4, <1>p DEF RequestStates, IInv, TypeOK
  <1>b. /\ mapping' \in [Devices -> {NoName} \cup Pseudonyms]
        /\ mapping'[d] = did
        /\ \A e \in Devices \ {d} : mapping'[e] = mapping[e]
        /\ mapping[d] = did \/ mapping[d] = NoName
        /\ \A e \in Devices : mapping[e] = did => e = d
    BY <1>p DEF IInv, TypeOK, NamesDiffer
  <1>. HIDE DEF d
  <1>c. \A e \in Devices : mapping[e] # NoName => mapping'[e] = mapping[e]
    BY <1>b
  <1>0. \A c \in Bases, x \in Seqs : Accounted(c, x) => Accounted(c, x)'
    BY <1>a, <1>p, AccountedStays DEF Admitted
  <1>1. TypeOK'
    BY <1>a, <1>b, <1>p DEF IInv, TypeOK
  <1>2. WorkShape'
    BY <1>a DEF WorkShape
  <1>3. Stages'
    <2>. SUFFICES ASSUME NEW s \in Requests
                  PROVE  /\ pc'[s] # "idle" => req[s] \in RequestRecords
                         /\ pc'[s] \in Identified =>
                              BaseIsOf(work'[s].base, Device(s))
                         /\ pc'[s] \in {"expiring", "persisting"} => redis
                         /\ pc'[s] = "queueing" =>
                              /\ work'[s].did # NoName
                              /\ mapping'[Device(s)] = work'[s].did
                         /\ pc'[s] = "recording" => work'[s].status = "4xx"
                         /\ pc'[s] = "sending" => work'[s].status \in Statuses
      BY DEF Stages, Device, BaseIsOf
    <2>1. CASE s = r
      BY <2>1, <1>a, <1>b DEF IInv, Stages, Identified, d
    <2>2. CASE s # r
      <3>1. pc'[s] = "queueing" =>
              /\ work[s].did # NoName /\ mapping[Device(s)] = work[s].did
              /\ Device(s) \in Devices
        BY <2>2, <1>a DEF IInv, Stages, RequestRecords, Bodies, Device
      <3>. QED  BY <2>2, <3>1, <1>a, <1>c DEF IInv, Stages
    <2>. QED  BY <2>1, <2>2
  <1>4. NamesDiffer'
    BY <1>a, <1>b, <1>p DEF IInv, NamesDiffer
  <1>5. ExportedIsMapped'
    BY <1>c DEF IInv, TypeOK, ExportedIsMapped
  <1>6. AcceptIsTrue'
    BY <1>a DEF IInv, AcceptIsTrue, Device
  <1>7. StoredAcceptIsTrue'
    BY DEF IInv, StoredAcceptIsTrue
  <1>8. CountedOnce'
    BY <1>a, <1>p, CountsStay
  <1>9. RecentShape'
    BY DEF IInv, RecentShape
  <1>10. AdmissionsKept' /\ RepeatsOnlyByOverlap'
    BY <1>a, <1>p, AdmissionsStay
  <1>11. AnsweredAreOvertaken'
    BY <1>a, <1>p, OvertakenStay
  <1>12. RingAccounted'
    BY <1>0, <1>a DEF IInv, RingAccounted
  <1>13. LoadedAccounted'
    BY <1>0, <1>a, <1>p DEF IInv, LoadedAccounted
  <1>. QED  BY <1>1, <1>2, <1>3, <1>4, <1>5, <1>6, <1>7, <1>8, <1>9, <1>10,
     <1>11, <1>12, <1>13
     DEF IInv

(* What is handed over goes under the name in the table, and the 202 names    *)
(* it.                                                                        *)
LEMMA HandOverKeepsIInv ==
  ASSUME IInv, NEW r \in Requests, HandOver(r)  PROVE  IInv'
  <1>. DEFINE d == Device(r)
              did == work[r].did
  <1>p. /\ d \in Devices /\ req[r].body \in Bodies
        /\ pc[r] = "queueing"
        /\ pc' = [pc EXCEPT ![r] = "sending"]
        /\ work' = [work EXCEPT ![r].status = "202", ![r].did = did]
        /\ exported' = exported \cup {<<d, did>>}
        /\ queued' = queued \cup {req[r].body}
        /\ UNCHANGED <<redis, keyVersion, responses, rate, ring, mapping, req,
                       arrived, passed, recent, dropped, overtaken>>
    <2>1. pc[r] = "queueing"  BY DEF HandOver
    <2>2. req[r] \in RequestRecords  BY <2>1 DEF IInv, Stages
    <2>. QED  BY <2>1, <2>2
       DEF RequestRecords, Bodies, Device, HandOver, Enqueue, Goto, stores
  <1>b. did # NoName /\ mapping[d] = did /\ did \in Pseudonyms
    BY <1>p DEF IInv, Stages, TypeOK
  <1>a. /\ \A s \in Requests \ {r} : pc'[s] = pc[s] /\ req'[s] = req[s]
             /\ work'[s] = work[s]
        /\ pc' \in [Requests -> RequestStates]
        /\ work' \in [Requests -> WorkRecords]
        /\ pc'[r] = "sending" /\ work'[r].status = "202" /\ work'[r].did = did
    <2>1. work[r] \in WorkRecords /\ work \in [Requests -> WorkRecords]
      BY DEF IInv, WorkShape
    <2>. DEFINE w == [work[r] EXCEPT !.status = "202", !.did = did]
    <2>2. w \in WorkRecords  BY <2>1, <1>b, WorkFacts
    <2>3. w.status = "202" /\ w.did = did  BY <2>1 DEF WorkRecords
    <2>4. work' = [work EXCEPT ![r] = w]  BY <1>p
    <2>. HIDE DEF w, did
    <2>. QED  BY <2>1, <2>2, <2>3, <2>4, <1>p DEF RequestStates, IInv, TypeOK
  <1>. HIDE DEF d, did
  <1>0. \A c \in Bases, x \in Seqs : Accounted(c, x) => Accounted(c, x)'
    BY <1>a, <1>p, AccountedStays
  <1>1. TypeOK'
    BY <1>a, <1>b, <1>p DEF IInv, TypeOK
  <1>2. WorkShape'
    BY <1>a DEF WorkShape
  <1>3. Stages'
    BY <1>a, <1>p DEF IInv, Stages, Identified, Device, Statuses
  <1>4. NamesDiffer'
    BY <1>p DEF IInv, NamesDiffer
  <1>5. ExportedIsMapped'
    BY <1>b, <1>p DEF IInv, ExportedIsMapped
  <1>6. AcceptIsTrue'
    <2>. SUFFICES ASSUME NEW s \in Requests, pc'[s] = "sending",
                         work'[s].status = "202"
                  PROVE  req'[s].body \in queued'
                           /\ <<Device(s)', work'[s].did>> \in exported'
      BY DEF AcceptIsTrue
    <2>1. Device(s)' = Device(s)  BY <1>p DEF Device
    <2>2. CASE s = r  BY <2>1, <2>2, <1>a, <1>p DEF d
    <2>3. CASE s # r
      BY <2>1, <2>3, <1>a, <1>p DEF IInv, AcceptIsTrue
    <2>. QED  BY <2>2, <2>3
  <1>7. StoredAcceptIsTrue'
    BY <1>p DEF IInv, StoredAcceptIsTrue
  <1>8. CountedOnce'
    BY <1>a, <1>p, CountsStay
  <1>9. RecentShape'
    BY <1>p DEF IInv, RecentShape
  <1>10. AdmissionsKept' /\ RepeatsOnlyByOverlap'
    BY <1>a, <1>p, AdmissionsStay
  <1>11. AnsweredAreOvertaken'
    BY <1>a, <1>p, OvertakenStay
  <1>12. RingAccounted'
    BY <1>0, <1>a, <1>p DEF IInv, RingAccounted
  <1>13. LoadedAccounted'
    BY <1>0, <1>a, <1>p DEF IInv, LoadedAccounted
  <1>. QED  BY <1>1, <1>2, <1>3, <1>4, <1>5, <1>6, <1>7, <1>8, <1>9, <1>10,
     <1>11, <1>12, <1>13
     DEF IInv

(* A name that is taken is tried again with the next suffix.                  *)
LEMMA NextCandidateKeepsIInv ==
  ASSUME IInv, NEW r \in Requests, pc[r] = "mapping",
         work[r].counter + 1 < MaxSuffix,
         work' = [work EXCEPT ![r].counter = @ + 1],
         UNCHANGED <<redis, keyVersion, responses, rate, ring, mapping, pc,
                     req, arrived, passed, recent, exported, queued, dropped,
                     overtaken>>
   PROVE  IInv'
  <1>. DEFINE n == work[r].counter + 1
  <1>a. /\ \A s \in Requests \ {r} : pc'[s] = pc[s] /\ req'[s] = req[s]
             /\ work'[s] = work[s]
        /\ pc' \in [Requests -> RequestStates]
        /\ work' \in [Requests -> WorkRecords]
        /\ work'[r].base = work[r].base
    <2>1. work[r] \in WorkRecords /\ work \in [Requests -> WorkRecords]
      BY DEF IInv, WorkShape
    <2>2. n \in 0..MaxSuffix - 1
      BY <2>1, IngestConstants DEF WorkRecords
    <2>. HIDE DEF n
    <2>3. [work[r] EXCEPT !.counter = n] \in WorkRecords
      BY <2>1, <2>2, WorkFacts
    <2>4. [work[r] EXCEPT !.counter = n].base = work[r].base
      BY <2>1 DEF WorkRecords
    <2>5. work' = [work EXCEPT ![r] = [work[r] EXCEPT !.counter = n]]  BY DEF n
    <2>6. pc \in [Requests -> RequestStates]  BY DEF IInv, TypeOK
    <2>. QED  BY <2>1, <2>3, <2>4, <2>5, <2>6
  <1>0. \A c \in Bases, x \in Seqs : Accounted(c, x) => Accounted(c, x)'
    BY <1>a, AccountedStays
  <1>1. TypeOK'
    BY <1>a DEF IInv, TypeOK
  <1>2. WorkShape'
    BY <1>a DEF WorkShape
  <1>3. Stages'
    BY <1>a DEF IInv, Stages, Device
  <1>4. NamesDiffer'
    BY <1>a DEF IInv, NamesDiffer
  <1>5. ExportedIsMapped'
    BY <1>a DEF IInv, ExportedIsMapped
  <1>6. AcceptIsTrue'
    BY <1>a DEF IInv, AcceptIsTrue, Device
  <1>7. StoredAcceptIsTrue'
    BY <1>a DEF IInv, StoredAcceptIsTrue
  <1>8. CountedOnce'
    BY <1>a, CountsStay
  <1>9. RecentShape'
    BY <1>a DEF IInv, RecentShape
  <1>10. AdmissionsKept' /\ RepeatsOnlyByOverlap'
    BY <1>a, AdmissionsStay
  <1>11. AnsweredAreOvertaken'
    BY <1>a, OvertakenStay
  <1>12. RingAccounted'
    BY <1>0, <1>a DEF IInv, RingAccounted
  <1>13. LoadedAccounted'
    BY <1>0, <1>a DEF IInv, LoadedAccounted
  <1>. QED  BY <1>1, <1>2, <1>3, <1>4, <1>5, <1>6, <1>7, <1>8, <1>9, <1>10,
     <1>11, <1>12, <1>13
     DEF IInv

(* One attempt to get a row in the mapping table.                             *)
LEMMA InsertMappingKeepsIInv ==
  ASSUME IInv, NEW r \in Requests, InsertMapping(r)  PROVE IInv'
  <1>. DEFINE d == req[r].body.device
              c == Candidate(r)
  <1>1. /\ pc[r] = "mapping" /\ Device(r) = d /\ d \in Devices
        /\ c \in Pseudonyms /\ c # NoName
        /\ mapping \in [Devices -> {NoName} \cup Pseudonyms]
    <2>1. pc[r] = "mapping"  BY DEF InsertMapping
    <2>2. /\ req[r] \in RequestRecords /\ work[r].base \in Bases
          /\ work[r] \in WorkRecords
      BY <2>1 DEF IInv, Stages, Identified, BaseIsOf, WorkShape
    <2>3. c \in Pseudonyms /\ c # NoName
      BY <2>2, IngestConstants DEF Candidate, Pseudonyms, WorkRecords, NoName
    <2>. QED  BY <2>1, <2>2, <2>3 DEF Device, RequestRecords, Bodies, IInv,
       TypeOK
  <1>. HIDE DEF c
  <1>2. UNCHANGED <<redis, keyVersion, responses, rate, ring, req, arrived,
                    passed, recent, exported, queued, dropped, overtaken>>
    BY DEF InsertMapping, history
  <1>3. CASE mapping[d] # NoName
    <2>1. /\ work' = [work EXCEPT ![r].did = mapping[d]]
          /\ Goto(r, "queueing") /\ UNCHANGED mapping
      BY <1>3 DEF InsertMapping
    <2>. QED  BY <2>1, <1>1, <1>2, <1>3, RowKeepsIInv
  <1>4. CASE mapping[d] = NoName /\ ~\E e \in Devices : mapping[e] = c
    <2>1. /\ work' = [work EXCEPT ![r].did = c]
          /\ Goto(r, "queueing") /\ mapping' = [mapping EXCEPT ![d] = c]
      BY <1>4 DEF InsertMapping, c
    <2>. QED  BY <2>1, <1>1, <1>2, <1>4, RowKeepsIInv
  <1>5. CASE mapping[d] = NoName /\ \E e \in Devices : mapping[e] = c
    <2>1. /\ work[r].counter + 1 < MaxSuffix
          /\ work' = [work EXCEPT ![r].counter = @ + 1]
          /\ UNCHANGED <<mapping, pc>>
      BY <1>5 DEF InsertMapping, c
    <2>. QED  BY <2>1, <1>1, <1>2, NextCandidateKeepsIInv
  <1>. QED  BY <1>3, <1>4, <1>5

(* A refusal is recorded in the log of errors before it is sent.              *)
LEMMA RecordErrorKeepsIInv ==
  ASSUME IInv, NEW r \in Requests, RecordError(r)  PROVE  IInv'
  <1>p. /\ pc[r] = "recording" /\ pc' = [pc EXCEPT ![r] = "sending"]
        /\ UNCHANGED <<redis, keyVersion, responses, rate, ring, mapping, req,
                       work, arrived, passed, recent, exported, queued,
                       dropped, overtaken>>
    BY DEF RecordError, Goto, stores, history
  <1>a. /\ \A s \in Requests \ {r} : pc'[s] = pc[s] /\ req'[s] = req[s]
             /\ work'[s] = work[s]
        /\ pc' \in [Requests -> RequestStates]
        /\ work' \in [Requests -> WorkRecords]
        /\ pc'[r] = "sending" /\ work[r].status = "4xx"
    BY <1>p DEF RequestStates, IInv, TypeOK, WorkShape, Stages
  <1>0. \A c \in Bases, x \in Seqs : Accounted(c, x) => Accounted(c, x)'
    BY <1>a, <1>p, AccountedStays DEF Admitted
  <1>1. TypeOK'
    BY <1>a, <1>p DEF IInv, TypeOK
  <1>2. WorkShape'
    BY <1>a, <1>p DEF WorkShape
  <1>3. Stages'
    BY <1>a, <1>p DEF IInv, Stages, Statuses, Identified, Device
  <1>4. NamesDiffer'
    BY <1>a, <1>p DEF IInv, NamesDiffer
  <1>5. ExportedIsMapped'
    BY <1>a, <1>p DEF IInv, ExportedIsMapped
  <1>6. AcceptIsTrue'
    BY <1>a, <1>p DEF IInv, AcceptIsTrue, Device
  <1>7. StoredAcceptIsTrue'
    BY <1>a, <1>p DEF IInv, StoredAcceptIsTrue
  <1>8. CountedOnce'
    BY <1>a, <1>p, CountsStay
  <1>9. RecentShape'
    BY <1>a, <1>p DEF IInv, RecentShape
  <1>10. AdmissionsKept' /\ RepeatsOnlyByOverlap'
    BY <1>a, <1>p, AdmissionsStay
  <1>11. AnsweredAreOvertaken'
    BY <1>a, <1>p, OvertakenStay
  <1>12. RingAccounted'
    BY <1>0, <1>a, <1>p DEF IInv, RingAccounted
  <1>13. LoadedAccounted'
    BY <1>0, <1>a, <1>p DEF IInv, LoadedAccounted
  <1>. QED  BY <1>1, <1>2, <1>3, <1>4, <1>5, <1>6, <1>7, <1>8, <1>9, <1>10,
     <1>11, <1>12, <1>13
     DEF IInv

(* What is stored with the key is the answer the handler has made.            *)
LEMMA SendKeepsIInv ==
  ASSUME IInv, NEW r \in Requests, Send(r)  PROVE  IInv'
  <1>p. /\ pc[r] = "sending" /\ Done(r)
        /\ UNCHANGED <<redis, keyVersion, rate, ring, mapping, arrived, passed,
                       recent, exported, queued, dropped>>
    BY DEF Send
  <1>. DEFINE answer == [body |-> req[r].body, status |-> work[r].status,
                         did |-> work[r].did]
  <1>c. \/ UNCHANGED responses
        \/ req[r].key \in Keys
             /\ responses' = [responses EXCEPT ![req[r].key] = answer]
    BY <1>p DEF Send, IInv, Stages, RequestRecords
  <1>a. /\ \A s \in Requests \ {r} : pc'[s] = pc[s] /\ req'[s] = req[s]
             /\ work'[s] = work[s]
        /\ pc' \in [Requests -> RequestStates]
        /\ work' \in [Requests -> WorkRecords]
        /\ req' \in [Requests -> {None} \cup RequestRecords]
        /\ pc'[r] = "idle"
    BY <1>p, NoWorkIsWork DEF Done, Goto, RequestStates, RequestRecords, IInv,
       TypeOK, WorkShape
  <1>d. answer \in [body : Bodies, status : Statuses, did : {NoName}
                    \cup Pseudonyms]
    <2>1. /\ req[r] \in RequestRecords /\ work[r].status \in Statuses
          /\ work[r] \in WorkRecords
      BY <1>p DEF IInv, Stages, WorkShape
    <2>. QED  BY <2>1 DEF RequestRecords, WorkRecords
  <1>e. answer.status = "202" => 
          answer.body \in queued
            /\ <<answer.body.device, answer.did>> \in exported
    BY <1>p DEF IInv, AcceptIsTrue, Device
  <1>. HIDE DEF answer
  <1>0. \A c \in Bases, x \in Seqs : Accounted(c, x) => Accounted(c, x)'
    BY <1>a, <1>p, AccountedStays DEF Admitted
  <1>f. /\ overtaken' = (overtaken \ {r}) \cup SameKey(r)
        /\ overtaken' \subseteq Requests
    BY DEF Send, SameKey, IInv, TypeOK
  <1>1. TypeOK'
    <2>. DEFINE T == {None} \cup [body : Bodies, status : Statuses,
                                  did : {NoName} \cup Pseudonyms]
    <2>1. responses' \in [Keys -> T]
      <3>1. responses \in [Keys -> T] /\ answer \in T
        BY <1>d DEF IInv, TypeOK
      <3>. HIDE DEF T
      <3>. QED  BY <3>1, <1>c
    <2>. QED  BY <2>1, <1>a, <1>f, <1>p DEF IInv, TypeOK, RequestRecords
  <1>2. WorkShape'
    BY <1>a, <1>p DEF WorkShape
  <1>3. Stages'
    BY <1>a, <1>p DEF IInv, Stages, Identified, Device
  <1>4. NamesDiffer'
    BY <1>a, <1>p DEF IInv, NamesDiffer
  <1>5. ExportedIsMapped'
    BY <1>a, <1>p DEF IInv, ExportedIsMapped
  <1>6. AcceptIsTrue'
    BY <1>a, <1>p DEF IInv, AcceptIsTrue, Device
  <1>7. StoredAcceptIsTrue'
    <2>. SUFFICES ASSUME NEW k \in Keys, responses'[k] # None,
                         responses'[k].status = "202"
                  PROVE  /\ responses'[k].body \in queued
                         /\ <<responses'[k].body.device,
                              responses'[k].did>> \in exported
      BY <1>p DEF StoredAcceptIsTrue
    <2>1. responses'[k] = responses[k] \/ responses'[k] = answer
      BY <1>c DEF IInv, TypeOK
    <2>. QED  BY <2>1, <1>e DEF IInv, StoredAcceptIsTrue
  <1>8. CountedOnce'
    BY <1>a, <1>p, CountsStay
  <1>9. RecentShape'
    BY <1>a, <1>p DEF IInv, RecentShape
  <1>10. AdmissionsKept' /\ RepeatsOnlyByOverlap'
    BY <1>a, <1>p, AdmissionsStay
  <1>11. AnsweredAreOvertaken'
    <2>. SUFFICES ASSUME NEW k \in Keys, NEW s \in Requests,
                         responses'[k] # None,
                         pc'[s] # "idle", req'[s].key = k
                  PROVE  s \in overtaken'
      BY DEF AnsweredAreOvertaken
    <2>1. s # r /\ pc[s] # "idle" /\ req[s].key = k  BY <1>a
    <2>2. CASE req[r].key = k
      <3>1. k # NoKey  BY IngestConstants
      <3>2. s \in SameKey(r)  BY <2>1, <2>2, <3>1 DEF SameKey
      <3>. QED  BY <3>2, <1>f
    <2>3. CASE req[r].key # k
      <3>1. responses'[k] = responses[k]
        BY <2>3, <1>c DEF IInv, TypeOK
      <3>2. s \in overtaken
        BY <2>1, <3>1 DEF IInv, AnsweredAreOvertaken
      <3>. QED  BY <2>1, <3>2, <1>f
    <2>. QED  BY <2>2, <2>3
  <1>12. RingAccounted'
    BY <1>0, <1>a, <1>p DEF IInv, RingAccounted
  <1>13. LoadedAccounted'
    BY <1>0, <1>a, <1>p DEF IInv, LoadedAccounted
  <1>. QED  BY <1>1, <1>2, <1>3, <1>4, <1>5, <1>6, <1>7, <1>8, <1>9, <1>10,
     <1>11, <1>12, <1>13
     DEF IInv

(* A request that breaks off after the ring has its number is noted as        *)
(* dropped.                                                                   *)
LEMMA InternalErrorKeepsIInv ==
  ASSUME IInv, NEW r \in Requests, InternalError(r)  PROVE  IInv'
  <1>p. /\ pc[r] # "idle" /\ Done(r)
        /\ dropped' = dropped \cup Abandoned(r)
        /\ UNCHANGED <<redis, keyVersion, responses, rate, ring, mapping,
                       arrived, passed, recent, exported, queued>>
        /\ overtaken' = overtaken \ {r}
    BY DEF InternalError, stores
  <1>a. /\ \A s \in Requests \ {r} : pc'[s] = pc[s] /\ req'[s] = req[s]
             /\ work'[s] = work[s]
        /\ pc' \in [Requests -> RequestStates]
        /\ work' \in [Requests -> WorkRecords]
        /\ req' \in [Requests -> {None} \cup RequestRecords]
        /\ pc'[r] = "idle"
    BY <1>p, NoWorkIsWork DEF Done, Goto, RequestStates, RequestRecords, IInv,
       TypeOK, WorkShape
  <1>b. /\ Abandoned(r) \subseteq Bases \X Seqs
        /\ pc[r] \in Admitted =>
             <<work[r].base, req[r].body.seq>> \in dropped'
    <2>1. CASE pc[r] \in Admitted
      <3>1. req[r] \in RequestRecords /\ work[r].base \in Bases
        BY <2>1 DEF IInv, Stages, Identified, Admitted, BaseIsOf
      <3>. QED  BY <2>1, <3>1, <1>p
         DEF RequestRecords, Bodies, Abandoned, Admitted
    <2>2. CASE pc[r] \notin Admitted  BY <2>2 DEF Abandoned, Admitted
    <2>. QED  BY <2>1, <2>2
  <1>0. \A c \in Bases, x \in Seqs : Accounted(c, x) => Accounted(c, x)'
    BY <1>a, <1>b, <1>p, AccountedStays
  <1>1. TypeOK'
    BY <1>a, <1>b, <1>p DEF IInv, TypeOK, RequestRecords
  <1>2. WorkShape'
    BY <1>a, <1>b, <1>p DEF WorkShape
  <1>3. Stages'
    BY <1>a, <1>b, <1>p DEF IInv, Stages, Identified, Device
  <1>4. NamesDiffer'
    BY <1>a, <1>b, <1>p DEF IInv, NamesDiffer
  <1>5. ExportedIsMapped'
    BY <1>a, <1>b, <1>p DEF IInv, ExportedIsMapped
  <1>6. AcceptIsTrue'
    BY <1>a, <1>b, <1>p DEF IInv, AcceptIsTrue, Device
  <1>7. StoredAcceptIsTrue'
    BY <1>a, <1>b, <1>p DEF IInv, StoredAcceptIsTrue
  <1>8. CountedOnce'
    BY <1>a, <1>b, <1>p, CountsStay
  <1>9. RecentShape'
    BY <1>a, <1>b, <1>p DEF IInv, RecentShape
  <1>10. AdmissionsKept' /\ RepeatsOnlyByOverlap'
    BY <1>a, <1>p, AdmissionsStay
  <1>11. AnsweredAreOvertaken'
    BY <1>a, <1>p DEF IInv, AnsweredAreOvertaken
  <1>12. RingAccounted'
    BY <1>0, <1>a, <1>b, <1>p DEF IInv, RingAccounted
  <1>13. LoadedAccounted'
    BY <1>0, <1>a, <1>b, <1>p DEF IInv, LoadedAccounted
  <1>. QED  BY <1>1, <1>2, <1>3, <1>4, <1>5, <1>6, <1>7, <1>8, <1>9, <1>10,
     <1>11, <1>12, <1>13
     DEF IInv

(* A pseudonym already computed stays an HMAC of its device.                  *)
LEMMA RotateKeyKeepsIInv ==
  ASSUME IInv, RotateKey  PROVE  IInv'
  <1>a. keyVersion' \in Versions /\ UNCHANGED <<redis, responses, rate, ring,
                                                mapping, pc, req, work,
                                                arrived, passed, recent,
                                                exported, queued, dropped,
                                                overtaken>>
    BY DEF RotateKey, stores, history
  <1>0. \A c \in Bases, x \in Seqs : Accounted(c, x) => Accounted(c, x)'
    BY <1>a, AccountedStays
  <1>1. TypeOK'
    BY <1>a DEF IInv, TypeOK
  <1>2. WorkShape'
    BY <1>a DEF IInv, WorkShape
  <1>3. Stages'
    BY <1>a DEF IInv, Stages, Device
  <1>4. NamesDiffer'
    BY <1>a DEF IInv, NamesDiffer
  <1>5. ExportedIsMapped'
    BY <1>a DEF IInv, ExportedIsMapped
  <1>6. AcceptIsTrue'
    BY <1>a DEF IInv, AcceptIsTrue, Device
  <1>7. StoredAcceptIsTrue'
    BY <1>a DEF IInv, StoredAcceptIsTrue
  <1>8. CountedOnce'
    BY <1>a, CountsStay
  <1>9. RecentShape'
    BY <1>a DEF IInv, RecentShape
  <1>10. AdmissionsKept' /\ RepeatsOnlyByOverlap'
    BY <1>a, AdmissionsStay
  <1>11. AnsweredAreOvertaken'
    BY <1>a, OvertakenStay
  <1>12. RingAccounted'
    BY <1>0, <1>a DEF IInv, RingAccounted
  <1>13. LoadedAccounted'
    BY <1>0, <1>a DEF IInv, LoadedAccounted
  <1>. QED  BY <1>1, <1>2, <1>3, <1>4, <1>5, <1>6, <1>7, <1>8, <1>9, <1>10,
     <1>11, <1>12, <1>13
     DEF IInv

(* A bucket whose window is over starts with nothing counted and nothing let  *)
(* through.                                                                   *)
LEMMA MinuteEndsKeepsIInv ==
  ASSUME IInv, MinuteEnds  PROVE  IInv'
  <1>p. UNCHANGED <<redis, keyVersion, responses, ring, mapping, pc, req, work,
                    arrived, recent, exported, queued, dropped, overtaken>>
    BY DEF MinuteEnds
  <1>a. /\ rate' \in [Bases -> [count : Nat, expires : BOOLEAN]]
        /\ passed' \in [Bases -> Nat]
        /\ \A c \in Bases :
             \/ rate'[c] = rate[c] /\ passed'[c] = passed[c]
             \/ /\ rate'[c].count = 0 /\ ~rate'[c].expires /\ passed'[c] = 0
                /\ redis => rate[c].expires
    <2>1. /\ rate \in [Bases -> [count : Nat, expires : BOOLEAN]]
          /\ passed \in [Bases -> Nat]
          /\ NoRate \in [count : Nat, expires : BOOLEAN]
          /\ NoRate.count = 0 /\ ~NoRate.expires
      BY DEF IInv, TypeOK, CountedOnce, NoRate
    <2>2. ASSUME redis, NEW b \in Bases, rate[b].expires,
                 rate' = [rate EXCEPT ![b] = NoRate],
                 passed' = [passed EXCEPT ![b] = 0]
          PROVE  /\ rate' \in [Bases -> [count : Nat, expires : BOOLEAN]]
                 /\ passed' \in [Bases -> Nat]
                 /\ \A c \in Bases :
                      \/ rate'[c] = rate[c] /\ passed'[c] = passed[c]
                      \/ /\ rate'[c].count = 0 /\ ~rate'[c].expires
                         /\ passed'[c] = 0
                         /\ redis => rate[c].expires
      BY <2>1, <2>2
    <2>3. CASE /\ ~redis /\ rate' = [b \in Bases |-> NoRate]
               /\ passed' = [b \in Bases |-> 0]
      BY <2>1, <2>3
    <2>. QED  BY <2>2, <2>3 DEF MinuteEnds
  <1>0. \A c \in Bases, x \in Seqs : Accounted(c, x) => Accounted(c, x)'
    BY <1>a, <1>p, AccountedStays
  <1>1. TypeOK'
    BY <1>a, <1>p DEF IInv, TypeOK
  <1>2. WorkShape'
    BY <1>a, <1>p DEF IInv, WorkShape
  <1>3. Stages'
    BY <1>a, <1>p DEF IInv, Stages, Device
  <1>4. NamesDiffer'
    BY <1>a, <1>p DEF IInv, NamesDiffer
  <1>5. ExportedIsMapped'
    BY <1>a, <1>p DEF IInv, ExportedIsMapped
  <1>6. AcceptIsTrue'
    BY <1>a, <1>p DEF IInv, AcceptIsTrue, Device
  <1>7. StoredAcceptIsTrue'
    BY <1>a, <1>p DEF IInv, StoredAcceptIsTrue
  <1>8. CountedOnce'
    <2>1. \A s \in Requests : pc[s] = "expiring" =>
            redis /\ work[s].base \in Bases /\ ~rate[work[s].base].expires
      BY DEF IInv, Stages, Identified, BaseIsOf, CountedOnce
    <2>2. \A c \in Bases : passed'[c] <= RateLimit
            /\ passed'[c] <= rate'[c].count
      BY <1>a, IngestConstants DEF IInv, CountedOnce
    <2>3. \A c \in Bases : rate'[c].expires => rate'[c].count > 0
      BY <1>a DEF IInv, CountedOnce
    <2>4. \A s \in Requests : \A c \in Bases : pc[s] = "expiring"
            /\ work[s].base = c =>
            rate'[c] = rate[c] /\ passed'[c] = passed[c]
      BY <2>1, <1>a
    <2>. QED  BY <2>2, <2>3, <2>4, <1>a, <1>p DEF IInv, CountedOnce
  <1>9. RecentShape'
    BY <1>a, <1>p DEF IInv, RecentShape
  <1>10. AdmissionsKept' /\ RepeatsOnlyByOverlap'
    BY <1>a, <1>p, AdmissionsStay
  <1>11. AnsweredAreOvertaken'
    BY <1>a, <1>p, OvertakenStay
  <1>12. RingAccounted'
    BY <1>0, <1>a, <1>p DEF IInv, RingAccounted
  <1>13. LoadedAccounted'
    BY <1>0, <1>a, <1>p DEF IInv, LoadedAccounted
  <1>. QED  BY <1>1, <1>2, <1>3, <1>4, <1>5, <1>6, <1>7, <1>8, <1>9, <1>10,
     <1>11, <1>12, <1>13
     DEF IInv

(* A stored answer is forgotten.                                              *)
LEMMA ResponseExpiresKeepsIInv ==
  ASSUME IInv, ResponseExpires  PROVE  IInv'
  <1>a. /\ responses' \in [Keys -> {None} \cup
             [body : Bodies, status : Statuses, did : {NoName} \cup Pseudonyms]]
        /\ \A k \in Keys : responses'[k] = responses[k] \/ responses'[k] = None
        /\ UNCHANGED <<redis, keyVersion, rate, ring, mapping, pc, req, work,
                       arrived, passed, recent, exported, queued, dropped,
                       overtaken>>
    BY DEF ResponseExpires, history, IInv, TypeOK
  <1>0. \A c \in Bases, x \in Seqs : Accounted(c, x) => Accounted(c, x)'
    BY <1>a, AccountedStays
  <1>1. TypeOK'
    BY <1>a DEF IInv, TypeOK
  <1>2. WorkShape'
    BY <1>a DEF IInv, WorkShape
  <1>3. Stages'
    BY <1>a DEF IInv, Stages, Device
  <1>4. NamesDiffer'
    BY <1>a DEF IInv, NamesDiffer
  <1>5. ExportedIsMapped'
    BY <1>a DEF IInv, ExportedIsMapped
  <1>6. AcceptIsTrue'
    BY <1>a DEF IInv, AcceptIsTrue, Device
  <1>7. StoredAcceptIsTrue'
    BY <1>a DEF IInv, StoredAcceptIsTrue
  <1>8. CountedOnce'
    BY <1>a, CountsStay
  <1>9. RecentShape'
    BY <1>a DEF IInv, RecentShape
  <1>10. AdmissionsKept' /\ RepeatsOnlyByOverlap'
    BY <1>a, AdmissionsStay
  <1>11. AnsweredAreOvertaken'
    BY <1>a, OvertakenStay
  <1>12. RingAccounted'
    BY <1>0, <1>a DEF IInv, RingAccounted
  <1>13. LoadedAccounted'
    BY <1>0, <1>a DEF IInv, LoadedAccounted
  <1>. QED  BY <1>1, <1>2, <1>3, <1>4, <1>5, <1>6, <1>7, <1>8, <1>9, <1>10,
     <1>11, <1>12, <1>13
     DEF IInv

(* A ring in Redis is forgotten.                                              *)
LEMMA RingExpiresKeepsIInv ==
  ASSUME IInv, RingExpires  PROVE  IInv'
  <1>p. redis /\ UNCHANGED <<redis, keyVersion, responses, rate, mapping, pc,
                             req, work, arrived, passed, exported, queued,
                             dropped, overtaken>>
    BY DEF RingExpires
  <1>a. /\ ring' \in [Bases -> Seq(Seqs)]
        /\ recent' \in [Bases -> Seq(Admissions)]
        /\ \A c \in Bases :
             \/ ring'[c] = ring[c] /\ recent'[c] = recent[c]
             \/ Len(ring'[c]) = 0 /\ Len(recent'[c]) = 0
    BY DEF RingExpires, IInv, TypeOK
  <1>0. \A c \in Bases, x \in Seqs : Accounted(c, x) => Accounted(c, x)'
    BY <1>a, <1>p, AccountedStays
  <1>1. TypeOK'
    BY <1>a, <1>p, IngestConstants DEF IInv, TypeOK
  <1>2. WorkShape'
    BY <1>a, <1>p DEF IInv, WorkShape
  <1>3. Stages'
    BY <1>a, <1>p DEF IInv, Stages, Device
  <1>4. NamesDiffer'
    BY <1>a, <1>p DEF IInv, NamesDiffer
  <1>5. ExportedIsMapped'
    BY <1>a, <1>p DEF IInv, ExportedIsMapped
  <1>6. AcceptIsTrue'
    BY <1>a, <1>p DEF IInv, AcceptIsTrue, Device
  <1>7. StoredAcceptIsTrue'
    BY <1>a, <1>p DEF IInv, StoredAcceptIsTrue
  <1>8. CountedOnce'
    BY <1>a, <1>p, CountsStay
  <1>9. RecentShape'
    <2>1. RingSize \in Nat  BY IngestConstants
    <2>. SUFFICES ASSUME NEW c \in Bases PROVE Len(recent'[c]) <= RingSize + 1
      BY DEF RecentShape
    <2>2. Len(recent[c]) <= RingSize + 1  BY DEF IInv, RecentShape
    <2>. QED  BY <2>1, <2>2, <1>a
  <1>10. AdmissionsKept' /\ RepeatsOnlyByOverlap'
    BY <1>a, <1>p, AdmissionsStay
  <1>11. AnsweredAreOvertaken'
    BY <1>a, <1>p, OvertakenStay
  <1>12. RingAccounted'
    BY <1>0, <1>a DEF IInv, RingAccounted, Contains
  <1>13. LoadedAccounted'
    BY <1>0, <1>a, <1>p DEF IInv, LoadedAccounted
  <1>. QED  BY <1>1, <1>2, <1>3, <1>4, <1>5, <1>6, <1>7, <1>8, <1>9, <1>10,
     <1>11, <1>12, <1>13
     DEF IInv

(* What is kept in memory is lost with the process; rings and counters in     *)
(* Redis and the mapping table stay.                                          *)
LEMMA RestartKeepsIInv ==
  ASSUME IInv, Restart  PROVE  IInv'
  <1>p. /\ redis' = redis /\ mapping' = mapping /\ arrived' = arrived
        /\ exported' = exported /\ queued' = queued
        /\ keyVersion' \in Versions /\ overtaken' = {}
        /\ \/ UNCHANGED <<responses, rate, ring, passed, recent>>
           \/ /\ responses' = [k \in Keys |-> None]
              /\ rate' = [b \in Bases |-> NoRate]
              /\ ring' = [b \in Bases |-> <<>>]
              /\ passed' = [b \in Bases |-> 0]
              /\ recent' = [b \in Bases |-> <<>>]
    BY DEF Restart
  <1>a. /\ pc' \in [Requests -> RequestStates]
        /\ work' \in [Requests -> WorkRecords]
        /\ req' \in [Requests -> {None} \cup RequestRecords]
        /\ \A s \in Requests : pc'[s] = "idle"
    BY NoWorkIsWork DEF Restart, RequestStates
  <1>b. /\ dropped \subseteq dropped' /\ dropped' \subseteq Bases \X Seqs
        /\ \A s \in Requests : pc[s] \in Admitted =>
             <<work[s].base, req[s].body.seq>> \in dropped'
    <2>1. dropped' = dropped \cup UNION {Abandoned(s) : s \in Requests}
      BY DEF Restart
    <2>2. \A s \in Requests : pc[s] \in Admitted =>
             <<work[s].base, req[s].body.seq>> \in Abandoned(s)
      BY DEF Abandoned, Admitted
    <2>3. \A s \in Requests : Abandoned(s) \subseteq Bases \X Seqs
      <3>. SUFFICES ASSUME NEW s \in Requests, pc[s] \in Admitted
                    PROVE  Abandoned(s) \subseteq Bases \X Seqs
        BY DEF Abandoned, Admitted
      <3>1. req[s] \in RequestRecords /\ work[s].base \in Bases
        BY DEF IInv, Stages, Identified, Admitted, BaseIsOf
      <3>. QED  BY <3>1 DEF RequestRecords, Bodies, Abandoned
    <2>4. dropped \subseteq Bases \X Seqs  BY DEF IInv, TypeOK
    <2>. QED  BY <2>1, <2>2, <2>3, <2>4
  <1>c. /\ ring' \in [Bases -> Seq(Seqs)]
        /\ recent' \in [Bases -> Seq(Admissions)]
        /\ \/ ring' = ring /\ recent' = recent
           \/ \A c \in Bases : Len(ring'[c]) = 0 /\ Len(recent'[c]) = 0
    <2>1. CASE ring' = ring /\ recent' = recent
      BY <2>1 DEF IInv, TypeOK
    <2>2. CASE ring' = [b \in Bases |-> <<>>]
                 /\ recent' = [b \in Bases |-> <<>>]
      BY <2>2
    <2>. QED  BY <2>1, <2>2, <1>p
  <1>0. \A c \in Bases, x \in Seqs : Accounted(c, x) => Accounted(c, x)'
    BY <1>a, <1>b, <1>p, AccountedStays
  <1>1. TypeOK'
    <2>1. NoRate \in [count : Nat, expires : BOOLEAN]  BY DEF NoRate
    <2>2. \A c \in Bases : Len(ring'[c]) <= RingSize
      BY <1>c, IngestConstants DEF IInv, TypeOK
    <2>. QED  BY <2>1, <2>2, <1>a, <1>b, <1>c, <1>p DEF IInv, TypeOK,
       RequestRecords
  <1>2. WorkShape'
    BY <1>a, <1>b, <1>p DEF WorkShape
  <1>3. Stages'
    BY <1>a, <1>b, <1>p DEF Stages, Identified
  <1>4. NamesDiffer'
    BY <1>a, <1>b, <1>p DEF IInv, NamesDiffer
  <1>5. ExportedIsMapped'
    BY <1>a, <1>b, <1>p DEF IInv, ExportedIsMapped
  <1>6. AcceptIsTrue'
    BY <1>a, <1>b, <1>p DEF AcceptIsTrue
  <1>7. StoredAcceptIsTrue'
    BY <1>a, <1>b, <1>p DEF IInv, StoredAcceptIsTrue
  <1>8. CountedOnce'
    BY <1>a, <1>p, IngestConstants DEF IInv, CountedOnce, NoRate
  <1>9. RecentShape'
    BY <1>c, IngestConstants DEF IInv, RecentShape
  <1>10. AdmissionsKept' /\ RepeatsOnlyByOverlap'
    BY <1>a, <1>c, <1>p, AdmissionsStay
  <1>11. AnsweredAreOvertaken'
    BY <1>a DEF AnsweredAreOvertaken
  <1>12. RingAccounted'
    BY <1>0, <1>c DEF IInv, RingAccounted, Contains
  <1>13. LoadedAccounted'
    BY <1>0, <1>a, <1>b, <1>p DEF LoadedAccounted
  <1>. QED  BY <1>1, <1>2, <1>3, <1>4, <1>5, <1>6, <1>7, <1>8, <1>9, <1>10,
     <1>11, <1>12, <1>13
     DEF IInv

(* Nothing happens.                                                           *)
LEMMA StutterKeepsIInv ==
  ASSUME IInv, UNCHANGED vars  PROVE IInv'
  <1>a. UNCHANGED <<redis, keyVersion, responses, rate, ring, mapping, pc, req,
                    work, arrived, passed, recent, exported, queued, dropped,
                    overtaken>>
    BY DEF vars
  <1>0. \A c \in Bases, x \in Seqs : Accounted(c, x) => Accounted(c, x)'
    BY <1>a, AccountedStays
  <1>1. TypeOK'
    BY <1>a DEF IInv, TypeOK
  <1>2. WorkShape'
    BY <1>a DEF IInv, WorkShape
  <1>3. Stages'
    BY <1>a DEF IInv, Stages, Device
  <1>4. NamesDiffer'
    BY <1>a DEF IInv, NamesDiffer
  <1>5. ExportedIsMapped'
    BY <1>a DEF IInv, ExportedIsMapped
  <1>6. AcceptIsTrue'
    BY <1>a DEF IInv, AcceptIsTrue, Device
  <1>7. StoredAcceptIsTrue'
    BY <1>a DEF IInv, StoredAcceptIsTrue
  <1>8. CountedOnce'
    BY <1>a, CountsStay
  <1>9. RecentShape'
    BY <1>a DEF IInv, RecentShape
  <1>10. AdmissionsKept' /\ RepeatsOnlyByOverlap'
    BY <1>a, AdmissionsStay
  <1>11. AnsweredAreOvertaken'
    BY <1>a, OvertakenStay
  <1>12. RingAccounted'
    BY <1>0, <1>a DEF IInv, RingAccounted
  <1>13. LoadedAccounted'
    BY <1>0, <1>a DEF IInv, LoadedAccounted
  <1>. QED  BY <1>1, <1>2, <1>3, <1>4, <1>5, <1>6, <1>7, <1>8, <1>9, <1>10,
     <1>11, <1>12, <1>13
     DEF IInv

-----------------------------------------------------------------------------
(* The inductive invariant holds in every state of every behaviour.           *)
THEOREM Invariance == Spec => []IInv
  <1>1. IInv /\ [Next]_vars => IInv'
    <2>. SUFFICES ASSUME IInv, [Next]_vars PROVE IInv'  OBVIOUS
    <2>1. CASE UNCHANGED vars  BY <2>1, StutterKeepsIInv
    <2>2. ASSUME NEW r \in Requests, RequestStep(r)  PROVE IInv'
      BY <2>2, ArriveKeepsIInv, RejectBodyKeepsIInv, PseudonymizeKeepsIInv,
         ConsumeKeepsIInv, SetExpiryKeepsIInv, OutOfWindowKeepsIInv,
         CheckSeqKeepsIInv, PersistSeqKeepsIInv, InsertMappingKeepsIInv,
         HandOverKeepsIInv,
         RecordErrorKeepsIInv, SendKeepsIInv, InternalErrorKeepsIInv
         DEF RequestStep
    <2>. QED
      BY <2>1, <2>2, RotateKeyKeepsIInv, MinuteEndsKeepsIInv,
         ResponseExpiresKeepsIInv, RingExpiresKeepsIInv, RestartKeepsIInv
         DEF Next
  <1>. QED  BY InitIInv, <1>1, PTL DEF Spec

(* Every variable keeps its type.                                             *)
THEOREM IngestTypeCorrect == Spec => []TypeOK
  BY Invariance, PTL DEF IInv

(* A device is exported under one name and a name is used for one device,     *)
(* whatever its HMACs collide with and whenever the key is rotated or two     *)
(* requests race for a row (mapping.ts:22-57).                                *)
THEOREM NamesAreUnique == Spec => []OneNamePerDevice
  <1>1. IInv => OneNamePerDevice
    BY DEF IInv, TypeOK, NamesDiffer, ExportedIsMapped, OneNamePerDevice
  <1>. QED  BY Invariance, <1>1, PTL

(* A 202 stored for an idempotency key was given for a reading the exporter   *)
(* has, under the name the answer says (idempotency.ts:111-136,               *)
(* routes.ts:89-102).                                                         *)
THEOREM StoredAcceptsAreTrue == Spec => []StoredAcceptIsTrue
  BY Invariance, PTL DEF IInv

(* The limiter lets at most RateLimit readings of a pseudonym pass in a       *)
(* minute (ratelimit.ts:34-56).                                               *)
THEOREM BudgetHolds == Spec => []MinuteBudget
  <1>1. IInv => MinuteBudget  BY DEF IInv, CountedOnce, MinuteBudget
  <1>. QED  BY Invariance, <1>1, PTL

(* With Redis or without, a sequence number is admitted twice in RingSize + 1 *)
(* admissions only if the first time another request of its pseudonym stood   *)
(* between GET and SET (replay.ts:53-75).                                     *)
THEOREM RepeatsNeedOverlap == Spec => []RepeatsOnlyByOverlap
  BY Invariance, PTL DEF IInv

(* The ring refuses nothing as a repeat but what was handed over, is about to *)
(* be, or was lost with its request (routes.ts:86-98, replay.ts:53-75).       *)
THEOREM RememberedReadingsWereAccepted == Spec => []RememberedWasAccepted
  <1>1. IInv => RememberedWasAccepted
    <2>. SUFFICES ASSUME IInv, NEW b \in Bases, NEW i \in 1..Len(ring[b])
                  PROVE  Accounted(b, ring[b][i])
      BY DEF RememberedWasAccepted, Accounted
    <2>1. ring[b][i] \in Seqs  BY DEF IInv, TypeOK
    <2>2. Contains(ring[b], ring[b][i])  BY DEF Contains
    <2>. QED  BY <2>1, <2>2 DEF IInv, RingAccounted
  <1>. QED  BY Invariance, <1>1, PTL

(* An answer is stored over another only by a request that had looked its key *)
(* up before that other was stored: whatever comes later finds it             *)
(* (idempotency.ts:77-104, 111-136).                                          *)
THEOREM AnswersReplacedNeedOverlap == Spec => AnswersReplacedOnlyByOverlap
  <1>1. ASSUME IInv, [Next]_vars, NEW k \in Keys, responses[k] # None,
               responses'[k] # None, responses'[k] # responses[k]
        PROVE  \E r \in overtaken : pc[r] = "sending" /\ req[r].key = k
    <2>1. PICK r \in Requests : Send(r)
      <3>1. CASE UNCHANGED vars  BY <3>1, <1>1 DEF vars
      <3>2. ASSUME NEW r \in Requests, RequestStep(r), ~Send(r)
            PROVE  UNCHANGED responses
        BY <3>2 DEF RequestStep, Arrive, RejectBody, Pseudonymize, Consume,
           SetExpiry, OutOfWindow, CheckSeq, PersistSeq, InsertMapping,
           HandOver, RecordError, InternalError, stores
      <3>3. ~ResponseExpires
        BY <1>1 DEF ResponseExpires, IInv, TypeOK
      <3>4. ~Restart  BY <1>1 DEF Restart
      <3>5. CASE RotateKey \/ MinuteEnds \/ RingExpires
        BY <3>5, <1>1 DEF RotateKey, MinuteEnds, RingExpires, stores
      <3>. QED  BY <1>1, <3>1, <3>2, <3>3, <3>4, <3>5 DEF Next
    <2>2. pc[r] = "sending" /\ req[r].key = k
      BY <2>1, <1>1 DEF Send, IInv, TypeOK
    <2>3. r \in overtaken
      BY <2>2, <1>1 DEF IInv, AnsweredAreOvertaken
    <2>. QED  BY <2>2, <2>3
  <1>2. IInv /\ [Next]_vars =>
          [\A k \in Keys :
             /\ responses[k] # None /\ responses'[k] # None
             /\ responses'[k] # responses[k]
             => \E r \in overtaken : pc[r] = "sending" /\ req[r].key = k]_vars
    BY <1>1
  <1>. QED  BY Invariance, <1>2, PTL DEF Spec, AnswersReplacedOnlyByOverlap

(* The route keeps the registry of pseudonyms: a row is inserted once and for *)
(* ever, a reading leaves under the name in its row, and an answer that is    *)
(* kept names what a reading has left under (mapping.ts:22-57,                *)
(* routes.ts:86-102).                                                         *)
THEOREM IngestImplementsRegistry == Spec => ImplementsRegistry
  <1>. DEFINE Accepts == {j \in Keys : responses[j] # None
                                      /\ responses[j].status = "202"}
              Told == {<<responses[k].body.device, responses[k].did>> :
                         k \in Accepts}
  <1>1. Init => Registry!RegistryInit
    BY DEF Init, Registry!RegistryInit
  <1>2. ASSUME IInv, IInv', [Next]_vars
        PROVE  [Registry!RegistryNext]_Registry!registryVars
    <2>1. Told' \subseteq exported'
      BY <1>2 DEF IInv, StoredAcceptIsTrue
    <2>2. CASE UNCHANGED <<mapping, exported>>
      BY <2>1, <2>2 DEF Registry!RegistryNext, Registry!Tell
    <2>3. ASSUME NEW r \in Requests, InsertMapping(r), ~UNCHANGED mapping
          PROVE  Registry!RegistryNext
      <3>. DEFINE d == req[r].body.device
      <3>1. /\ d \in Devices /\ Candidate(r) \in Pseudonyms
        <4>1. /\ req[r] \in RequestRecords /\ work[r].base \in Bases
              /\ work[r] \in WorkRecords
          BY <1>2, <2>3
             DEF InsertMapping, IInv, Stages, Identified, BaseIsOf, WorkShape
        <4>2. d \in Devices  BY <4>1 DEF RequestRecords, Bodies
        <4>3. Candidate(r) \in Pseudonyms
          BY <4>1, IngestConstants DEF Candidate, Pseudonyms, WorkRecords
        <4>. QED  BY <4>2, <4>3
      <3>2. Told' = Told /\ UNCHANGED exported
        BY <2>3 DEF InsertMapping, history
      <3>3. /\ mapping[d] = NoName
            /\ ~\E e \in Devices : mapping[e] = Candidate(r)
            /\ mapping' = [mapping EXCEPT ![d] = Candidate(r)]
        BY <2>3 DEF InsertMapping
      <3>4. Registry!Register(d)
        BY <3>1, <3>2, <3>3 DEF Registry!Register
      <3>. QED  BY <3>1, <3>4 DEF Registry!RegistryNext
    <2>4. ASSUME NEW r \in Requests, HandOver(r)
          PROVE  Registry!RegistryNext
      <3>. DEFINE d == Device(r)
      <3>1. d \in Devices /\ mapping[d] # NoName /\ mapping[d] = work[r].did
        BY <1>2, <2>4
           DEF HandOver, IInv, Stages, RequestRecords, Bodies, Device
      <3>2. Told' = Told /\ UNCHANGED mapping  BY <2>4 DEF HandOver, stores
      <3>3. exported' = exported \cup {<<d, mapping[d]>>}
        BY <2>4, <3>1 DEF HandOver, Enqueue, Device
      <3>4. Registry!Leave(d)
        BY <3>1, <3>2, <3>3 DEF Registry!Leave
      <3>. QED  BY <3>1, <3>4 DEF Registry!RegistryNext
    <2>7. ASSUME NEW r \in Requests, RequestStep(r), ~InsertMapping(r),
                 ~HandOver(r)
          PROVE  UNCHANGED <<mapping, exported>>
      BY <2>7 DEF RequestStep, Arrive, RejectBody, Pseudonymize, Consume,
         SetExpiry, OutOfWindow, CheckSeq, PersistSeq, Send, RecordError,
         InternalError, stores, history
    <2>8. ASSUME NEW r \in Requests, InsertMapping(r), UNCHANGED mapping
          PROVE  UNCHANGED <<mapping, exported>>
      BY <2>8 DEF InsertMapping, history
    <2>5. CASE RotateKey \/ MinuteEnds \/ ResponseExpires \/ RingExpires
                 \/ Restart
      BY <2>2, <2>5 DEF RotateKey, MinuteEnds, ResponseExpires, RingExpires,
         Restart, stores, history
    <2>6. CASE UNCHANGED vars  BY <2>2, <2>6 DEF vars
    <2>. QED  BY <1>2, <2>2, <2>3, <2>4, <2>5, <2>6, <2>7, <2>8 DEF Next
  <1>. QED
    BY Invariance, <1>1, <1>2, PTL DEF Spec, ImplementsRegistry,
       Registry!RegistrySpec

(* A request about to set an expiry stays so until a step of its own or the   *)
(* end of the process.                                                        *)
LEMMA ExpiringStays ==
  ASSUME IInv, [Next]_vars, NEW s \in Requests, pc[s] = "expiring",
         pc'[s] # "idle"
  PROVE  SetExpiry(s) \/ (pc'[s] = "expiring" /\ work'[s].base = work[s].base)
  <1>1. pc \in [Requests -> RequestStates] /\ work \in [Requests -> WorkRecords]
    BY DEF IInv, TypeOK, WorkShape
  <1>2. ASSUME NEW r \in Requests, RequestStep(r), r # s
        PROVE  pc'[s] = pc[s] /\ work'[s] = work[s]
    <2>1. CASE Arrive(r)  BY <1>1, <1>2, <2>1 DEF Arrive, Goto
    <2>2. CASE RejectBody(r) \/ OutOfWindow(r) \/ RecordError(r)
      BY <1>1, <1>2, <2>2 DEF RejectBody, OutOfWindow, RecordError, Reply,
         RefuseAndRecord, Goto
    <2>3. CASE Pseudonymize(r)  BY <1>1, <1>2, <2>3 DEF Pseudonymize, Goto
    <2>4. CASE Consume(r)
      BY <1>1, <1>2, <2>4 DEF Consume, RefuseAndRecord, LetPass, Goto
    <2>5. CASE SetExpiry(r)
      BY <1>1, <1>2, <2>5 DEF SetExpiry, LetPass, Goto
    <2>6. CASE CheckSeq(r)
      BY <1>1, <1>2, <2>6 DEF CheckSeq, Admit, Reply, Goto
    <2>7. CASE PersistSeq(r)
      BY <1>1, <1>2, <2>7 DEF PersistSeq, Admit, Goto
    <2>8. CASE InsertMapping(r) \/ HandOver(r)
      BY <1>1, <1>2, <2>8 DEF InsertMapping, HandOver, Enqueue, Goto
    <2>9. CASE Send(r) \/ InternalError(r)
      BY <1>1, <1>2, <2>9 DEF Send, InternalError, Done, Goto
    <2>. QED
      BY <1>2, <2>1, <2>2, <2>3, <2>4, <2>5, <2>6, <2>7, <2>8, <2>9
         DEF RequestStep
  <1>3. CASE RequestStep(s)
    <2>1. SetExpiry(s) \/ InternalError(s)
      BY <1>3 DEF RequestStep, Arrive, RejectBody, Pseudonymize, Consume,
         OutOfWindow, CheckSeq, PersistSeq, InsertMapping, HandOver,
         RecordError, Send
    <2>2. ~InternalError(s)
      BY <1>1 DEF InternalError, Done, Goto
    <2>. QED  BY <2>1, <2>2
  <1>4. CASE RotateKey \/ MinuteEnds \/ ResponseExpires \/ RingExpires
    BY <1>4 DEF RotateKey, MinuteEnds, ResponseExpires, RingExpires
  <1>5. ~Restart  BY DEF Restart
  <1>6. CASE UNCHANGED vars  BY <1>6 DEF vars
  <1>. QED  BY <1>2, <1>3, <1>4, <1>5, <1>6 DEF Next

(* A counter without expiry is left in Redis only by a request that broke off *)
(* between INCR and EXPIRE (ratelimit.ts:34-43).                              *)
THEOREM ShutOutNeedsBreakOff == Spec => ShutOutOnlyByBreakOff
  <1>1. ASSUME IInv, [Next]_vars, NEW b \in Bases, redis, GoesAway(b),
               \A r \in Requests : pc[r] = "expiring" /\ work[r].base = b
                                     => pc'[r] # "idle"
        PROVE  GoesAway(b)'
    <2>1. rate \in [Bases -> [count : Nat, expires : BOOLEAN]]
      BY <1>1 DEF IInv, TypeOK
    <2>2. CASE \E r \in Requests : pc[r] = "expiring" /\ work[r].base = b
      <3>1. PICK r \in Requests : pc[r] = "expiring" /\ work[r].base = b
        BY <2>2
      <3>2. CASE SetExpiry(r)
        <4>1. rate'[b].expires  BY <2>1, <3>1, <3>2 DEF SetExpiry
        <4>. QED  BY <4>1 DEF GoesAway
      <3>3. CASE pc'[r] = "expiring" /\ work'[r].base = work[r].base
        BY <3>1, <3>3 DEF GoesAway
      <3>. QED  BY <1>1, <3>1, <3>2, <3>3, ExpiringStays
    <2>3. CASE ~\E r \in Requests : pc[r] = "expiring" /\ work[r].base = b
      <3>1. rate[b].count = 0 \/ rate[b].expires
        BY <1>1, <2>3 DEF GoesAway
      <3>2. ASSUME NEW r \in Requests, Consume(r)  PROVE GoesAway(b)'
        <4>1. /\ pc \in [Requests -> RequestStates]
              /\ work \in [Requests -> WorkRecords]
          BY <1>1 DEF IInv, TypeOK, WorkShape
        <4>2. CASE work[r].base = b /\ rate[b].count = 0
          <5>1. rate[b].count + 1 = 1  BY <4>2
          <5>2. OverLimit(1) <=> 1 > RateLimit  BY DEF OverLimit
          <5>3. ~OverLimit(1)  BY <5>2, IngestConstants
          <5>4. pc'[r] = "expiring" /\ work' = work
            BY <1>1, <3>2, <4>1, <4>2, <5>1, <5>3 DEF Consume, Goto
          <5>. QED  BY <4>2, <5>4 DEF GoesAway
        <4>3. CASE work[r].base = b /\ rate[b].expires
          <5>1. rate'[b].expires  BY <2>1, <3>2, <4>3 DEF Consume
          <5>. QED  BY <5>1 DEF GoesAway
        <4>4. CASE work[r].base # b
          <5>1. rate'[b] = rate[b]  BY <2>1, <3>2, <4>4 DEF Consume
          <5>. QED  BY <3>1, <5>1 DEF GoesAway
        <4>. QED  BY <3>1, <4>2, <4>3, <4>4
      <3>3. ASSUME NEW r \in Requests, SetExpiry(r)  PROVE GoesAway(b)'
        <4>1. work[r].base # b  BY <2>3, <3>3 DEF SetExpiry
        <4>2. rate'[b] = rate[b]  BY <2>1, <3>3, <4>1 DEF SetExpiry
        <4>. QED  BY <3>1, <4>2 DEF GoesAway
      <3>4. ASSUME MinuteEnds  PROVE GoesAway(b)'
        <4>1. rate'[b] = rate[b] \/ rate'[b] = NoRate
          BY <2>1, <3>4 DEF MinuteEnds
        <4>. QED  BY <3>1, <4>1 DEF GoesAway, NoRate
      <3>5. ASSUME rate' = rate  PROVE GoesAway(b)'
        BY <3>1, <3>5 DEF GoesAway
      <3>6. ASSUME NEW r \in Requests, RequestStep(r),
                   ~Consume(r), ~SetExpiry(r)
            PROVE  rate' = rate
        BY <3>6 DEF RequestStep, Arrive, RejectBody, Pseudonymize, OutOfWindow,
           CheckSeq, PersistSeq, InsertMapping, HandOver, RecordError, Send,
           InternalError, stores
      <3>7. CASE RotateKey \/ ResponseExpires \/ RingExpires \/ Restart
        BY <1>1, <3>5, <3>7 DEF RotateKey, ResponseExpires, RingExpires,
           Restart, stores
      <3>8. CASE UNCHANGED vars  BY <3>5, <3>8 DEF vars
      <3>. QED
        BY <1>1, <3>2, <3>3, <3>4, <3>5, <3>6, <3>7, <3>8 DEF Next
    <2>. QED  BY <2>2, <2>3
  <1>2. IInv /\ [Next]_vars =>
          [\A b \in Bases : redis /\ GoesAway(b) /\ ~GoesAway(b)' =>
             \E r \in Requests :
               pc[r] = "expiring" /\ work[r].base = b /\ pc'[r] = "idle"]_vars
    BY <1>1
  <1>. QED  BY Invariance, <1>2, PTL DEF Spec, ShutOutOnlyByBreakOff
=============================================================================
