---------------------------- MODULE GatewayIngest ----------------------------
(***************************************************************************)
(* POST /ingest of the CN gateway: the idempotency hooks around the route  *)
(* (middleware/idempotency.ts) and ingestHandler (ingest/routes.ts), which *)
(* pseudonymizes a reading's device, charges the device's rate limit,      *)
(* rejects a repeated sequence number, looks the device up in the mapping  *)
(* table and hands the reading to the exporter.                            *)
(*                                                                         *)
(* A request runs from await to await; between two of its awaits any other *)
(* request may run.  With Redis every look at shared state is an await of  *)
(* its own.  Without Redis the state is in Maps of the one process, and a  *)
(* Map is looked at and updated with no I/O in between.  The awaits in     *)
(* between settle in the same turn of the event loop, in which no other    *)
(* request runs unless both were pipelined on one connection and read in   *)
(* one piece; the model leaves that out and does it in one step.           *)
(*                                                                         *)
(* What is wrong with a request, if anything, comes with it: "refused"     *)
(* stands for a bad signature or a schema error, "unsanitary" for a field  *)
(* or a value Mode A forbids.  Whether its timestamp is within the allowed *)
(* skew depends on the clock and is left open.                             *)
(*                                                                         *)
(* A statement or a command has taken effect or not when its await is      *)
(* settled, by an answer or by an error, and when the process stops; that  *)
(* Redis or Postgres run one later, when nobody waits for it any more, is  *)
(* left out.                                                               *)
(***************************************************************************)
EXTENDS Integers, Sequences, FiniteSets

CONSTANTS
  Requests,    (* names for the requests in progress                        *)
  Devices,     (* raw device ids                                            *)
  Seqs,        (* sequence numbers                                          *)
  Flaws,       (* which of "none", "refused", "unsanitary" requests have    *)
  Keys,        (* values of the Idempotency-Key header                      *)
  NoKey,       (* a request without that header                             *)
  Versions,    (* versions of the KMS key                                   *)
  Bases,       (* truncated HMACs                                           *)
  Hmac,        (* [Versions -> [Devices -> Bases]], which may collide       *)
  RateLimit,   (* RATE_LIMIT_RPM_DEVICE                                     *)
  RingSize,    (* ReplayDefense.ringSize                                    *)
  MaxSuffix,   (* candidates persistMapping() tries                         *)
  MaxRequests  (* bound: requests in a behaviour                            *)

ASSUME IngestConstants ==
  /\ Flaws \subseteq {"none", "refused", "unsanitary"}
  /\ NoKey \notin Keys
  /\ Hmac \in [Versions -> [Devices -> Bases]]
  /\ RateLimit \in Nat \ {0}
  /\ RingSize \in Nat \ {0, 1}
  /\ MaxSuffix \in Nat \ {0}
  /\ MaxRequests \in Nat

VARIABLES
  redis,       (* REDIS_URL is set: fixed                                   *)
  keyVersion,  (* the version of the cached KMS adapter                     *)
  responses,   (* the idempotency store                                     *)
  rate,        (* count of the current minute per pseudonym, and whether    *)
               (* the Redis key has been given its expiry                   *)
  ring,        (* seqs of the ReplayEntry per pseudonym                     *)
  mapping,     (* did_pseudo per device in the mapping table of Postgres    *)
  pc,          (* what each request awaits                                  *)
  req,         (* its body and its key                                      *)
  work,        (* the local variables of its handler                        *)
  arrived,     (* history: requests so far                                  *)
  passed,      (* history: requests the limiter let pass in this minute     *)
  recent,      (* history: the latest RingSize + 1 admissions, and whether  *)
               (* each of them overlapped another                           *)
  exported,    (* history: <<device, did_pseudo>> handed to the exporter    *)
  queued,      (* history: the bodies handed to the exporter                *)
  dropped,     (* history: <<pseudonym, seq>> admitted by the ring whose    *)
               (* request broke off before it reached the exporter          *)
  overtaken    (* history: requests in progress whose key has been answered *)
               (* since they looked it up                                   *)

stores == <<responses, rate, ring, mapping>>
history == <<arrived, passed, recent, exported, queued, dropped, overtaken>>
vars == <<redis, keyVersion, responses, rate, ring, mapping, pc, req, work,
          arrived, passed, recent, exported, queued, dropped, overtaken>>

-----------------------------------------------------------------------------
(* Every 4xx status is treated alike by what follows the handler.           *)
Statuses == {"202", "4xx"}

RequestStates == {"idle", "verifying", "limiting", "expiring", "checking",
                  "persisting", "mapping", "queueing", "recording", "sending"}

Bodies == [device : Devices, seq : Seqs, flaw : Flaws]

(* What the history keeps of an admission.                                  *)
Admissions == [seq : Seqs, overlapped : BOOLEAN]

(* appendCollisionSuffix(): a pseudonym is a base, or a base and a suffix   *)
(* of two characters; counters below 1024 have different suffixes.          *)
Pseudonyms == Bases \X (0..MaxSuffix)

None == [absent |-> TRUE]

NoName == <<>>

NoWork == [base |-> None, entry |-> <<>>, counter |-> 0, status |-> "none",
           did |-> NoName]

NoRate == [count |-> 0, expires |-> FALSE]

(* slice(-n) of an array.                                                   *)
LatestOf(s, n) == IF Len(s) <= n THEN s ELSE SubSeq(s, Len(s) - n + 1, Len(s))

Contains(s, x) == \E i \in 1..Len(s) : s[i] = x

Init ==
  /\ redis \in BOOLEAN
  /\ keyVersion \in Versions
  /\ responses = [k \in Keys |-> None]
  /\ rate = [b \in Bases |-> NoRate]
  /\ ring = [b \in Bases |-> <<>>]
  /\ mapping = [d \in Devices |-> NoName]
  /\ pc = [r \in Requests |-> "idle"]
  /\ req = [r \in Requests |-> None]
  /\ work = [r \in Requests |-> NoWork]
  /\ arrived = 0
  /\ passed = [b \in Bases |-> 0]
  /\ recent = [b \in Bases |-> <<>>]
  /\ exported = {}
  /\ queued = {}
  /\ dropped = {}
  /\ overtaken = {}

-----------------------------------------------------------------------------
Goto(r, state) == pc' = [pc EXCEPT ![r] = state]

(* The request is over; its local variables are gone.                       *)
Done(r) ==
  /\ Goto(r, "idle")
  /\ req' = [req EXCEPT ![r] = None]
  /\ work' = [work EXCEPT ![r] = NoWork]

(* What the replay ring remembers of a request that ends where it is.       *)
Abandoned(r) ==
  IF pc[r] \in {"mapping", "queueing"}
  THEN {<<work[r].base, req[r].body.seq>>} ELSE {}

(* An error without a status of its own becomes a 500, which onSend does    *)
(* not cache: the request leaves nothing more behind.                       *)
InternalError(r) ==
  /\ pc[r] # "idle"
  /\ Done(r)
  /\ dropped' = dropped \cup Abandoned(r)
  /\ overtaken' = overtaken \ {r}
  /\ UNCHANGED <<redis, keyVersion, stores, arrived, passed, recent, exported,
                 queued>>

(* A reply is ready; onSend still has to store it.                          *)
Reply(r, status) ==
  /\ Goto(r, "sending")
  /\ work' = [work EXCEPT ![r].status = status]

(* Slip: only a 202 is answered from the store.                             *)
AnsweredAccept(key) ==
  key \in Keys /\ responses[key] # None /\ responses[key].status = "202"

Answered(key) == key \in Keys /\ responses[key] # None

(* A SanitizationError or a RateLimitError: the catch block records it      *)
(* before the error handler answers.                                        *)
RefuseAndRecord(r) ==
  /\ Goto(r, "recording")
  /\ work' = [work EXCEPT ![r].status = "4xx"]

(* preHandler: the store is asked for the key.  A hit answers from the      *)
(* cache, or 409 when the body is another; neither is stored again.         *)
Arrive(r) ==
  /\ pc[r] = "idle"
  /\ arrived < MaxRequests
  /\ arrived' = arrived + 1
  /\ \E body \in Bodies, key \in Keys \cup {NoKey} :
       \/ /\ Answered(key)
          /\ UNCHANGED <<pc, req>>
       \/ /\ ~Answered(key)
          /\ req' = [req EXCEPT ![r] = [body |-> body, key |-> key]]
          /\ Goto(r, "verifying")
  /\ UNCHANGED <<redis, keyVersion, stores, work, passed, recent, exported,
                 queued, dropped, overtaken>>

(* The signature or the schema is wrong, or a field is not allowed out: the *)
(* last is a SanitizationError, which is recorded before it is answered.    *)
RejectBody(r) ==
  /\ pc[r] = "verifying"
  /\ \/ /\ req[r].body.flaw = "refused"
        /\ Reply(r, "4xx")
     \/ /\ req[r].body.flaw = "unsanitary"
        /\ RefuseAndRecord(r)
  /\ UNCHANGED <<redis, keyVersion, req, stores, history>>

(* pseudonymizeDeviceId(): one adapter makes the HMAC and names its key.    *)
Pseudonymize(r) ==
  /\ pc[r] = "verifying"
  /\ req[r].body.flaw = "none"
  /\ Goto(r, "limiting")
  /\ work' = [work EXCEPT ![r].base = Hmac[keyVersion][req[r].body.device]]
  /\ UNCHANGED <<redis, keyVersion, req, stores, history>>

-----------------------------------------------------------------------------
(* Slip: one request too many.                                              *)
OverLimitByOne(count) == count > RateLimit + 1

OverLimit(count) == count > RateLimit

LetPass(r, b) ==
  /\ Goto(r, "checking")
  /\ passed' = [passed EXCEPT ![b] = @ + 1]
  /\ UNCHANGED work

(* RateLimiter.consume(): Redis counts with INCR and gives the first count  *)
(* of a minute its expiry with a second command; a Map counts in one step   *)
(* and never refuses the first request of a minute.                         *)
Consume(r) ==
  /\ pc[r] = "limiting"
  /\ LET b == work[r].base
         count == rate[b].count + 1
     IN  /\ rate' = [rate EXCEPT ![b].count = count]
         /\ \/ /\ count = 1 /\ redis
               /\ Goto(r, "expiring")
               /\ UNCHANGED <<work, passed>>
            \/ /\ ~OverLimit(count) /\ ~(count = 1 /\ redis)
               /\ LetPass(r, b)
            \/ /\ OverLimit(count)
               /\ RefuseAndRecord(r)
               /\ UNCHANGED passed
  /\ UNCHANGED <<redis, keyVersion, responses, ring, mapping, req,
                 arrived, recent, exported, queued, dropped, overtaken>>

(* Slip: the pseudonym is computed again, under the key of now.             *)
SetExpiryAgain(r) ==
  /\ pc[r] = "expiring"
  /\ LET b == Hmac[keyVersion][req[r].body.device]
     IN  rate' = [rate EXCEPT ![b].expires = TRUE]
  /\ LetPass(r, work[r].base)
  /\ UNCHANGED <<redis, keyVersion, responses, ring, mapping, req,
                 arrived, recent, exported, queued, dropped, overtaken>>

(* EXPIRE of the new Redis counter.                                         *)
SetExpiry(r) ==
  /\ pc[r] = "expiring"
  /\ rate' = [rate EXCEPT ![work[r].base].expires = TRUE]
  /\ LetPass(r, work[r].base)
  /\ UNCHANGED <<redis, keyVersion, responses, ring, mapping, req,
                 arrived, recent, exported, queued, dropped, overtaken>>

(* Slip: the seq is recorded before the window is looked at.                *)
OutOfWindowRecorded(r) ==
  /\ pc[r] = "checking"
  /\ RefuseAndRecord(r)
  /\ LET b == work[r].base
         seq == req[r].body.seq
     IN  ring' = [ring EXCEPT ![b] = Append(LatestOf(@, RingSize - 1), seq)]
  /\ UNCHANGED <<redis, keyVersion, req, responses, rate, mapping, history>>

(* The reading's minute is too far from the gateway's clock.                *)
OutOfWindow(r) ==
  /\ pc[r] = "checking"
  /\ RefuseAndRecord(r)
  /\ UNCHANGED <<redis, keyVersion, req, stores, history>>

(* Another request has read the same entry and is about to write it back    *)
(* without what r admits.                                                   *)
Overlapped(r) ==
  \E s \in Requests \ {r} : pc[s] = "persisting" /\ work[s].base = work[r].base

(* What the history keeps of an admission by r.                             *)
Admission(r) == [seq |-> req[r].body.seq, overlapped |-> Overlapped(r)]

(* Slip: the entry is not cut to its size.                                  *)
AdmitUnbounded(r, entry) ==
  LET b == work[r].base
      seq == req[r].body.seq
  IN  /\ ring' = [ring EXCEPT ![b] = Append(entry, seq)]
      /\ recent' = [recent EXCEPT ![b] =
                      Append(LatestOf(@, RingSize), Admission(r))]
      /\ Goto(r, "mapping")

(* Slip: slice() from the start keeps the oldest seqs.                      *)
AdmitKeepsOldest(r, entry) ==
  LET b == work[r].base
      seq == req[r].body.seq
      oldest == IF Len(entry) < RingSize THEN entry
                ELSE SubSeq(entry, 1, RingSize - 1)
  IN  /\ ring' = [ring EXCEPT ![b] = Append(oldest, seq)]
      /\ recent' = [recent EXCEPT ![b] =
                      Append(LatestOf(@, RingSize), Admission(r))]
      /\ Goto(r, "mapping")

(* persist(): the entry as it was loaded, with the new seq at its end.      *)
Admit(r, entry) ==
  LET b == work[r].base
      seq == req[r].body.seq
  IN  /\ ring' = [ring EXCEPT ![b] = Append(LatestOf(entry, RingSize - 1), seq)]
      /\ recent' = [recent EXCEPT ![b] =
                      Append(LatestOf(@, RingSize), Admission(r))]
      /\ Goto(r, "mapping")

(* assertFresh() up to the answer of load(): a known seq is a replay.  A    *)
(* Map is read and written in one step, Redis with a GET and a SET.         *)
CheckSeq(r) ==
  /\ pc[r] = "checking"
  /\ LET entry == ring[work[r].base]
     IN  \/ /\ Contains(entry, req[r].body.seq)
            /\ Reply(r, "4xx")
            /\ UNCHANGED <<ring, recent>>
         \/ /\ ~Contains(entry, req[r].body.seq) /\ redis
            /\ work' = [work EXCEPT ![r].entry = entry]
            /\ Goto(r, "persisting")
            /\ UNCHANGED <<ring, recent>>
         \/ /\ ~Contains(entry, req[r].body.seq) /\ ~redis
            /\ Admit(r, entry)
            /\ UNCHANGED work
  /\ UNCHANGED <<redis, keyVersion, responses, rate, mapping, req,
                 arrived, passed, exported, queued, dropped, overtaken>>

PersistSeq(r) ==
  /\ pc[r] = "persisting"
  /\ Admit(r, work[r].entry)
  /\ UNCHANGED <<redis, keyVersion, responses, rate, mapping, req, work,
                 arrived, passed, exported, queued, dropped, overtaken>>

-----------------------------------------------------------------------------
(* The pseudonym persistMapping() tries next.                               *)
Candidate(r) == <<work[r].base, work[r].counter>>

(* Slip: the row of a known device takes the candidate too.                 *)
InsertMappingRenames(r) ==
  /\ pc[r] = "mapping"
  /\ \A e \in Devices : mapping[e] # Candidate(r)
  /\ mapping' = [mapping EXCEPT ![req[r].body.device] = Candidate(r)]
  /\ work' = [work EXCEPT ![r].did = Candidate(r)]
  /\ Goto(r, "queueing")
  /\ UNCHANGED <<redis, keyVersion, responses, rate, ring, req, history>>

(* insertRecord() up to its COMMIT: a known device keeps its pseudonym      *)
(* (only last_seen and key_version are updated); a new one takes the        *)
(* candidate, unless another device has it.                                 *)
InsertMapping(r) ==
  /\ pc[r] = "mapping"
  /\ LET d == req[r].body.device
         taken == \E e \in Devices : mapping[e] = Candidate(r)
     IN  \/ /\ mapping[d] # NoName
            /\ work' = [work EXCEPT ![r].did = mapping[d]]
            /\ Goto(r, "queueing")
            /\ UNCHANGED mapping
         \/ /\ mapping[d] = NoName /\ ~taken
            /\ mapping' = [mapping EXCEPT ![d] = Candidate(r)]
            /\ work' = [work EXCEPT ![r].did = Candidate(r)]
            /\ Goto(r, "queueing")
         \/ /\ mapping[d] = NoName /\ taken
            /\ work[r].counter + 1 < MaxSuffix
            /\ work' = [work EXCEPT ![r].counter = @ + 1]
            /\ UNCHANGED <<pc, mapping>>
  /\ UNCHANGED <<redis, keyVersion, responses, rate, ring, req, history>>

(* Slip: the record carries the pseudonym just computed, not the one of the *)
(* mapping table.                                                           *)
EnqueueComputed(r, did) ==
  /\ exported' = exported \cup {<<req[r].body.device, <<work[r].base, 0>>>>}
  /\ queued' = queued \cup {req[r].body}
  /\ Goto(r, "sending")
  /\ work' = [work EXCEPT ![r].status = "202", ![r].did = did]

(* Slip: the answer names the pseudonym just computed.                      *)
AnswerComputed(r, did) ==
  /\ exported' = exported \cup {<<req[r].body.device, did>>}
  /\ queued' = queued \cup {req[r].body}
  /\ Goto(r, "sending")
  /\ work' = [work EXCEPT ![r].status = "202", ![r].did = <<work[r].base, 0>>]

(* enqueue() and the 202 that names the pseudonym.                          *)
Enqueue(r, did) ==
  /\ exported' = exported \cup {<<req[r].body.device, did>>}
  /\ queued' = queued \cup {req[r].body}
  /\ Goto(r, "sending")
  /\ work' = [work EXCEPT ![r].status = "202", ![r].did = did]

(* The answer of Postgres is there: the reading leaves under the name of    *)
(* the row.  When the answer is lost, or the process stops before it comes, *)
(* the row stays and nothing is handed over.                                *)
HandOver(r) ==
  /\ pc[r] = "queueing"
  /\ Enqueue(r, work[r].did)
  /\ UNCHANGED <<redis, keyVersion, stores, req,
                 arrived, passed, recent, dropped, overtaken>>

(* recordErrorEvent() (and recordAuditLog()) resolve; the error is thrown   *)
(* on and the error handler answers with its status.                        *)
RecordError(r) ==
  /\ pc[r] = "recording"
  /\ Goto(r, "sending")
  /\ UNCHANGED <<redis, keyVersion, req, work, stores, history>>

(* The other requests in progress with the key of r.                        *)
SameKey(r) ==
  {s \in Requests \ {r} :
     pc[s] # "idle" /\ req[r].key # NoKey /\ req[s].key = req[r].key}

(* onSend: the answer to a keyed request is stored, whatever is there now.  *)
Send(r) ==
  /\ pc[r] = "sending"
  /\ Done(r)
  /\ \/ /\ req[r].key = NoKey
        /\ UNCHANGED responses
     \/ /\ req[r].key # NoKey
        /\ responses' = [responses EXCEPT ![req[r].key] =
             [body |-> req[r].body, status |-> work[r].status,
              did |-> work[r].did]]
  /\ overtaken' = (overtaken \ {r}) \cup SameKey(r)
  /\ UNCHANGED <<redis, keyVersion, rate, ring, mapping, arrived, passed,
                 recent, exported, queued, dropped>>

-----------------------------------------------------------------------------
(* rotateKeyHandler(): the next use of the KMS makes a new adapter.         *)
RotateKey ==
  /\ keyVersion' \in Versions
  /\ UNCHANGED <<redis, stores, pc, req, work, history>>

(* A minute ends: a Redis counter that has been given its expiry is gone;   *)
(* buckets in a Map are all of an old window.                               *)
MinuteEnds ==
  /\ \/ /\ redis
        /\ \E b \in {c \in Bases : rate[c].expires} :
             /\ rate' = [rate EXCEPT ![b] = NoRate]
             /\ passed' = [passed EXCEPT ![b] = 0]
     \/ /\ ~redis
        /\ rate' = [b \in Bases |-> NoRate]
        /\ passed' = [b \in Bases |-> 0]
  /\ UNCHANGED <<redis, keyVersion, responses, ring, mapping, pc, req, work,
                 arrived, recent, exported, queued, dropped, overtaken>>

(* IDEMPOTENCY_TTL_HOURS after a response was stored.                       *)
ResponseExpires ==
  /\ \E k \in Keys : responses' = [responses EXCEPT ![k] = None]
  /\ UNCHANGED <<redis, keyVersion, rate, ring, mapping, pc, req, work,
                 history>>

(* Redis drops a ReplayEntry 600 s after it was written.                    *)
RingExpires ==
  /\ redis
  /\ \E b \in Bases :
       /\ ring' = [ring EXCEPT ![b] = <<>>]
       /\ recent' = [recent EXCEPT ![b] = <<>>]
  /\ UNCHANGED <<redis, keyVersion, responses, rate, mapping, pc, req, work,
                 arrived, passed, exported, queued, dropped, overtaken>>

(* The process stops and starts: requests in progress end without an        *)
(* answer, what is not in Redis or Postgres is gone, and the key version is *)
(* read from the environment again.                                         *)
Restart ==
  /\ pc' = [r \in Requests |-> "idle"]
  /\ req' = [r \in Requests |-> None]
  /\ work' = [r \in Requests |-> NoWork]
  /\ dropped' = dropped \cup UNION {Abandoned(r) : r \in Requests}
  /\ overtaken' = {}
  /\ keyVersion' \in Versions
  /\ \/ /\ redis
        /\ UNCHANGED <<responses, rate, ring, passed, recent>>
     \/ /\ ~redis
        /\ responses' = [k \in Keys |-> None]
        /\ rate' = [b \in Bases |-> NoRate]
        /\ ring' = [b \in Bases |-> <<>>]
        /\ passed' = [b \in Bases |-> 0]
        /\ recent' = [b \in Bases |-> <<>>]
  /\ UNCHANGED <<redis, mapping, arrived, exported, queued>>

RequestStep(r) ==
  \/ Arrive(r) \/ RejectBody(r) \/ Pseudonymize(r)
  \/ Consume(r) \/ SetExpiry(r)
  \/ OutOfWindow(r) \/ CheckSeq(r) \/ PersistSeq(r)
  \/ InsertMapping(r) \/ HandOver(r)
  \/ RecordError(r) \/ Send(r) \/ InternalError(r)

Next ==
  \/ \E r \in Requests : RequestStep(r)
  \/ RotateKey \/ MinuteEnds \/ ResponseExpires \/ RingExpires \/ Restart

Spec == Init /\ [][Next]_vars

-----------------------------------------------------------------------------
TypeOK ==
  /\ redis \in BOOLEAN
  /\ keyVersion \in Versions
  /\ responses \in [Keys -> {None} \cup
       [body : Bodies, status : Statuses, did : {NoName} \cup Pseudonyms]]
  /\ rate \in [Bases -> [count : Nat, expires : BOOLEAN]]
  /\ ring \in [Bases -> Seq(Seqs)]
  /\ \A b \in Bases : Len(ring[b]) <= RingSize
  /\ mapping \in [Devices -> {NoName} \cup Pseudonyms]
  /\ pc \in [Requests -> RequestStates]
  /\ req \in [Requests -> {None} \cup [body : Bodies, key : Keys \cup {NoKey}]]
  /\ exported \subseteq Devices \X Pseudonyms
  /\ queued \subseteq Bodies
  /\ recent \in [Bases -> Seq(Admissions)]
  /\ dropped \subseteq Bases \X Seqs
  /\ overtaken \subseteq Requests

(* A pseudonym stands for one device and a device has one pseudonym in      *)
(* everything that was ever exported: neither a key rotation in the middle  *)
(* of a request, nor colliding HMACs of devices that arrive together, nor a *)
(* restart gives a device a second name or two devices the same             *)
(* (mapping.ts:22-28, 45-57, routes.ts:89-91).                              *)
OneNamePerDevice ==
  \A p, q \in exported : p[1] = q[1] <=> p[2] = q[2]

(* A seq is admitted again only after RingSize others of the same pseudonym *)
(* (replay.ts:65-74).                                                       *)
RepeatsAreSpaced(b) ==
  \A i, j \in 1..Len(recent[b]) : recent[b][i].seq = recent[b][j].seq => i = j

(* With Redis or without, when a seq is among the latest RingSize + 1       *)
(* admissions twice, the first came while another request of its pseudonym  *)
(* stood between GET and SET: an entry that is written back late loses only *)
(* what was admitted since it was read, and nothing else is ever lost       *)
(* (replay.ts:53-75).                                                       *)
RepeatsOnlyByOverlap ==
  \A b \in Bases : \A i, j \in 1..Len(recent[b]) :
    i < j /\ recent[b][i].seq = recent[b][j].seq => recent[b][i].overlapped

(* No seq is accepted twice at all, as the gateway's documentation has it.  *)
RepeatedSeqRejected == \A b \in Bases : RepeatsAreSpaced(b)

(* In one minute the limiter lets at most RateLimit readings of a pseudonym *)
(* pass, however their requests interleave (ratelimit.ts:34-56).            *)
MinuteBudget == \A b \in Bases : passed[b] <= RateLimit

(* The replay ring remembers no reading that was refused: every seq it      *)
(* answers 409 to was handed to the exporter, or is about to be, or its     *)
(* request broke off in between - that one is lost, as its retry is refused *)
(* (routes.ts:86-98, replay.ts:53-75).                                      *)
RememberedWasAccepted ==
  \A b \in Bases : \A i \in 1..Len(ring[b]) :
    \/ \E body \in queued :
         /\ body.seq = ring[b][i]
         /\ \E v \in Versions : Hmac[v][body.device] = b
    \/ \E r \in Requests : <<b, ring[b][i]>> \in Abandoned(r)
    \/ <<b, ring[b][i]>> \in dropped

(* A stored 202 tells the truth to every later request with its key: the    *)
(* reading it was for has been handed to the exporter, under the pseudonym  *)
(* the answer names (idempotency.ts:111-136, routes.ts:89-102).             *)
StoredAcceptIsTrue ==
  \A k \in Keys : responses[k] # None /\ responses[k].status = "202" =>
    /\ responses[k].body \in queued
    /\ <<responses[k].body.device, responses[k].did>> \in exported

(* Once a key has the 202 of a reading, a repeated request for the same     *)
(* reading does not replace it by a refusal: until it expires, replays      *)
(* return the original result, as the operational guidance has it.          *)
AcceptIsFinal ==
  [][\A k \in Keys :
       /\ responses[k] # None /\ responses'[k] # None
       /\ responses[k].body = responses'[k].body
       /\ responses[k].status = "202"
       => responses'[k].status = "202"]_vars

(* The registry of pseudonyms behind the route: the mapping table, what has *)
(* been handed to the exporter, and what the stored answers name.           *)
Registry == INSTANCE PseudonymRegistry WITH
              Names <- Pseudonyms,
              name <- mapping,
              used <- exported,
              told <- {<<responses[k].body.device, responses[k].did>> :
                         k \in {j \in Keys : responses[j] # None
                                           /\ responses[j].status = "202"}}

(* The route keeps the registry's promise through key rotations, colliding  *)
(* HMACs, racing INSERTs and restarts: a device is named once and for ever  *)
(* (mapping.ts:22-57, routes.ts:86-102).                                    *)
ImplementsRegistry == Registry!RegistrySpec

(* No answer is stored over another but by a request that looked its key up *)
(* before that other was stored: whatever comes later is answered from the  *)
(* store (idempotency.ts:77-104, 111-136).                                  *)
AnswersReplacedOnlyByOverlap ==
  [][\A k \in Keys :
       /\ responses[k] # None /\ responses'[k] # None
       /\ responses'[k] # responses[k]
       => \E r \in overtaken : pc[r] = "sending" /\ req[r].key = k]_vars

(* A counter in Redis goes away: it has an expiry, or the request that was  *)
(* first in its minute is about to set it.                                  *)
GoesAway(b) ==
  \/ rate[b].count = 0 \/ rate[b].expires
  \/ \E r \in Requests : pc[r] = "expiring" /\ work[r].base = b

(* A device is shut out for good - its counter is in Redis and nothing will *)
(* ever remove it - only when the very request that was to give the counter *)
(* its expiry broke off between INCR and EXPIRE: no order of the commands   *)
(* of other requests, of minutes and of key rotations does it               *)
(* (ratelimit.ts:34-43).                                                    *)
ShutOutOnlyByBreakOff ==
  [][\A b \in Bases : redis /\ GoesAway(b) /\ ~GoesAway(b)' =>
       \E r \in Requests :
         pc[r] = "expiring" /\ work[r].base = b /\ pc'[r] = "idle"]_vars
=============================================================================
