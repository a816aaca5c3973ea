------------------------ MODULE AlertLifecycleProofs ------------------------
(***************************************************************************)
(* Alerts and the dashboard cache, for any set of requests and what they   *)
(* ask for, any alerts, scopes and number of failing statements.           *)
(*                                                                         *)
(* Fresh answers rest on the order of tokens: once a change has bumped the *)
(* token of the admins, every cached entry and every result on its way to  *)
(* the cache that lacks the change carries an older token (BumpedIsOlder), *)
(* and so older than the tokens of any read that begins later              *)
(* (ExpectedIsOlder). The tokens of all scopes together are the key of the *)
(* entry; that one of them, Admin, is bumped first and is part of every    *)
(* signature is enough.                                                    *)
(*                                                                         *)
(* Updates are lost to overlap only because what a request has read of an  *)
(* alert, in memory for an await or two, is related to the table by the    *)
(* same rule that relates the table to the updates (LoadedRowIsLost): a    *)
(* row read after an update shows its effect unless that was lost already. *)
(***************************************************************************)
EXTENDS AlertLifecycle, TLAPS

(* The fields of a read in progress; the keys of the cache carry a token of   *)
(* the admins.                                                                *)
ReadShape ==
  /\ DOMAIN read = Reads
  /\ \A r \in Reads :
       /\ DOMAIN read[r] = {"state", "viewer", "signature", "payload",
                            "expected"}
       /\ read[r].state # "idle" =>
            read[r].viewer \in Viewers /\ read[r].signature[Admin] \in Nat
       /\ read[r].state = "storing" => read[r].payload \subseteq committed
  /\ \A entry \in cache : entry[1][2][Admin] \in Nat

(* What the model keeps of a request.                                         *)
RequestRecords ==
  [state : {"waiting", "loaded", "committed", "bumping", "finished"},
   body : Bodies \cup {NoBody}, row : Rows \cup {NoRow},
   bumps : SUBSET Scopes]

(* The types of requests and of the history.                                  *)
RequestShape ==
  /\ request \in [Requests -> RequestRecords]
  /\ seen \in [Requests -> SUBSET Requests]
  /\ lost \in [Requests -> SUBSET Requests]

(* A request is what it asks for from its first await on; only what has been  *)
(* committed goes on to audit and bumps.                                      *)
RequestStages ==
  \A q \in Requests :
    /\ request[q].state # "waiting" => Body(q) \in BodiesOf[q]
    /\ request[q].state \in {"waiting", "loaded"} =>
         q \notin committed /\ lost[q] = {}
    /\ request[q].state = "loaded" =>
         request[q].row \in Rows /\ Body(q).action # "create"
    /\ request[q].state \in {"committed", "bumping"} => q \in committed
    /\ seen[q] \subseteq committed
    /\ request[q].state = "loaded" \/ q \in committed =>
         Body(q).alert \in DOMAIN alerts

(* No entry and no read carries a token that has not been issued.             *)
TokensNotAhead ==
  /\ \A entry \in cache : entry[1][2][Admin] <= version[Admin]
  /\ \A r \in Reads :
       read[r].state # "idle" => read[r].signature[Admin] <= version[Admin]

(* The changes whose first bump, that of the admins, has been made.           *)
AdminBumped ==
  invalidated \cup
    {q \in Requests :
       request[q].state = "bumping" /\ Admin \notin request[q].bumps}

(* Whatever lacks change q and is in the cache, or is on its way to it, was   *)
(* put under an older token of the admins.                                    *)
LackingIsOlder(q, token) ==
  /\ \A entry \in cache : q \notin entry[2] => entry[1][2][Admin] < token
  /\ \A r \in Reads : read[r].state = "storing" /\ q \notin read[r].payload =>
       read[r].signature[Admin] < token

(* So it is for every change that has bumped the token, with the present one, *)
BumpedIsOlder == \A q \in AdminBumped : LackingIsOlder(q, version[Admin])

(* and for every change a read may expect, with the token the read has taken. *)
ExpectedIsOlder ==
  \A r \in Reads : read[r].state # "idle" =>
    /\ read[r].expected \subseteq committed
    /\ \A q \in read[r].expected : LackingIsOlder(q, read[r].signature[Admin])

(* What a read is about to answer contains all it may expect.                 *)
AnswerIsFresh ==
  \A r \in Reads : read[r].state \in {"storing", "answered"} =>
    read[r].expected \subseteq read[r].payload

(* LostOnlyToOverlap for the row an update has read and not yet written back: *)
(* what it preceded is in the row, or was lost.                               *)
LoadedRowIsLost ==
  \A w \in Requests : request[w].state = "loaded" =>
    \A q \in seen[w] :
      q \in UpdatesOf(Body(w).alert) =>
        \/ \E v \in UpdatesOf(Body(w).alert) : q \in lost[v]
        \/ /\ Body(q).action = "resolve" => request[w].row.status = "resolved"
           /\ Body(q).action # "assign" => request[w].row.acknowledged
           /\ q \in AssignmentsOf(Body(w).alert) =>
                \/ request[w].row.assignee = Body(q).assignee
                \/ \E v \in AssignmentsOf(Body(w).alert) : q \in seen[v]

(* AssigneeIsExplained for the row an update has read.                        *)
LoadedAssigneeIsExplained ==
  \A w \in Requests : request[w].state = "loaded" =>
    \/ request[w].row.assignee \in {NoOne, origin[Body(w).alert]}
    \/ <<Body(w).alert, request[w].row.assignee>> \in comments

(* The inductive invariant.                                                   *)
IInv ==
  /\ TypeOK
  /\ ReadShape
  /\ RequestShape
  /\ RequestStages
  /\ TokensNotAhead
  /\ BumpedIsOlder
  /\ ExpectedIsOlder
  /\ AnswerIsFresh
  /\ LostOnlyToOverlap
  /\ LoadedRowIsLost
  /\ AssigneeIsExplained
  /\ LoadedAssigneeIsExplained

-----------------------------------------------------------------------------
(* No change, no entry, no request.                                           *)
LEMMA InitIInv == Init => IInv
  <1>. USE DEF RequestRecords
  <1>. SUFFICES ASSUME Init PROVE IInv  OBVIOUS
  <1>. USE CacheConstants, AlertConstants DEF Init, CacheInit
  <1>1. TypeOK
    BY DEF TypeOK, CacheTypeOK, Statuses, Rows, Idle, Waiting, NewRow, Body
  <1>2. ReadShape
    BY DEF ReadShape, Idle, Body
  <1>3. RequestShape
    BY DEF RequestShape, Waiting, Body
  <1>4. RequestStages
    BY DEF RequestStages, RequestShape, TypeOK, Waiting
  <1>5. TokensNotAhead
    BY DEF TokensNotAhead, ReadShape, TypeOK, CacheTypeOK, Idle, Body
  <1>6. BumpedIsOlder
    BY DEF BumpedIsOlder, AdminBumped, ReadShape, RequestShape, TypeOK,
           CacheTypeOK, Waiting, Body
  <1>7. ExpectedIsOlder
    BY DEF ExpectedIsOlder, ReadShape, TypeOK, CacheTypeOK, Idle, Body
  <1>8. AnswerIsFresh
    BY DEF AnswerIsFresh, ReadShape, LackingIsOlder, TypeOK, CacheTypeOK, Idle,
           Body
  <1>9. LostOnlyToOverlap
    BY DEF LostOnlyToOverlap, UpdatesOf, RequestShape
  <1>10. LoadedRowIsLost
    BY DEF LoadedRowIsLost, RequestShape
  <1>11. AssigneeIsExplained
    BY DEF AssigneeIsExplained, Body, RequestShape, TypeOK, NewRow
  <1>12. LoadedAssigneeIsExplained
    BY DEF LoadedAssigneeIsExplained, RequestShape, TypeOK, Waiting
  <1>. QED  BY <1>1, <1>2, <1>3, <1>4, <1>5, <1>6, <1>7, <1>8, <1>9, <1>10,
     <1>11, <1>12
     DEF IInv

(* A read takes the present tokens and may expect what is invalidated by now: *)
(* anything that lacks such a change is older.                                *)
LEMMA TakeTokensKeepsIInv ==
  ASSUME IInv, NEW r \in Reads, TakeTokens(r),
         UNCHANGED <<tables, request, history>>
  PROVE  IInv'
  <1>. USE DEF RequestRecords
  <1>a. /\ DOMAIN read' = Reads
        /\ \A s \in Reads \ {r} : read'[s] = read[s]
        /\ DOMAIN read'[r] = {"state", "viewer", "signature", "payload",
                              "expected"}
        /\ read'[r].state = "lookingUp"
        /\ read'[r].viewer \in Viewers
        /\ read'[r].signature[Admin] = version[Admin]
        /\ read'[r].payload = {}
        /\ read'[r].expected = invalidated
        /\ UNCHANGED <<version, committed, invalidated, cache, failures>>
    BY CacheConstants DEF TakeTokens, Signature, ScopesOf, IInv, ReadShape
  <1>b. UNCHANGED <<alerts, comments, audited, origin, request, seen, lost>>
    BY DEF tables, history
  <1>1. TypeOK'
    BY <1>a, <1>b DEF IInv, TypeOK, CacheTypeOK
  <1>2. ReadShape'
    BY <1>a, <1>b DEF IInv, ReadShape, TypeOK, CacheTypeOK, Scopes
  <1>3. RequestShape'
    BY <1>a, <1>b DEF IInv, RequestShape
  <1>4. RequestStages'
    BY <1>a, <1>b DEF IInv, RequestStages, Body
  <1>5. TokensNotAhead'
    BY <1>a, <1>b DEF IInv, TokensNotAhead, TypeOK, CacheTypeOK, Scopes
  <1>6. BumpedIsOlder'
    BY <1>a, <1>b DEF IInv, BumpedIsOlder, AdminBumped, LackingIsOlder
  <1>7. ExpectedIsOlder'
    BY <1>a, <1>b DEF IInv, ExpectedIsOlder, LackingIsOlder, BumpedIsOlder,
                      AdminBumped, TypeOK, CacheTypeOK
  <1>8. AnswerIsFresh'
    BY <1>a, <1>b DEF IInv, AnswerIsFresh
  <1>9. LostOnlyToOverlap'
    BY <1>a, <1>b DEF IInv, LostOnlyToOverlap, UpdatesOf, AssignmentsOf, Body
  <1>10. LoadedRowIsLost'
    BY <1>a, <1>b DEF IInv, LoadedRowIsLost, UpdatesOf, AssignmentsOf, Body
  <1>11. AssigneeIsExplained'
    BY <1>a, <1>b DEF IInv, AssigneeIsExplained, Body
  <1>12. LoadedAssigneeIsExplained'
    BY <1>a, <1>b DEF IInv, LoadedAssigneeIsExplained, Body
  <1>. QED  BY <1>1, <1>2, <1>3, <1>4, <1>5, <1>6, <1>7, <1>8, <1>9, <1>10,
     <1>11, <1>12
     DEF IInv

(* An entry under the key of the read has its token, so it lacks nothing the  *)
(* read may expect.                                                           *)
LEMMA HitKeepsIInv ==
  ASSUME IInv, NEW r \in Reads, Hit(r), UNCHANGED <<tables, request, history>>
  PROVE  IInv'
  <1>. USE DEF RequestRecords
  <1>a. /\ DOMAIN read' = Reads
        /\ \A s \in Reads \ {r} : read'[s] = read[s]
        /\ DOMAIN read'[r] = {"state", "viewer", "signature", "payload",
                              "expected"}
        /\ read'[r].state = "answered"
        /\ read'[r].viewer = read[r].viewer
        /\ read'[r].signature = read[r].signature
        /\ read'[r].expected = read[r].expected
        /\ \E entry \in cache : entry = <<CacheKey(r), read'[r].payload>>
        /\ read'[r].payload \subseteq Changes
        /\ read[r].state # "idle"
        /\ UNCHANGED <<version, committed, invalidated, cache, failures>>
    BY CacheConstants DEF Hit, IInv, ReadShape
  <1>b. UNCHANGED <<alerts, comments, audited, origin, request, seen, lost>>
    BY DEF tables, history
  <1>1. TypeOK'
    BY <1>a, <1>b DEF IInv, TypeOK, CacheTypeOK
  <1>2. ReadShape'
    BY <1>a, <1>b DEF IInv, ReadShape
  <1>3. RequestShape'
    BY <1>a, <1>b DEF IInv, RequestShape
  <1>4. RequestStages'
    BY <1>a, <1>b DEF IInv, RequestStages, Body
  <1>5. TokensNotAhead'
    BY <1>a, <1>b DEF IInv, TokensNotAhead
  <1>6. BumpedIsOlder'
    BY <1>a, <1>b DEF IInv, BumpedIsOlder, AdminBumped, LackingIsOlder
  <1>7. ExpectedIsOlder'
    BY <1>a, <1>b DEF IInv, ExpectedIsOlder, LackingIsOlder
  <1>8. AnswerIsFresh'
    BY <1>a, <1>b DEF IInv, AnswerIsFresh, ReadShape, ExpectedIsOlder,
                      LackingIsOlder, CacheKey
  <1>9. LostOnlyToOverlap'
    BY <1>a, <1>b DEF IInv, LostOnlyToOverlap, UpdatesOf, AssignmentsOf, Body
  <1>10. LoadedRowIsLost'
    BY <1>a, <1>b DEF IInv, LoadedRowIsLost, UpdatesOf, AssignmentsOf, Body
  <1>11. AssigneeIsExplained'
    BY <1>a, <1>b DEF IInv, AssigneeIsExplained, Body
  <1>12. LoadedAssigneeIsExplained'
    BY <1>a, <1>b DEF IInv, LoadedAssigneeIsExplained, Body
  <1>. QED  BY <1>1, <1>2, <1>3, <1>4, <1>5, <1>6, <1>7, <1>8, <1>9, <1>10,
     <1>11, <1>12
     DEF IInv

(* A miss goes on to the queries.                                             *)
LEMMA MissKeepsIInv ==
  ASSUME IInv, NEW r \in Reads, Miss(r), UNCHANGED <<tables, request, history>>
  PROVE  IInv'
  <1>. USE DEF RequestRecords
  <1>a. /\ DOMAIN read' = Reads
        /\ \A s \in Reads \ {r} : read'[s] = read[s]
        /\ DOMAIN read'[r] = {"state", "viewer", "signature", "payload",
                              "expected"}
        /\ read'[r].state = "querying"
        /\ read'[r].viewer = read[r].viewer
        /\ read'[r].signature = read[r].signature
        /\ read'[r].expected = read[r].expected
        /\ read'[r].payload = read[r].payload
        /\ read[r].state # "idle"
        /\ UNCHANGED <<version, committed, invalidated, cache, failures>>
    BY CacheConstants DEF Miss, IInv, ReadShape
  <1>b. UNCHANGED <<alerts, comments, audited, origin, request, seen, lost>>
    BY DEF tables, history
  <1>1. TypeOK'
    BY <1>a, <1>b DEF IInv, TypeOK, CacheTypeOK
  <1>2. ReadShape'
    BY <1>a, <1>b DEF IInv, ReadShape
  <1>3. RequestShape'
    BY <1>a, <1>b DEF IInv, RequestShape
  <1>4. RequestStages'
    BY <1>a, <1>b DEF IInv, RequestStages, Body
  <1>5. TokensNotAhead'
    BY <1>a, <1>b DEF IInv, TokensNotAhead
  <1>6. BumpedIsOlder'
    BY <1>a, <1>b DEF IInv, BumpedIsOlder, AdminBumped, LackingIsOlder
  <1>7. ExpectedIsOlder'
    BY <1>a, <1>b DEF IInv, ExpectedIsOlder, LackingIsOlder
  <1>8. AnswerIsFresh'
    BY <1>a, <1>b DEF IInv, AnswerIsFresh
  <1>9. LostOnlyToOverlap'
    BY <1>a, <1>b DEF IInv, LostOnlyToOverlap, UpdatesOf, AssignmentsOf, Body
  <1>10. LoadedRowIsLost'
    BY <1>a, <1>b DEF IInv, LoadedRowIsLost, UpdatesOf, AssignmentsOf, Body
  <1>11. AssigneeIsExplained'
    BY <1>a, <1>b DEF IInv, AssigneeIsExplained, Body
  <1>12. LoadedAssigneeIsExplained'
    BY <1>a, <1>b DEF IInv, LoadedAssigneeIsExplained, Body
  <1>. QED  BY <1>1, <1>2, <1>3, <1>4, <1>5, <1>6, <1>7, <1>8, <1>9, <1>10,
     <1>11, <1>12
     DEF IInv

(* A query sees what is committed, so at least what is invalidated.           *)
LEMMA QueryKeepsIInv ==
  ASSUME IInv, NEW r \in Reads, Query(r), UNCHANGED <<tables, request, history>>
  PROVE  IInv'
  <1>. USE DEF RequestRecords
  <1>a. /\ DOMAIN read' = Reads
        /\ \A s \in Reads \ {r} : read'[s] = read[s]
        /\ DOMAIN read'[r] = {"state", "viewer", "signature", "payload",
                              "expected"}
        /\ read'[r].state = "storing"
        /\ read'[r].viewer = read[r].viewer
        /\ read'[r].signature = read[r].signature
        /\ read'[r].expected = read[r].expected
        /\ read'[r].payload = committed
        /\ read[r].state # "idle"
        /\ UNCHANGED <<version, committed, invalidated, cache, failures>>
    BY CacheConstants DEF Query, IInv, ReadShape
  <1>b. UNCHANGED <<alerts, comments, audited, origin, request, seen, lost>>
    BY DEF tables, history
  <1>1. TypeOK'
    BY <1>a, <1>b DEF IInv, TypeOK, CacheTypeOK
  <1>2. ReadShape'
    BY <1>a, <1>b DEF IInv, ReadShape
  <1>3. RequestShape'
    BY <1>a, <1>b DEF IInv, RequestShape
  <1>4. RequestStages'
    BY <1>a, <1>b DEF IInv, RequestStages, Body
  <1>5. TokensNotAhead'
    BY <1>a, <1>b DEF IInv, TokensNotAhead
  <1>6. BumpedIsOlder'
    BY <1>a, <1>b DEF IInv, BumpedIsOlder, AdminBumped, LackingIsOlder, TypeOK,
                      CacheTypeOK, RequestStages
  <1>7. ExpectedIsOlder'
    BY <1>a, <1>b DEF IInv, ExpectedIsOlder, LackingIsOlder
  <1>8. AnswerIsFresh'
    BY <1>a, <1>b DEF IInv, AnswerIsFresh, ExpectedIsOlder
  <1>9. LostOnlyToOverlap'
    BY <1>a, <1>b DEF IInv, LostOnlyToOverlap, UpdatesOf, AssignmentsOf, Body
  <1>10. LoadedRowIsLost'
    BY <1>a, <1>b DEF IInv, LoadedRowIsLost, UpdatesOf, AssignmentsOf, Body
  <1>11. AssigneeIsExplained'
    BY <1>a, <1>b DEF IInv, AssigneeIsExplained, Body
  <1>12. LoadedAssigneeIsExplained'
    BY <1>a, <1>b DEF IInv, LoadedAssigneeIsExplained, Body
  <1>. QED  BY <1>1, <1>2, <1>3, <1>4, <1>5, <1>6, <1>7, <1>8, <1>9, <1>10,
     <1>11, <1>12
     DEF IInv

(* A read whose query fails is over.                                          *)
LEMMA QueryFailsKeepsIInv ==
  ASSUME IInv, NEW r \in Reads, QueryFails(r),
         UNCHANGED <<tables, request, history>>
  PROVE  IInv'
  <1>. USE DEF RequestRecords
  <1>a. /\ DOMAIN read' = Reads
        /\ \A s \in Reads \ {r} : read'[s] = read[s]
        /\ DOMAIN read'[r] = {"state", "viewer", "signature", "payload",
                              "expected"}
        /\ read'[r].state = "failed"
        /\ read'[r].viewer = read[r].viewer
        /\ read'[r].signature = read[r].signature
        /\ read'[r].expected = read[r].expected
        /\ read'[r].payload = read[r].payload
        /\ read[r].state # "idle"
        /\ UNCHANGED <<version, committed, invalidated, cache>>
        /\ failures' \in 0..MaxFailures
    BY CacheConstants DEF QueryFails, Fails, IInv, ReadShape, TypeOK,
       CacheTypeOK
  <1>b. UNCHANGED <<alerts, comments, audited, origin, request, seen, lost>>
    BY DEF tables, history
  <1>1. TypeOK'
    BY <1>a, <1>b DEF IInv, TypeOK, CacheTypeOK
  <1>2. ReadShape'
    BY <1>a, <1>b DEF IInv, ReadShape
  <1>3. RequestShape'
    BY <1>a, <1>b DEF IInv, RequestShape
  <1>4. RequestStages'
    BY <1>a, <1>b DEF IInv, RequestStages, Body
  <1>5. TokensNotAhead'
    BY <1>a, <1>b DEF IInv, TokensNotAhead
  <1>6. BumpedIsOlder'
    BY <1>a, <1>b DEF IInv, BumpedIsOlder, AdminBumped, LackingIsOlder
  <1>7. ExpectedIsOlder'
    BY <1>a, <1>b DEF IInv, ExpectedIsOlder, LackingIsOlder
  <1>8. AnswerIsFresh'
    BY <1>a, <1>b DEF IInv, AnswerIsFresh
  <1>9. LostOnlyToOverlap'
    BY <1>a, <1>b DEF IInv, LostOnlyToOverlap, UpdatesOf, AssignmentsOf, Body
  <1>10. LoadedRowIsLost'
    BY <1>a, <1>b DEF IInv, LoadedRowIsLost, UpdatesOf, AssignmentsOf, Body
  <1>11. AssigneeIsExplained'
    BY <1>a, <1>b DEF IInv, AssigneeIsExplained, Body
  <1>12. LoadedAssigneeIsExplained'
    BY <1>a, <1>b DEF IInv, LoadedAssigneeIsExplained, Body
  <1>. QED  BY <1>1, <1>2, <1>3, <1>4, <1>5, <1>6, <1>7, <1>8, <1>9, <1>10,
     <1>11, <1>12
     DEF IInv

(* A late put goes under the tokens the read took before its query; by        *)
(* LackingIsOlder it is no entry anybody expects a bumped change in.          *)
LEMMA StoreKeepsIInv ==
  ASSUME IInv, NEW r \in Reads, Store(r), UNCHANGED <<tables, request, history>>
  PROVE  IInv'
  <1>. USE DEF RequestRecords
  <1>a. /\ DOMAIN read' = Reads
        /\ \A s \in Reads \ {r} : read'[s] = read[s]
        /\ DOMAIN read'[r] = {"state", "viewer", "signature", "payload",
                              "expected"}
        /\ read'[r].state = "answered"
        /\ read'[r].viewer = read[r].viewer
        /\ read'[r].signature = read[r].signature
        /\ read'[r].expected = read[r].expected
        /\ read'[r].payload = read[r].payload
        /\ read[r].state # "idle"
        /\ read[r].state = "storing"
        /\ cache' = cache \cup {<<CacheKey(r), read[r].payload>>}
        /\ UNCHANGED <<version, committed, invalidated, failures>>
    BY CacheConstants DEF Store, IInv, ReadShape
  <1>b. UNCHANGED <<alerts, comments, audited, origin, request, seen, lost>>
    BY DEF tables, history
  <1>1. TypeOK'
    BY <1>a, <1>b DEF IInv, TypeOK, CacheTypeOK, CacheKey, ReadShape
  <1>2. ReadShape'
    BY <1>a, <1>b DEF IInv, ReadShape, CacheKey
  <1>3. RequestShape'
    BY <1>a, <1>b DEF IInv, RequestShape
  <1>4. RequestStages'
    BY <1>a, <1>b DEF IInv, RequestStages, Body
  <1>5. TokensNotAhead'
    BY <1>a, <1>b DEF IInv, TokensNotAhead, CacheKey
  <1>6. BumpedIsOlder'
    BY <1>a, <1>b DEF IInv, BumpedIsOlder, AdminBumped, LackingIsOlder, CacheKey
  <1>7. ExpectedIsOlder'
    BY <1>a, <1>b DEF IInv, ExpectedIsOlder, LackingIsOlder, CacheKey
  <1>8. AnswerIsFresh'
    BY <1>a, <1>b DEF IInv, AnswerIsFresh
  <1>9. LostOnlyToOverlap'
    BY <1>a, <1>b DEF IInv, LostOnlyToOverlap, UpdatesOf, AssignmentsOf, Body
  <1>10. LoadedRowIsLost'
    BY <1>a, <1>b DEF IInv, LoadedRowIsLost, UpdatesOf, AssignmentsOf, Body
  <1>11. AssigneeIsExplained'
    BY <1>a, <1>b DEF IInv, AssigneeIsExplained, Body
  <1>12. LoadedAssigneeIsExplained'
    BY <1>a, <1>b DEF IInv, LoadedAssigneeIsExplained, Body
  <1>. QED  BY <1>1, <1>2, <1>3, <1>4, <1>5, <1>6, <1>7, <1>8, <1>9, <1>10,
     <1>11, <1>12
     DEF IInv

-----------------------------------------------------------------------------
(* A step that leaves alerts and history alone and adds comments at most      *)
(* keeps what is said about lost updates and assignees.                       *)
LEMMA QuietStep ==
  ASSUME IInv, UNCHANGED <<alerts, origin, seen, lost>>,
         comments \subseteq comments',
         \A a : UpdatesOf(a)' = UpdatesOf(a),
         \A w \in Requests : request'[w].state = "loaded" =>
           request[w].state = "loaded" /\ request'[w].row = request[w].row,
         \A w \in Requests : Body(w)' = Body(w)
  PROVE  /\ LostOnlyToOverlap'
         /\ LoadedRowIsLost'
         /\ AssigneeIsExplained'
         /\ LoadedAssigneeIsExplained'
  <1>1. \A a : AssignmentsOf(a)' = AssignmentsOf(a)
    <2>1. \A a : UpdatesOf(a) \subseteq Requests
      BY AlertConstants DEF UpdatesOf, IInv, TypeOK, CacheTypeOK
    <2>. QED  BY <2>1 DEF AssignmentsOf
  <1>2. \A a : UpdatesOf(a) \subseteq Requests
    BY AlertConstants DEF UpdatesOf, IInv, TypeOK, CacheTypeOK
  <1>3. LostOnlyToOverlap'
    BY <1>1, <1>2 DEF IInv, LostOnlyToOverlap
  <1>4. LoadedRowIsLost'
    BY <1>1, <1>2 DEF IInv, LoadedRowIsLost
  <1>5. AssigneeIsExplained'
    BY DEF IInv, AssigneeIsExplained
  <1>6. LoadedAssigneeIsExplained'
    BY DEF IInv, LoadedAssigneeIsExplained
  <1>. QED  BY <1>3, <1>4, <1>5, <1>6

(* A comment changes no column an update could lose.                          *)
LEMMA CommitCommentKeepsIInv ==
  ASSUME IInv, NEW q \in Requests, CommitComment(q)  PROVE  IInv'
  <1>. USE DEF RequestRecords
  <1>a. /\ \A w \in Requests \ {q} : request'[w] = request[w]
        /\ request[q].state = "loaded"
        /\ Body(q).action = "comment"
        /\ request'[q].state = "committed"
        /\ request'[q].body = request[q].body
        /\ request'[q].row = request[q].row
        /\ request'[q].bumps = request[q].bumps
        /\ comments' = comments \cup {<<Body(q).alert, NoOne>>}
        /\ committed' = committed \cup {q}
        /\ UNCHANGED <<version, cache, read, invalidated, failures, alerts,
                       audited, origin, seen, lost>>
    BY AlertConstants, CacheConstants DEF CommitComment, IInv, RequestShape,
       history
  <1>b. request' \in [Requests -> RequestRecords]
    BY AlertConstants, CacheConstants DEF CommitComment, IInv, RequestShape,
       tables
  <1>c. \A w \in Requests : Body(w)' = Body(w)
    BY <1>a DEF Body
  <1>d. \A a : UpdatesOf(a)' = UpdatesOf(a)
    BY <1>a, <1>c, AlertConstants DEF UpdatesOf, IInv, TypeOK, CacheTypeOK
  <1>1. TypeOK'
    <2>1. CacheTypeOK'  BY <1>a, AlertConstants DEF IInv, TypeOK, CacheTypeOK
    <2>2. \A c \in comments' :
            c[1] \in DOMAIN alerts' /\ c[2] \in People \cup {NoOne}
      BY <1>a DEF IInv, TypeOK, RequestStages
    <2>. QED  BY <2>1, <2>2, <1>a, <1>b DEF IInv, TypeOK
  <1>2. ReadShape'
    BY <1>a, <1>b, <1>c, AlertConstants, CacheConstants DEF IInv, ReadShape
  <1>3. RequestShape'
    BY <1>a, <1>b, <1>c, AlertConstants, CacheConstants DEF IInv, RequestShape
  <1>4. RequestStages'
    BY <1>a, <1>b, <1>c, AlertConstants, CacheConstants DEF IInv, RequestStages
  <1>5. TokensNotAhead'
    BY <1>a, <1>b, <1>c, AlertConstants, CacheConstants DEF IInv, TokensNotAhead
  <1>6. BumpedIsOlder'
    BY <1>a, <1>b, <1>c, AlertConstants, CacheConstants DEF IInv, BumpedIsOlder,
       AdminBumped, LackingIsOlder
  <1>7. ExpectedIsOlder'
    BY <1>a, <1>b, <1>c, AlertConstants, CacheConstants DEF IInv,
       ExpectedIsOlder, LackingIsOlder
  <1>8. AnswerIsFresh'
    BY <1>a, <1>b, <1>c, AlertConstants, CacheConstants DEF IInv, AnswerIsFresh
  <1>e. /\ LostOnlyToOverlap'
        /\ LoadedRowIsLost'
        /\ AssigneeIsExplained'
        /\ LoadedAssigneeIsExplained'
    BY <1>a, <1>c, <1>d, QuietStep
  <1>. QED  BY <1>e, <1>1, <1>2, <1>3, <1>4, <1>5, <1>6, <1>7, <1>8 DEF IInv

(* After the audit entry the scopes to bump are known; the admins are always  *)
(* among them.                                                                *)
LEMMA AuditKeepsIInv ==
  ASSUME IInv, NEW q \in Requests, Audit(q)  PROVE  IInv'
  <1>. USE DEF RequestRecords
  <1>a. /\ \A w \in Requests \ {q} : request'[w] = request[w]
        /\ request[q].state = "committed"
        /\ request'[q].state = "bumping"
        /\ request'[q].body = request[q].body
        /\ request'[q].row = request[q].row
        /\ request'[q].bumps = ScopesToBump(Body(q).alert)
        /\ audited' = audited \cup {q}
        /\ UNCHANGED <<version, cache, read, committed, invalidated, failures,
                       alerts, comments, origin, seen, lost>>
    BY AlertConstants, CacheConstants DEF Audit, IInv, RequestShape, history
  <1>s. /\ ScopesToBump(Body(q).alert) \subseteq Scopes
        /\ Admin \in ScopesToBump(Body(q).alert)
    BY <1>a, AlertConstants DEF ScopesToBump, ScopesOf, Scopes, IInv, TypeOK,
       RequestStages
  <1>b. request' \in [Requests -> RequestRecords]
    <2>1. request'[q] = [state |-> "bumping", body |-> request[q].body,
                         row |-> request[q].row,
                         bumps |-> ScopesToBump(Body(q).alert)]
      BY <1>a DEF Audit, IInv, RequestShape
    <2>2. request'[q] \in RequestRecords  BY <2>1, <1>s DEF IInv, RequestShape
    <2>. QED  BY <2>2 DEF Audit, IInv, RequestShape
  <1>c. \A w \in Requests : Body(w)' = Body(w)
    BY <1>a DEF Body
  <1>d. \A a : UpdatesOf(a)' = UpdatesOf(a)
    BY <1>a, <1>c, AlertConstants DEF UpdatesOf, IInv, TypeOK, CacheTypeOK
  <1>1. TypeOK'
    BY <1>a, <1>b, <1>s, AlertConstants DEF IInv, TypeOK, CacheTypeOK,
       RequestStages
  <1>2. ReadShape'
    BY <1>a, <1>b, <1>c, AlertConstants, CacheConstants DEF IInv, ReadShape
  <1>3. RequestShape'
    BY <1>a, <1>b, <1>c, AlertConstants, CacheConstants DEF IInv, RequestShape
  <1>4. RequestStages'
    BY <1>a, <1>b, <1>c, AlertConstants, CacheConstants DEF IInv, RequestStages
  <1>5. TokensNotAhead'
    BY <1>a, <1>b, <1>c, AlertConstants, CacheConstants DEF IInv, TokensNotAhead
  <1>6. BumpedIsOlder'
    BY <1>a, <1>b, <1>c, AlertConstants, CacheConstants DEF IInv, BumpedIsOlder,
       AdminBumped, LackingIsOlder, ScopesToBump, ScopesOf
  <1>7. ExpectedIsOlder'
    BY <1>a, <1>b, <1>c, AlertConstants, CacheConstants DEF IInv,
       ExpectedIsOlder, LackingIsOlder
  <1>8. AnswerIsFresh'
    BY <1>a, <1>b, <1>c, AlertConstants, CacheConstants DEF IInv, AnswerIsFresh
  <1>e. /\ LostOnlyToOverlap'
        /\ LoadedRowIsLost'
        /\ AssigneeIsExplained'
        /\ LoadedAssigneeIsExplained'
    BY <1>a, <1>c, <1>d, QuietStep
  <1>. QED  BY <1>e, <1>1, <1>2, <1>3, <1>4, <1>5, <1>6, <1>7, <1>8 DEF IInv

(* The bump of the admins makes every entry and every read in progress older  *)
(* than the change it belongs to.                                             *)
LEMMA BumpScopeKeepsIInv ==
  ASSUME IInv, NEW q \in Requests, BumpScope(q)  PROVE  IInv'
  <1>. USE DEF RequestRecords
  <1>a. /\ \A w \in Requests \ {q} : request'[w] = request[w]
        /\ request[q].state = "bumping"
        /\ \E scope \in request[q].bumps :
             /\ Admin \in request[q].bumps => scope = Admin
             /\ Bump(scope)
             /\ request'[q].bumps = request[q].bumps \ {scope}
        /\ request'[q].state = IF request'[q].bumps = {} THEN "finished"
                               ELSE "bumping"
        /\ invalidated' = IF request'[q].bumps = {} THEN invalidated \cup {q}
                          ELSE invalidated
        /\ request'[q].body = request[q].body
        /\ request'[q].row = request[q].row
        /\ UNCHANGED <<cache, read, committed, failures, alerts, comments,
                       audited, origin, seen, lost>>
    BY AlertConstants, CacheConstants DEF BumpScope, IInv, RequestShape, tables,
       history
  <1>b. request' \in [Requests -> RequestRecords]
    <2>1. request \in [Requests -> RequestRecords]  BY DEF IInv, RequestShape
    <2>2. PICK scope \in request[q].bumps :
            LET left == request[q].bumps \ {scope}
            IN  request' = [request EXCEPT ![q].bumps = left,
                  ![q].state = IF left = {} THEN "finished" ELSE "bumping"]
      BY DEF BumpScope
    <2>. DEFINE left == request[q].bumps \ {scope}
                next == IF left = {} THEN "finished" ELSE "bumping"
    <2>3. request[q].bumps \subseteq Scopes  BY <2>1 DEF RequestRecords
    <2>4. left \in SUBSET Scopes /\ next \in {"finished", "bumping"}
      BY <2>3
    <2>. HIDE DEF left, next
    <2>5. [request[q] EXCEPT !.bumps = left] \in RequestRecords
      BY <2>1, <2>4 DEF RequestRecords
    <2>6. [[request[q] EXCEPT !.bumps = left] EXCEPT !.state = next]
            \in RequestRecords
      BY <2>4, <2>5 DEF RequestRecords
    <2>7. request' = [request EXCEPT ![q] =
            [[request[q] EXCEPT !.bumps = left] EXCEPT !.state = next]]
      BY <2>2 DEF left, next
    <2>. QED  BY <2>1, <2>6, <2>7
  <1>c. \A w \in Requests : Body(w)' = Body(w)
    BY <1>a DEF Body
  <1>d. \A a : UpdatesOf(a)' = UpdatesOf(a)
    BY <1>a, <1>c, AlertConstants DEF UpdatesOf, IInv, TypeOK, CacheTypeOK
  <1>1. TypeOK'
    <2>1. CacheTypeOK'
      BY <1>a, AlertConstants, CacheConstants DEF Bump, IInv, TypeOK,
         CacheTypeOK, RequestStages
    <2>. QED  BY <2>1, <1>a, <1>b DEF IInv, TypeOK
  <1>2. ReadShape'
    BY <1>a, <1>b, <1>c, AlertConstants, CacheConstants DEF IInv, ReadShape
  <1>3. RequestShape'
    BY <1>a, <1>b, <1>c, AlertConstants, CacheConstants DEF IInv, RequestShape
  <1>4. RequestStages'
    BY <1>a, <1>b, <1>c, AlertConstants, CacheConstants DEF IInv, RequestStages
  <1>5. TokensNotAhead'
    BY <1>a, <1>b, <1>c, AlertConstants, CacheConstants DEF IInv,
       TokensNotAhead, ReadShape, TypeOK, CacheTypeOK, Bump
  <1>6. BumpedIsOlder'
    BY <1>a, <1>b, <1>c, AlertConstants, CacheConstants DEF IInv, BumpedIsOlder,
       AdminBumped, LackingIsOlder, ReadShape, TokensNotAhead, TypeOK,
       CacheTypeOK, Bump
  <1>7. ExpectedIsOlder'
    BY <1>a, <1>b, <1>c, AlertConstants, CacheConstants DEF IInv,
       ExpectedIsOlder, LackingIsOlder
  <1>8. AnswerIsFresh'
    BY <1>a, <1>b, <1>c, AlertConstants, CacheConstants DEF IInv, AnswerIsFresh
  <1>e. /\ LostOnlyToOverlap'
        /\ LoadedRowIsLost'
        /\ AssigneeIsExplained'
        /\ LoadedAssigneeIsExplained'
    BY <1>a, <1>c, <1>d, QuietStep
  <1>. QED  BY <1>e, <1>1, <1>2, <1>3, <1>4, <1>5, <1>6, <1>7, <1>8 DEF IInv

(* A request that fails is over; what it has committed stays, without its     *)
(* bumps.                                                                     *)
LEMMA StatementFailsKeepsIInv ==
  ASSUME IInv, NEW q \in Requests, StatementFails(q)  PROVE  IInv'
  <1>. USE DEF RequestRecords
  <1>a. /\ \A w \in Requests \ {q} : request'[w] = request[w]
        /\ request[q].state \in {"loaded", "committed", "bumping"}
        /\ request'[q].state = "finished"
        /\ request'[q].body = request[q].body
        /\ request'[q].row = request[q].row
        /\ request'[q].bumps = {}
        /\ failures' \in 0..MaxFailures
        /\ UNCHANGED <<version, cache, read, committed, invalidated, alerts,
                       comments, audited, origin, seen, lost>>
    BY AlertConstants, CacheConstants DEF StatementFails, Fails, IInv,
       RequestShape, TypeOK, CacheTypeOK, tables, history
  <1>b. request' \in [Requests -> RequestRecords]
    <2>1. request'[q] = [state |-> request'[q].state, body |-> request[q].body,
                         row |-> request[q].row, bumps |-> request'[q].bumps]
      BY <1>a DEF StatementFails, IInv, RequestShape
    <2>2. request'[q] \in RequestRecords  BY <2>1, <1>a DEF IInv, RequestShape
    <2>. QED  BY <2>2 DEF StatementFails, IInv, RequestShape
  <1>c. \A w \in Requests : Body(w)' = Body(w)
    BY <1>a DEF Body
  <1>d. \A a : UpdatesOf(a)' = UpdatesOf(a)
    BY <1>a, <1>c, AlertConstants DEF UpdatesOf, IInv, TypeOK, CacheTypeOK
  <1>1. TypeOK'
    BY <1>a, <1>b, <1>c, AlertConstants, CacheConstants DEF IInv, TypeOK,
       CacheTypeOK
  <1>2. ReadShape'
    BY <1>a, <1>b, <1>c, AlertConstants, CacheConstants DEF IInv, ReadShape
  <1>3. RequestShape'
    BY <1>a, <1>b, <1>c, AlertConstants, CacheConstants DEF IInv, RequestShape
  <1>4. RequestStages'
    BY <1>a, <1>b, <1>c, AlertConstants, CacheConstants DEF IInv, RequestStages
  <1>5. TokensNotAhead'
    BY <1>a, <1>b, <1>c, AlertConstants, CacheConstants DEF IInv, TokensNotAhead
  <1>6. BumpedIsOlder'
    BY <1>a, <1>b, <1>c, AlertConstants, CacheConstants DEF IInv, BumpedIsOlder,
       AdminBumped, LackingIsOlder
  <1>7. ExpectedIsOlder'
    BY <1>a, <1>b, <1>c, AlertConstants, CacheConstants DEF IInv,
       ExpectedIsOlder, LackingIsOlder
  <1>8. AnswerIsFresh'
    BY <1>a, <1>b, <1>c, AlertConstants, CacheConstants DEF IInv, AnswerIsFresh
  <1>e. /\ LostOnlyToOverlap'
        /\ LoadedRowIsLost'
        /\ AssigneeIsExplained'
        /\ LoadedAssigneeIsExplained'
    BY <1>a, <1>c, <1>d, QuietStep
  <1>. QED  BY <1>e, <1>1, <1>2, <1>3, <1>4, <1>5, <1>6, <1>7, <1>8 DEF IInv

(* A new alert has no updates, and its assignee is its origin.                *)
LEMMA CreateKeepsIInv ==
  ASSUME IInv, NEW q \in Requests, Create(q)  PROVE  IInv'
  <1>. USE DEF RequestRecords
  <1>p. PICK b \in BodiesOf[q] :
          /\ b.action = "create"
          /\ \/ /\ b.alert \in DOMAIN alerts
                /\ request' = [request EXCEPT ![q].state = "finished",
                               ![q].body = b]
                /\ UNCHANGED <<alerts, origin, committed>>
             \/ /\ b.alert \notin DOMAIN alerts
                /\ alerts' = With(alerts, b.alert,
                                 [status |-> b.status,
                                  acknowledged |-> b.acknowledged,
                                  assignee |-> b.assignee])
                /\ origin' = With(origin, b.alert, b.assignee)
                /\ committed' = committed \cup {q}
                /\ request' = [request EXCEPT ![q] =
                     [state |-> "bumping", body |-> b, row |-> NoRow,
                      bumps |-> ScopesToBump(b.alert)]]
    BY DEF Create
  <1>q. /\ request[q].state = "waiting" /\ request[q].bumps = {}
        /\ q \notin committed /\ committed \subseteq Requests /\ lost[q] = {}
        /\ UNCHANGED <<version, cache, read, invalidated, failures, comments,
                       audited,
                       seen, lost>>
    BY AlertConstants DEF Create, history, IInv, TypeOK, CacheTypeOK,
       RequestStages
  <1>r. /\ b \in Bodies /\ b.alert \in Alerts
        /\ [status |-> b.status, acknowledged |-> b.acknowledged,
            assignee |-> b.assignee] \in Rows
    <2>1. b \in Bodies  BY AlertConstants
    <2>. QED  BY <2>1 DEF Bodies, Rows
  <1>s. /\ ScopesToBump(b.alert) \subseteq Scopes
        /\ Admin \in ScopesToBump(b.alert)
    BY <1>r, AlertConstants DEF ScopesToBump, ScopesOf, Scopes
  <1>a. /\ \A w \in Requests \ {q} : request'[w] = request[w]
        /\ request'[q].body = b
        /\ request'[q].state \in {"finished", "bumping"}
    BY <1>p DEF IInv, RequestShape
  <1>b. request' \in [Requests -> RequestRecords]
    <2>1. request \in [Requests -> RequestRecords]  BY DEF IInv, RequestShape
    <2>2. [state |-> "bumping", body |-> b, row |-> NoRow,
           bumps |-> ScopesToBump(b.alert)] \in RequestRecords
      BY <1>r, <1>s
    <2>3. [state |-> "finished", body |-> b, row |-> request[q].row,
           bumps |-> request[q].bumps] \in RequestRecords
      BY <2>1, <1>r
    <2>5. CASE request' = [request EXCEPT ![q].state = "finished",
                           ![q].body = b]
      <3>1. /\ request'[q].state = "finished"
            /\ request'[q].row = request[q].row
            /\ request'[q].bumps = request[q].bumps
        BY <2>5 DEF IInv, RequestShape
      <3>2. request'[q] = [state |-> request'[q].state,
                           body |-> request'[q].body,
                           row |-> request'[q].row, bumps |-> request'[q].bumps]
        BY <2>5 DEF IInv, RequestShape
      <3>3. request'[q] \in RequestRecords  BY <2>3, <3>1, <3>2, <1>a
      <3>. HIDE DEF RequestRecords
      <3>. QED  BY <2>1, <2>5, <3>3
    <2>6. CASE request' = [request EXCEPT ![q] =
                     [state |-> "bumping", body |-> b, row |-> NoRow,
                      bumps |-> ScopesToBump(b.alert)]]
      <3>. HIDE DEF RequestRecords
      <3>. QED  BY <2>1, <2>2, <2>6
    <2>. QED  BY <1>p, <2>5, <2>6
  <1>c. \A w \in Requests \ {q} : Body(w)' = Body(w)
    BY <1>a DEF Body
  <1>f. /\ DOMAIN alerts \subseteq DOMAIN alerts'
        /\ \A a \in DOMAIN alerts : alerts'[a] = alerts[a]
             /\ origin'[a] = origin[a]
        /\ \A a \in DOMAIN alerts' \ DOMAIN alerts :
             a = b.alert /\ alerts'[a].assignee = origin'[a]
        /\ DOMAIN alerts' \subseteq Alerts
        /\ alerts' \in [DOMAIN alerts' -> Rows]
        /\ DOMAIN origin' = DOMAIN alerts'
    BY <1>p, <1>r DEF With, IInv, TypeOK
  <1>t. \/ /\ request'[q].state = "finished" /\ request'[q].bumps = {}
           /\ committed' = committed
        \/ /\ request'[q].state = "bumping"
           /\ request'[q].bumps = ScopesToBump(b.alert)
           /\ committed' = committed \cup {q} /\ b.alert \in DOMAIN alerts'
    BY <1>p, <1>q DEF With, IInv, RequestShape
  <1>g. /\ \A a : UpdatesOf(a)' = UpdatesOf(a)
             /\ UpdatesOf(a) \subseteq committed
        /\ \A a : AssignmentsOf(a)' = AssignmentsOf(a)
        /\ \A a : a \notin DOMAIN alerts => UpdatesOf(a) = {}
    <2>0. Body(q)'.action = "create"  BY <1>p, <1>a DEF Body
    <2>1. \A a : UpdatesOf(a)' = UpdatesOf(a)
            /\ UpdatesOf(a) \subseteq committed
      BY <1>t, <1>c, <1>q, <2>0 DEF UpdatesOf
    <2>2. \A a : AssignmentsOf(a)' = AssignmentsOf(a)
      BY <2>1, <1>c, <1>q DEF AssignmentsOf
    <2>3. \A a : a \notin DOMAIN alerts => UpdatesOf(a) = {}
      BY <1>q DEF UpdatesOf, IInv, RequestStages
    <2>. QED  BY <2>1, <2>2, <2>3
  <1>1. TypeOK'
    <2>1. CacheTypeOK'
      BY <1>q, <1>t, AlertConstants DEF IInv, TypeOK, CacheTypeOK
    <2>. QED  BY <2>1, <1>a, <1>b, <1>f, <1>q, <1>s, <1>t DEF IInv, TypeOK
  <1>2. ReadShape'
    BY <1>a, <1>b, <1>c, <1>f, <1>q, <1>s, <1>t, <1>p, AlertConstants,
       CacheConstants
       DEF IInv, ReadShape
  <1>3. RequestShape'
    BY <1>a, <1>b, <1>c, <1>f, <1>q, <1>s, <1>t, <1>p, AlertConstants,
       CacheConstants
       DEF IInv, RequestShape
  <1>4. RequestStages'
    BY <1>a, <1>b, <1>c, <1>f, <1>q, <1>s, <1>t, <1>p, AlertConstants,
       CacheConstants
       DEF IInv, RequestStages, Body
  <1>5. TokensNotAhead'
    BY <1>a, <1>b, <1>c, <1>f, <1>q, <1>s, <1>t, <1>p, AlertConstants,
       CacheConstants
       DEF IInv, TokensNotAhead
  <1>6. BumpedIsOlder'
    BY <1>a, <1>b, <1>c, <1>f, <1>q, <1>s, <1>t, <1>p, AlertConstants,
       CacheConstants
       DEF IInv, BumpedIsOlder, AdminBumped, LackingIsOlder
  <1>7. ExpectedIsOlder'
    BY <1>a, <1>b, <1>c, <1>f, <1>q, <1>s, <1>t, <1>p, AlertConstants,
       CacheConstants
       DEF IInv, ExpectedIsOlder, LackingIsOlder
  <1>8. AnswerIsFresh'
    BY <1>a, <1>b, <1>c, <1>f, <1>q, <1>s, <1>t, <1>p, AlertConstants,
       CacheConstants
       DEF IInv, AnswerIsFresh
  <1>9. LostOnlyToOverlap'
    BY <1>c, <1>f, <1>g, <1>q DEF IInv, LostOnlyToOverlap
  <1>10. LoadedRowIsLost'
    BY <1>a, <1>c, <1>g, <1>q DEF IInv, LoadedRowIsLost
  <1>11. AssigneeIsExplained'
    BY <1>f, <1>q DEF IInv, AssigneeIsExplained
  <1>12. LoadedAssigneeIsExplained'
    BY <1>a, <1>c, <1>f, <1>q DEF IInv, LoadedAssigneeIsExplained, RequestStages
  <1>. QED  BY <1>1, <1>2, <1>3, <1>4, <1>5, <1>6, <1>7, <1>8, <1>9, <1>10,
     <1>11, <1>12
     DEF IInv

(* The row that is read obeys what LostOnlyToOverlap says of the table.       *)
LEMMA LoadKeepsIInv ==
  ASSUME IInv, NEW q \in Requests, Load(q)  PROVE  IInv'
  <1>. USE DEF RequestRecords
  <1>a. /\ \A w \in Requests \ {q} : request'[w] = request[w]
        /\ request[q].state = "waiting"
        /\ request'[q].body \in BodiesOf[q]
        /\ request'[q].body.action # "create"
        /\ request'[q].bumps = {}
        /\ \/ /\ request'[q].state = "loaded"
              /\ request'[q].body.alert \in DOMAIN alerts
              /\ request'[q].row = alerts[request'[q].body.alert]
           \/ request'[q].state = "finished" /\ request'[q].row = NoRow
        /\ DOMAIN request' = Requests
        /\ DOMAIN request'[q] = {"state", "body", "row", "bumps"}
        /\ seen' \in [Requests -> SUBSET Requests]
        /\ seen'[q] = committed
        /\ \A w \in Requests \ {q} : seen'[w] = seen[w]
        /\ UNCHANGED <<version, cache, read, committed, invalidated, failures,
                       alerts, comments, audited, origin, lost>>
    BY AlertConstants DEF Load, tables, IInv, RequestShape, TypeOK, CacheTypeOK
  <1>b. request' \in [Requests -> RequestRecords]
    <2>1. \A b \in BodiesOf[q] :
            /\ b.alert \in DOMAIN alerts =>
                 [state |-> "loaded", body |-> b, row |-> alerts[b.alert],
                  bumps |-> {}] \in RequestRecords
            /\ [state |-> "finished", body |-> b, row |-> NoRow,
                bumps |-> {}] \in RequestRecords
      BY AlertConstants DEF IInv, TypeOK
    <2>2. request \in [Requests -> RequestRecords]  BY DEF IInv, RequestShape
    <2>. HIDE DEF RequestRecords
    <2>3. request' \in [Requests -> RequestRecords]  BY <2>1, <2>2 DEF Load
    <2>. QED  BY <2>3 DEF RequestRecords
  <1>c. \A w \in Requests \ {q} : Body(w)' = Body(w)
    BY <1>a DEF Body
  <1>d. q \notin committed /\ committed \subseteq Requests
    BY <1>a, AlertConstants DEF IInv, RequestStages
  <1>g. /\ \A a : UpdatesOf(a)' = UpdatesOf(a)
             /\ UpdatesOf(a) \subseteq committed
        /\ \A a : AssignmentsOf(a)' = AssignmentsOf(a)
    <2>1. \A a : UpdatesOf(a)' = UpdatesOf(a)
            /\ UpdatesOf(a) \subseteq committed
      BY <1>a, <1>c, <1>d DEF UpdatesOf
    <2>. QED  BY <2>1, <1>c, <1>d DEF AssignmentsOf
  <1>1. TypeOK'
    BY <1>a, <1>b DEF IInv, TypeOK, CacheTypeOK
  <1>2. ReadShape'
    BY <1>a, <1>b, <1>c, AlertConstants, CacheConstants DEF IInv, ReadShape
  <1>3. RequestShape'
    BY <1>a, <1>b, <1>c, AlertConstants, CacheConstants DEF IInv, RequestShape
  <1>4. RequestStages'
    BY <1>a, <1>b, <1>c, AlertConstants, CacheConstants DEF IInv, RequestStages,
       TypeOK, Body
  <1>5. TokensNotAhead'
    BY <1>a, <1>b, <1>c, AlertConstants, CacheConstants DEF IInv, TokensNotAhead
  <1>6. BumpedIsOlder'
    BY <1>a, <1>b, <1>c, AlertConstants, CacheConstants DEF IInv, BumpedIsOlder,
       AdminBumped, LackingIsOlder
  <1>7. ExpectedIsOlder'
    BY <1>a, <1>b, <1>c, AlertConstants, CacheConstants DEF IInv,
       ExpectedIsOlder, LackingIsOlder
  <1>8. AnswerIsFresh'
    BY <1>a, <1>b, <1>c, AlertConstants, CacheConstants DEF IInv, AnswerIsFresh
  <1>9. LostOnlyToOverlap'
    BY <1>a, <1>c, <1>d, <1>g DEF IInv, LostOnlyToOverlap, AssignmentsOf
  <1>10. LoadedRowIsLost'
    <2>. SUFFICES ASSUME NEW u \in Requests, request'[u].state = "loaded",
                         NEW w \in seen'[u], w \in UpdatesOf(Body(u)'.alert)
         PROVE  \/ \E v \in UpdatesOf(Body(u)'.alert) : w \in lost[v]
                \/ /\ Body(w).action = "resolve" =>
                        request'[u].row.status = "resolved"
                   /\ Body(w).action # "assign" => request'[u].row.acknowledged
                   /\ w \in AssignmentsOf(Body(u)'.alert) =>
                        \/ request'[u].row.assignee = Body(w).assignee
                        \/ \E v \in AssignmentsOf(Body(u)'.alert) :
                             w \in seen[v]
      BY <1>a, <1>c, <1>d, <1>g DEF LoadedRowIsLost, AssignmentsOf
    <2>1. CASE u = q
      BY <2>1, <1>a DEF IInv, LostOnlyToOverlap, Body
    <2>2. CASE u # q
      BY <2>2, <1>a, <1>c DEF IInv, LoadedRowIsLost
    <2>. QED  BY <2>1, <2>2
  <1>11. AssigneeIsExplained'
    BY <1>a DEF IInv, AssigneeIsExplained
  <1>12. LoadedAssigneeIsExplained'
    BY <1>a, <1>c DEF IInv, LoadedAssigneeIsExplained, AssigneeIsExplained, Body
  <1>. QED  BY <1>1, <1>2, <1>3, <1>4, <1>5, <1>6, <1>7, <1>8, <1>9, <1>10,
     <1>11, <1>12
     DEF IInv

(* updateAlertLifecycle(): what an update leaves of the row it has read.      *)
LEMMA UpdatedFacts ==
  ASSUME NEW row \in Rows, NEW b \in Bodies,
         b.action \in {"acknowledge", "assign", "resolve"},
         b.action = "resolve" => b.assignee = NoOne
  PROVE  LET new == Updated(row, b)
         IN  /\ new \in Rows
             /\ b.action = "resolve" \/ row.status = "resolved" =>
                  new.status = "resolved"
             /\ b.action # "assign" \/ row.acknowledged => new.acknowledged
             /\ new.assignee = IF b.assignee # NoOne THEN b.assignee
                               ELSE row.assignee
  BY DEF Updated, Rows, Bodies, Statuses

(* The row that is written back shows every update the request had seen, and  *)
(* loses the others: those are the ones that overlap it.                      *)
LEMMA CommitUpdateKeepsIInv ==
  ASSUME IInv, NEW q \in Requests, CommitUpdate(q)  PROVE  IInv'
  <1>. USE DEF RequestRecords
  <1>a. /\ \A w \in Requests \ {q} : request'[w] = request[w]
        /\ request[q].state = "loaded"
        /\ request'[q].state = "committed"
        /\ request'[q].body = request[q].body
        /\ request'[q].row = request[q].row
        /\ request'[q].bumps = request[q].bumps
        /\ comments' = comments \cup CommentsOf(Body(q))
        /\ committed' = committed \cup {q}
        /\ lost' \in [Requests -> SUBSET Requests]
        /\ lost'[q] = committed \ seen[q]
        /\ \A w \in Requests \ {q} : lost'[w] = lost[w]
        /\ UNCHANGED <<version, cache, read, invalidated, failures, audited,
                       origin, seen>>
    BY AlertConstants DEF CommitUpdate, IInv, RequestShape, TypeOK, CacheTypeOK
  <1>b. request' \in [Requests -> RequestRecords]
    BY DEF CommitUpdate, IInv, RequestShape
  <1>c. \A w \in Requests : Body(w)' = Body(w)
    BY <1>a DEF Body
  <1>. DEFINE at == Body(q).alert
              new == Updated(request[q].row, Body(q))
  <1>d. /\ Body(q) \in BodiesOf[q] /\ Body(q) \in Bodies
        /\ request[q].row \in Rows
        /\ Body(q).action \in {"acknowledge", "assign", "resolve"}
        /\ Body(q).action = "resolve" => Body(q).assignee = NoOne
        /\ at \in DOMAIN alerts
        /\ q \notin committed
    <2>1. Body(q) \in BodiesOf[q] /\ Body(q) \in Bodies
      BY <1>a, AlertConstants DEF IInv, RequestStages
    <2>2. /\ Body(q).action \in Actions
          /\ Body(q).action \notin {"create", "comment"}
      BY <2>1, <1>a DEF CommitUpdate, IInv, RequestStages, Bodies
    <2>3. Body(q).action = "resolve" => Body(q).assignee = NoOne
      BY <2>1, AlertConstants
    <2>. QED  BY <1>a, <2>1, <2>2, <2>3 DEF IInv, RequestStages, Actions
  <1>e. /\ new \in Rows
        /\ Body(q).action = "resolve" \/ request[q].row.status = "resolved"
             => new.status = "resolved"
        /\ Body(q).action # "assign" \/ request[q].row.acknowledged =>
             new.acknowledged
        /\ new.assignee = IF Body(q).assignee # NoOne
                          THEN Body(q).assignee ELSE request[q].row.assignee
    BY <1>d, UpdatedFacts
  <1>f. /\ DOMAIN alerts' = DOMAIN alerts /\ alerts' \in [DOMAIN alerts -> Rows]
        /\ alerts'[at] = new
        /\ \A a \in DOMAIN alerts \ {at} : alerts'[a] = alerts[a]
    BY <1>d, <1>e DEF CommitUpdate, With, IInv, TypeOK
  <1>g. /\ \A a : UpdatesOf(a)' = IF a = at THEN UpdatesOf(a) \cup {q}
                                  ELSE UpdatesOf(a)
        /\ \A a : UpdatesOf(a) \subseteq committed
        /\ committed \subseteq Requests
    <2>1. committed \subseteq Requests
      BY AlertConstants DEF IInv, TypeOK, CacheTypeOK
    <2>. QED  BY <2>1, <1>a, <1>c, <1>d DEF UpdatesOf
  <1>h. \A a : AssignmentsOf(a)' =
          IF a = at /\ Body(q).assignee # NoOne
          THEN AssignmentsOf(a) \cup {q} ELSE AssignmentsOf(a)
    <2>1. q \in Requests /\ \A a : UpdatesOf(a) \subseteq Requests  BY <1>g
    <2>. QED  BY <2>1, <1>g, <1>c DEF AssignmentsOf
  <1>1. TypeOK'
    <2>1. CacheTypeOK'  BY <1>a, AlertConstants DEF IInv, TypeOK, CacheTypeOK
    <2>2. \A c \in comments' :
            c[1] \in DOMAIN alerts' /\ c[2] \in People \cup {NoOne}
      BY <1>a, <1>d, <1>f DEF CommentsOf, Bodies, IInv, TypeOK
    <2>. QED  BY <2>1, <2>2, <1>a, <1>b, <1>f DEF IInv, TypeOK
  <1>2. ReadShape'
    BY <1>a, <1>b, <1>c, <1>d, <1>f, AlertConstants, CacheConstants
       DEF IInv, ReadShape
  <1>3. RequestShape'
    BY <1>a, <1>b, <1>c, <1>d, <1>f, AlertConstants, CacheConstants
       DEF IInv, RequestShape
  <1>4. RequestStages'
    BY <1>a, <1>b, <1>c, <1>d, <1>f, AlertConstants, CacheConstants
       DEF IInv, RequestStages
  <1>5. TokensNotAhead'
    BY <1>a, <1>b, <1>c, <1>d, <1>f, AlertConstants, CacheConstants
       DEF IInv, TokensNotAhead
  <1>6. BumpedIsOlder'
    BY <1>a, <1>b, <1>c, <1>d, <1>f, AlertConstants, CacheConstants
       DEF IInv, BumpedIsOlder, AdminBumped, LackingIsOlder
  <1>7. ExpectedIsOlder'
    BY <1>a, <1>b, <1>c, <1>d, <1>f, AlertConstants, CacheConstants
       DEF IInv, ExpectedIsOlder, LackingIsOlder
  <1>8. AnswerIsFresh'
    BY <1>a, <1>b, <1>c, <1>d, <1>f, AlertConstants, CacheConstants
       DEF IInv, AnswerIsFresh
  <1>9. LostOnlyToOverlap'
    <2>. SUFFICES ASSUME NEW a \in DOMAIN alerts, NEW w \in UpdatesOf(a)'
         PROVE  \/ \E v \in UpdatesOf(a)' : w \in lost'[v]
                \/ /\ Body(w).action = "resolve" =>
                        alerts'[a].status = "resolved"
                   /\ Body(w).action # "assign" => alerts'[a].acknowledged
                   /\ w \in AssignmentsOf(a)' =>
                        \/ alerts'[a].assignee = Body(w).assignee
                        \/ \E v \in AssignmentsOf(a)' : w \in seen[v]
      BY <1>a, <1>c, <1>f, <1>g DEF LostOnlyToOverlap
    <2>1. CASE a # at
      <3>1. w \in UpdatesOf(a)  BY <2>1, <1>g
      <3>. QED  BY <2>1, <3>1, <1>a, <1>d, <1>f, <1>g, <1>h
         DEF IInv, LostOnlyToOverlap
    <2>2. CASE a = at /\ w = q
      BY <2>2, <1>e, <1>f, <1>g, <1>h, <1>d DEF AssignmentsOf
    <2>3. CASE a = at /\ w # q /\ w \notin seen[q]
      BY <2>3, <1>a, <1>g
    <2>4. CASE a = at /\ w # q /\ w \in seen[q]
      <3>1. w \in UpdatesOf(at)  BY <2>4, <1>g
      <3>2. CASE \E v \in UpdatesOf(at) : w \in lost[v]
        BY <3>2, <2>4, <1>a, <1>d, <1>g
      <3>3. CASE /\ Body(w).action = "resolve" =>
                      request[q].row.status = "resolved"
                 /\ Body(w).action # "assign" => request[q].row.acknowledged
                 /\ w \in AssignmentsOf(at) =>
                      \/ request[q].row.assignee = Body(w).assignee
                      \/ \E v \in AssignmentsOf(at) : w \in seen[v]
        <4>1. /\ Body(w).action = "resolve" => alerts'[a].status = "resolved"
              /\ Body(w).action # "assign" => alerts'[a].acknowledged
          BY <3>3, <2>4, <1>e, <1>f
        <4>2. w \in AssignmentsOf(a)' =>
                \/ alerts'[a].assignee = Body(w).assignee
                \/ \E v \in AssignmentsOf(a)' : w \in seen[v]
          BY <3>3, <2>4, <1>e, <1>f, <1>h
        <4>. QED  BY <4>1, <4>2
      <3>. QED  BY <3>1, <3>2, <3>3, <2>4, <1>a DEF IInv, LoadedRowIsLost
    <2>. QED  BY <2>1, <2>2, <2>3, <2>4
  <1>10. LoadedRowIsLost'
    <2>. SUFFICES ASSUME NEW u \in Requests, request'[u].state = "loaded",
                         NEW a, a = Body(u).alert,
                         NEW w \in seen[u], w \in UpdatesOf(a)'
         PROVE  \/ \E v \in UpdatesOf(a)' : w \in lost'[v]
                \/ /\ Body(w).action = "resolve" =>
                        request'[u].row.status = "resolved"
                   /\ Body(w).action # "assign" => request'[u].row.acknowledged
                   /\ w \in AssignmentsOf(a)' =>
                        \/ request'[u].row.assignee = Body(w).assignee
                        \/ \E v \in AssignmentsOf(a)' : w \in seen[v]
      BY <1>a, <1>c, <1>g DEF LoadedRowIsLost
    <2>1. u # q /\ request'[u] = request[u] /\ w # q
      BY <1>a, <1>d DEF IInv, RequestStages
    <2>2. /\ w \in UpdatesOf(a)
          /\ w \in AssignmentsOf(a)' => w \in AssignmentsOf(a)
      BY <2>1, <1>g, <1>h
    <2>. QED  BY <2>1, <2>2, <1>a, <1>d, <1>g, <1>h DEF IInv, LoadedRowIsLost
  <1>11. AssigneeIsExplained'
    <2>1. new.assignee # request[q].row.assignee =>
            <<at, new.assignee>> \in comments'
      BY <1>a, <1>e DEF CommentsOf
    <2>. QED  BY <2>1, <1>a, <1>f DEF IInv, AssigneeIsExplained,
       LoadedAssigneeIsExplained
  <1>12. LoadedAssigneeIsExplained'
    BY <1>a, <1>c DEF IInv, LoadedAssigneeIsExplained
  <1>. QED  BY <1>1, <1>2, <1>3, <1>4, <1>5, <1>6, <1>7, <1>8, <1>9, <1>10,
     <1>11, <1>12
     DEF IInv

(* Nothing happens.                                                           *)
LEMMA StutterKeepsIInv == IInv /\ UNCHANGED vars => IInv'
  <1>. USE DEF RequestRecords
  <1>. SUFFICES ASSUME IInv, UNCHANGED vars PROVE IInv'  OBVIOUS
  <1>. USE DEF vars
  <1>1. TypeOK'
    BY DEF IInv, TypeOK, CacheTypeOK
  <1>2. ReadShape'
    BY DEF IInv, ReadShape
  <1>3. RequestShape'
    BY DEF IInv, RequestShape
  <1>4. RequestStages'
    BY DEF IInv, RequestStages, Body
  <1>5. TokensNotAhead'
    BY DEF IInv, TokensNotAhead, CacheTypeOK, Scopes
  <1>6. BumpedIsOlder'
    BY DEF IInv, BumpedIsOlder, AdminBumped, LackingIsOlder, CacheTypeOK, Scopes
  <1>7. ExpectedIsOlder'
    BY DEF IInv, ExpectedIsOlder, LackingIsOlder, AdminBumped, CacheTypeOK
  <1>8. AnswerIsFresh'
    BY DEF IInv, AnswerIsFresh, LackingIsOlder, CacheTypeOK
  <1>9. LostOnlyToOverlap'
    BY DEF IInv, LostOnlyToOverlap, UpdatesOf, AssignmentsOf, Body
  <1>10. LoadedRowIsLost'
    BY DEF IInv, LoadedRowIsLost, UpdatesOf, AssignmentsOf, Body
  <1>11. AssigneeIsExplained'
    BY DEF IInv, AssigneeIsExplained, Body
  <1>12. LoadedAssigneeIsExplained'
    BY DEF IInv, LoadedAssigneeIsExplained, Body
  <1>. QED  BY <1>1, <1>2, <1>3, <1>4, <1>5, <1>6, <1>7, <1>8, <1>9, <1>10,
     <1>11, <1>12
     DEF IInv


-----------------------------------------------------------------------------
(* The inductive invariant holds in every state of every behaviour.           *)
THEOREM Invariance == Spec => []IInv
  <1>1. IInv /\ [Next]_vars => IInv'
    <2>. SUFFICES ASSUME IInv, [Next]_vars PROVE IInv'  OBVIOUS
    <2>1. CASE UNCHANGED vars  BY <2>1, StutterKeepsIInv
    <2>2. ASSUME NEW q \in Requests, RequestStep(q)  PROVE IInv'
      BY <2>2, CreateKeepsIInv, LoadKeepsIInv, CommitUpdateKeepsIInv,
         CommitCommentKeepsIInv, AuditKeepsIInv, BumpScopeKeepsIInv,
         StatementFailsKeepsIInv
         DEF RequestStep
    <2>3. ASSUME NEW r \in Reads, ReadStep(r),
                 UNCHANGED <<tables, request, history>>
          PROVE IInv'
      BY <2>3, TakeTokensKeepsIInv, HitKeepsIInv, MissKeepsIInv, QueryKeepsIInv,
         QueryFailsKeepsIInv, StoreKeepsIInv
         DEF ReadStep
    <2>. QED  BY <2>1, <2>2, <2>3 DEF Next, CacheStep
  <1>. QED  BY InitIInv, <1>1, PTL DEF Spec

(* Every variable keeps its type; an audit entry is about a committed change, *)
(* a comment about an alert that exists (alerts-store.ts:313-423).            *)
THEOREM AlertTypeCorrect == Spec => []TypeOK
  BY Invariance, PTL DEF IInv

(* A dashboard answer contains every change whose bumps were over when its    *)
(* read began: a result computed earlier and put later by a slow read never   *)
(* gets under the new tokens (dashboard-cache.ts:79-124, client.ts:188-206).  *)
THEOREM AnswersAreFresh == Spec => []FreshAfterInvalidation
  <1>1. IInv => FreshAfterInvalidation
    BY DEF IInv, AnswerIsFresh, FreshAfterInvalidation
  <1>. QED  BY Invariance, <1>1, PTL

(* What a committed update did to an alert is undone only by an update that   *)
(* read the row before and wrote it after (alerts-store.ts:313-372).          *)
THEOREM UpdatesAreLostOnlyToOverlap == Spec => []LostOnlyToOverlap
  BY Invariance, PTL DEF IInv

(* Whoever an alert is assigned to was named at its creation or stands in a   *)
(* comment (alerts-store.ts:337-352, 381-423).                                *)
THEOREM AssigneesAreExplained == Spec => []AssigneeIsExplained
  BY Invariance, PTL DEF IInv

-----------------------------------------------------------------------------
(* A step that leaves the reads and the changes alone is no step of Current.  *)
LEMMA UnseenByReaders ==
  ASSUME UNCHANGED <<read, committed, invalidated>>
  PROVE  UNCHANGED Current!readVars
  BY DEF Current!readVars, Reading, Due, Shown

(* What a read of the model goes through is one step of a read of Current, or *)
(* none.                                                                      *)
LEMMA ReadMapsToRead ==
  ASSUME IInv, IInv', NEW r \in Reads, ReadStep(r)
  PROVE  [Current!ReadsNext]_(Current!readVars)
  <1>1. /\ DOMAIN read = Reads
        /\ DOMAIN read[r] = {"state", "viewer", "signature", "payload",
                             "expected"}
        /\ committed' = committed /\ invalidated' = invalidated
    BY DEF IInv, ReadShape, ReadStep, TakeTokens, Hit, Miss, Query, QueryFails,
       Store
  <1>2. CASE TakeTokens(r)
    <2>1. /\ read[r].state = "idle"
          /\ \A s \in Reads \ {r} : read'[s] = read[s]
          /\ read'[r].state = "lookingUp"
          /\ read'[r].expected = invalidated
      BY <1>1, <1>2 DEF TakeTokens
    <2>2. /\ Reading[r] = "idle"
          /\ Reading' = [Reading EXCEPT ![r] = "pending"]
          /\ Due' = [Due EXCEPT ![r] = invalidated]
          /\ Shown' = Shown
      BY <1>1, <2>1 DEF Reading, Due, Shown
    <2>3. Current!Begin(r)  BY <1>1, <2>2 DEF Current!Begin
    <2>. QED  BY <2>3 DEF Current!ReadsNext
  <1>3. CASE Hit(r) \/ Store(r)
    <2>1. /\ read[r].state \in {"lookingUp", "storing"}
          /\ DOMAIN read' = Reads
          /\ \A s \in Reads \ {r} : read'[s] = read[s]
          /\ read'[r].state = "answered"
          /\ read'[r].expected = read[r].expected
      BY <1>1, <1>3 DEF Hit, Store
    <2>2. read'[r].payload \subseteq committed
      <3>1. CASE Hit(r)
        <4>1. PICK payload \in SUBSET Changes :
                /\ <<CacheKey(r), payload>> \in cache
                /\ read'[r].payload = payload
          BY <1>1, <3>1 DEF Hit
        <4>. QED  BY <4>1 DEF IInv, TypeOK, CacheTypeOK
      <3>2. CASE Store(r)
        BY <1>1, <3>2 DEF Store, IInv, ReadShape
      <3>. QED  BY <1>3, <3>1, <3>2
    <2>3. read[r].expected \subseteq read'[r].payload
      BY <2>1 DEF IInv, AnswerIsFresh
    <2>4. /\ Reading[r] = "pending" /\ Due[r] = read[r].expected
          /\ Reading' = [Reading EXCEPT ![r] = "answered"]
          /\ Due' = Due
          /\ Shown' = [Shown EXCEPT ![r] = read'[r].payload]
      BY <2>1 DEF Reading, Due, Shown
    <2>5. Current!Answer(r)
      BY <1>1, <2>2, <2>3, <2>4 DEF Current!Answer
    <2>. QED  BY <2>5 DEF Current!ReadsNext
  <1>4. CASE Miss(r) \/ Query(r)
    <2>1. /\ read[r].state \in {"lookingUp", "querying"}
          /\ \A s \in Reads \ {r} : read'[s] = read[s]
          /\ read'[r].state \in {"querying", "storing"}
          /\ read'[r].expected = read[r].expected
      BY <1>1, <1>4 DEF Miss, Query
    <2>2. UNCHANGED Current!readVars
      BY <1>1, <2>1 DEF Current!readVars, Reading, Due, Shown
    <2>. QED  BY <2>2
  <1>5. CASE QueryFails(r)
    <2>1. /\ read[r].state = "querying"
          /\ \A s \in Reads \ {r} : read'[s] = read[s]
          /\ read'[r].state = "failed"
          /\ read'[r].expected = read[r].expected
      BY <1>1, <1>5 DEF QueryFails
    <2>2. /\ Reading[r] = "pending"
          /\ Reading' = [Reading EXCEPT ![r] = "failed"]
          /\ Due' = Due /\ Shown' = Shown
      BY <2>1 DEF Reading, Due, Shown
    <2>3. Current!GiveUp(r)  BY <1>1, <2>2 DEF Current!GiveUp
    <2>. QED  BY <2>3 DEF Current!ReadsNext
  <1>. QED  BY <1>2, <1>3, <1>4, <1>5 DEF ReadStep

(* The commit of a request makes its change, its last bump settles it, and    *)
(* nothing else it does is for readers to see.                                *)
LEMMA RequestMapsToChange ==
  ASSUME IInv, NEW q \in Requests, RequestStep(q)
  PROVE  [Current!ReadsNext]_(Current!readVars)
  <1>0. q \in Changes /\ read' = read
    BY AlertConstants
       DEF RequestStep, Create, Load, CommitUpdate, CommitComment, Audit,
           BumpScope, StatementFails, history
  <1>1. ASSUME committed' = committed \cup {q}, invalidated' = invalidated
        PROVE  Current!ReadsNext
    <2>1. Current!Make(q)
      BY <1>0, <1>1 DEF Current!Make, Reading, Due, Shown
    <2>. QED  BY <1>0, <2>1 DEF Current!ReadsNext
  <1>2. ASSUME BumpScope(q), invalidated' = invalidated \cup {q}
        PROVE  Current!ReadsNext
    <2>1. q \in committed
      BY <1>2 DEF BumpScope, IInv, RequestStages
    <2>2. committed' = committed  BY <1>2 DEF BumpScope
    <2>3. Current!Settle(q)
      BY <1>0, <1>2, <2>1, <2>2 DEF Current!Settle, Reading, Due, Shown
    <2>. QED  BY <1>0, <2>3 DEF Current!ReadsNext
  <1>3. CASE BumpScope(q)
    <2>1. UNCHANGED committed
          /\ \/ invalidated' = invalidated
             \/ invalidated' = invalidated \cup {q}
      BY <1>3 DEF BumpScope
    <2>. QED  BY <1>0, <1>2, <1>3, <2>1, UnseenByReaders
  <1>4. CASE Create(q)
    <2>1. invalidated' = invalidated
          /\ \/ committed' = committed
             \/ committed' = committed \cup {q}
      BY <1>4 DEF Create
    <2>. QED  BY <1>0, <1>1, <2>1, UnseenByReaders
  <1>5. CASE CommitUpdate(q) \/ CommitComment(q)
    BY <1>1, <1>5 DEF CommitUpdate, CommitComment
  <1>6. CASE Load(q) \/ Audit(q) \/ StatementFails(q)
    BY <1>0, <1>6, UnseenByReaders DEF Load, Audit, StatementFails
  <1>. QED  BY <1>3, <1>4, <1>5, <1>6 DEF RequestStep

(* Seen from the dashboard there is no cache: each answer shows committed     *)
(* changes, all of them whose bumps were over when the read began             *)
(* (dashboard-cache.ts:79-124, client.ts:188-206, 439-441).                   *)
THEOREM AlertsImplementReads == Spec => ImplementsReads
  <1>1. Init => Current!ReadsInit
    <2>. SUFFICES ASSUME Init PROVE Current!ReadsInit  OBVIOUS
    <2>1. /\ committed = {} /\ invalidated = {}
          /\ \A r \in Reads : read[r].state = "idle" /\ read[r].expected = {}
      BY DEF Init, CacheInit, Idle
    <2>. QED  BY <2>1 DEF Current!ReadsInit, Reading, Due, Shown
  <1>2. IInv /\ IInv' /\ [Next]_vars => [Current!ReadsNext]_(Current!readVars)
    <2>. SUFFICES ASSUME IInv, IInv', [Next]_vars
                  PROVE  [Current!ReadsNext]_(Current!readVars)
      OBVIOUS
    <2>1. CASE UNCHANGED vars  BY <2>1, UnseenByReaders DEF vars
    <2>2. ASSUME NEW q \in Requests, RequestStep(q)
          PROVE  [Current!ReadsNext]_(Current!readVars)
      BY <2>2, RequestMapsToChange
    <2>3. CASE CacheStep  BY <2>3, ReadMapsToRead DEF CacheStep
    <2>. QED  BY <2>1, <2>2, <2>3 DEF Next
  <1>. QED
    BY Invariance, <1>1, <1>2, PTL DEF Spec, ImplementsReads, Current!ReadsSpec
=============================================================================
