---------------------------- MODULE DashboardCache ----------------------------
(***************************************************************************)
(* The cache in front of the expensive dashboards of the overseas API      *)
(* (routes/client.ts, lib/dashboard-cache.ts, lib/cache.ts).  The key of   *)
(* an entry carries the version tokens of the viewer's scopes, so a change *)
(* does not delete entries: it bumps tokens, and later reads look under    *)
(* another key.  A read takes the tokens first, then looks up the cache,   *)
(* then queries the database and stores the result under the tokens it     *)
(* took - with an await, and other requests, between any two of these.     *)
(* An entry may expire, and each data centre has a cache of its own, so a  *)
(* read may miss, or find any payload ever put under its key.              *)
(*                                                                         *)
(* The changes themselves, and who bumps the tokens when, are the business *)
(* of the modules that extend this one.  A payload is abstracted to the    *)
(* set of changes that were committed when its first query ran.            *)
(***************************************************************************)
EXTENDS Integers, FiniteSets

CONSTANTS
  Reads,      (* dashboard requests that may be in progress together        *)
  Profiles,   (* customer profiles                                          *)
  Viewers,    (* who reads: the sets of profiles of tenants, {} the admins  *)
  Changes,    (* committed changes of the database                          *)
  MaxFailures (* bound: statements that fail                                *)

ASSUME CacheConstants ==
  /\ Viewers \subseteq SUBSET Profiles
  /\ MaxFailures \in Nat
  /\ "admin" \notin Profiles

VARIABLES
  version,     (* cache_tokens of one area: the version of each scope       *)
  cache,       (* caches.default: the <<key, payload>> pairs put into it    *)
  read,        (* each read: its state, viewer, signature and payload       *)
  committed,   (* the changes the tables contain                            *)
  invalidated, (* history: changes all of whose scopes have been bumped     *)
  failures     (* history: statements that failed                           *)

cacheVars == <<version, cache, read, committed, invalidated, failures>>

-----------------------------------------------------------------------------
Admin == "admin"
Scopes == {Admin} \cup Profiles

(* scopeIdsForProfiles(): the admin scope is always among them.             *)
ScopesOf(profiles) == {Admin} \cup profiles

(* getDashboardTokenSignature(): the versions of the viewer's scopes.       *)
Signature(viewer) == [s \in ScopesOf(viewer) |-> version[s]]

(* buildClientCompactCacheKey(); hours and lowDeltaT are one value here.    *)
CacheKey(r) == <<read[r].viewer, read[r].signature>>

NoSignature == [s \in {} |-> 0]

Idle == [state |-> "idle", viewer |-> {}, signature |-> NoSignature,
         payload |-> {}, expected |-> {}]

CacheInit ==
  /\ version = [s \in Scopes |-> 0]
  /\ cache = {}
  /\ read = [r \in Reads |-> Idle]
  /\ committed = {}
  /\ invalidated = {}
  /\ failures = 0

Fails ==
  /\ failures < MaxFailures
  /\ failures' = failures + 1

-----------------------------------------------------------------------------
(* A request comes in and reads its signature.  What has been invalidated   *)
(* by now is what its answer is expected to contain.                        *)
TakeTokens(r) ==
  /\ read[r].state = "idle"
  /\ \E viewer \in Viewers :
       read' = [read EXCEPT ![r] =
                  [state |-> "lookingUp", viewer |-> viewer,
                   signature |-> Signature(viewer), payload |-> {},
                   expected |-> invalidated]]
  /\ UNCHANGED <<version, cache, committed, invalidated, failures>>

(* readJsonCache() finds an entry: it is the answer.                        *)
Hit(r) ==
  /\ read[r].state = "lookingUp"
  /\ \E payload \in SUBSET Changes :
       /\ <<CacheKey(r), payload>> \in cache
       /\ read' = [read EXCEPT ![r].state = "answered", ![r].payload = payload]
  /\ UNCHANGED <<version, cache, committed, invalidated, failures>>

(* There is no entry, whether it has expired, has been put in another data  *)
(* centre or its put has failed; or the look-up fails, which is a miss too. *)
Miss(r) ==
  /\ read[r].state = "lookingUp"
  /\ read' = [read EXCEPT ![r].state = "querying"]
  /\ UNCHANGED <<version, cache, committed, invalidated, failures>>

(* The first query of the payload; the later ones see at least as much.     *)
Query(r) ==
  /\ read[r].state = "querying"
  /\ read' = [read EXCEPT ![r].state = "storing", ![r].payload = committed]
  /\ UNCHANGED <<version, cache, committed, invalidated, failures>>

(* A statement of the read fails: the request is answered with an error.    *)
QueryFails(r) ==
  /\ read[r].state = "querying"
  /\ Fails
  /\ read' = [read EXCEPT ![r].state = "failed"]
  /\ UNCHANGED <<version, cache, committed, invalidated>>

(* Slip: the key is built from the tokens as they are now.                  *)
StoreUnderCurrentKey(r) ==
  /\ read[r].state = "storing"
  /\ cache' = cache \cup
       {<<<<read[r].viewer, Signature(read[r].viewer)>>, read[r].payload>>}
  /\ read' = [read EXCEPT ![r].state = "answered"]
  /\ UNCHANGED <<version, committed, invalidated, failures>>

(* writeJsonCache() under the key of the start, then the answer.            *)
Store(r) ==
  /\ read[r].state = "storing"
  /\ cache' = cache \cup {<<CacheKey(r), read[r].payload>>}
  /\ read' = [read EXCEPT ![r].state = "answered"]
  /\ UNCHANGED <<version, committed, invalidated, failures>>

(* One statement of bumpDashboardTokens().                                  *)
Bump(scope) == version' = [version EXCEPT ![scope] = @ + 1]

ReadStep(r) == TakeTokens(r) \/ Hit(r) \/ Miss(r) \/ Query(r) \/ QueryFails(r)
               \/ Store(r)

CacheStep == \E r \in Reads : ReadStep(r)

-----------------------------------------------------------------------------
CacheTypeOK ==
  /\ version \in [Scopes -> Nat]
  /\ \A entry \in cache :
       entry[1][1] \in Viewers /\ entry[2] \subseteq committed
  /\ \A r \in Reads :
       /\ read[r].state \in {"idle", "lookingUp", "querying", "storing",
                             "answered", "failed"}
       /\ read[r].payload \subseteq Changes
       /\ read[r].expected \subseteq Changes
  /\ committed \subseteq Changes /\ invalidated \subseteq committed
  /\ failures \in 0..MaxFailures

(* A dashboard read that begins after a change has bumped its tokens is     *)
(* answered with a payload computed after the change: neither an entry of   *)
(* before, nor a slow read that stores its old result late, gets in the way *)
(* (dashboard-cache.ts:79-124, client.ts:188-206, 439-441).                 *)
FreshAfterInvalidation ==
  \A r \in Reads :
    read[r].state = "answered" => read[r].expected \subseteq read[r].payload
=============================================================================
