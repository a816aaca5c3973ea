---------------------------- MODULE MobileSession ----------------------------
(***************************************************************************)
(* Signing in and out in the mobile app (contexts/AuthContext.tsx) and the *)
(* sessions of the overseas API.  A sign-out that cannot reach the server  *)
(* leaves its cookie in one slot of SecureStore, the pending logout, which *)
(* is flushed at start, when the app comes to the foreground and when      *)
(* connectivity returns.  The session cookie of the requests' header is    *)
(* one variable in memory; the flush, the hydration at start, the login    *)
(* and the logouts all set it, and interleave at each of their awaits.     *)
(* Two logouts may overlap, as the dashboard stays on the screen until one *)
(* ends, and two logins, as the keyboard submits whatever the button says. *)
(*                                                                         *)
(* Every request is made with credentials: "include", so the cookie store  *)
(* of the platform, the jar, takes the Set-Cookie of every answer and may  *)
(* send what it holds instead of the header or before it; the server takes *)
(* the first gb_session it finds.  Which of the two that is depends on the *)
(* platform, and is left open for each request.                            *)
(*                                                                         *)
(* Sessions are numbered as the server issues them.  Reports to telemetry  *)
(* and its grant are left out, but for the awaits they are; refresh() has  *)
(* no caller in the app.                                                   *)
(***************************************************************************)
EXTENDS Integers, FiniteSets

CONSTANTS
  Taps,         (* the logins and logouts that may be in progress together  *)
  MaxLogins,    (* bound: sessions the server issues                        *)
  MaxRestarts   (* bound: times the app is killed                           *)

ASSUME MobileConstants == MaxLogins \in Nat /\ MaxRestarts \in Nat

VARIABLES
  cookie,    (* api-client: the session of the cookie in requests' headers  *)
  jar,       (* cookie store of the platform: the session of its gb_session *)
  stored,    (* SecureStore: the session to sign in with at the next start  *)
  pending,   (* SecureStore: the session of the pending logout              *)
  user,      (* the session of the user on the screen                       *)
  status,    (* AuthStatus                                                  *)
  boot,      (* hydrateFromStorage(): the await it is at, its session, and  *)
             (* the session its request presents to the server              *)
  flush,     (* flushPendingLogout(): the same                              *)
  tap,       (* each login or logout: the same                              *)
  live,      (* table sessions of the overseas API                          *)
  issued,    (* history: sessions the server has issued so far              *)
  ended,     (* history: sessions the app was signed in with - on the       *)
             (* screen or in its requests - when a logout was tapped        *)
  exposed,   (* history: sessions the jar put into a sign-out request whose *)
             (* header named another one, or none                           *)
  displaced, (* history: sessions another one took the slot of, or that a   *)
             (* flush removed from it which had presented another one       *)
  restarts   (* history: times the app was killed                           *)

screen == <<user, status>>
store == <<stored, pending>>
server == <<live, issued>>
cookies == <<cookie, jar>>
history == <<ended, exposed, displaced, restarts>>
vars == <<cookie, jar, stored, pending, user, status, boot, flush, tap, live,
          issued, ended, exposed, displaced, restarts>>

-----------------------------------------------------------------------------
NoSession == 0
Sessions == 1..MaxLogins

Sends(state, session, sent) ==
  [state |-> state, session |-> session, sent |-> sent]

At(state, session) == Sends(state, session, NoSession)

Idle == At("idle", NoSession)

(* The two effects of the provider run as the app starts.                   *)
Loading == At("loading", NoSession)

Init ==
  /\ cookie = NoSession /\ jar = NoSession
  /\ stored = NoSession /\ pending = NoSession
  /\ user = NoSession /\ status = "loading"
  /\ boot = Loading /\ flush = Loading
  /\ tap = [t \in Taps |-> Idle]
  /\ live = {} /\ issued = 0
  /\ ended = {} /\ exposed = {} /\ displaced = {} /\ restarts = 0

-----------------------------------------------------------------------------
(* What a request with this session in its header presents to the server:   *)
(* that, or what the jar adds, or replaces it by.                           *)
Presented(header) == {header} \cup ({jar} \ {NoSession})

(* The sessions such a request exposes to a sign-out it does not name.      *)
Exposes(header, sent) == {sent} \ {header, NoSession}

(* handleLogout(), and an answer that empties the jar.                      *)
SignOutArrives(sent) ==
  /\ live' = live \ {sent}
  /\ jar' = NoSession

(* The request is lost, or its answer, of which the headers may have come.  *)
SignOutIsLost(sent) ==
  \/ UNCHANGED <<live, jar>>
  \/ live' = live \ {sent} /\ jar' \in {jar, NoSession}

-----------------------------------------------------------------------------
(* hydrateFromStorage(): the stored cookie is loaded and, when there is     *)
(* one, GET /api/me asks whose it is.                                       *)
HydrateLoads ==
  /\ boot.state = "loading"
  /\ \/ /\ stored = NoSession
        /\ boot' = At("clearing", NoSession)
        /\ UNCHANGED cookie
     \/ /\ stored # NoSession
        /\ \E sent \in Presented(stored) :
             boot' = Sends("asking", stored, sent)
        /\ cookie' = stored
  /\ UNCHANGED <<jar, store, screen, flush, tap, server, history>>

HydrateSignsIn ==
  /\ boot.state = "asking"
  /\ boot.sent \in live
  /\ user' = boot.sent
  /\ status' = "authenticated"
  /\ boot' = Idle
  /\ UNCHANGED <<cookies, store, flush, tap, server, history>>

(* The request fails for whatever reason: the stored cookie is dropped.     *)
HydrateDrops ==
  /\ boot.state = "asking"
  /\ stored' = NoSession
  /\ boot' = At("clearing", NoSession)
  /\ UNCHANGED <<cookies, pending, screen, flush, tap, server, history>>

SignsOut ==
  /\ cookie' = NoSession
  /\ user' = NoSession
  /\ status' = "anonymous"

HydrateSignsOut ==
  /\ boot.state = "clearing"
  /\ SignsOut
  /\ boot' = Idle
  /\ UNCHANGED <<jar, store, flush, tap, server, history>>

(* SecureStore fails: hydrateFromStorage() rejects where it is, and nobody  *)
(* catches that.                                                            *)
HydrateRejects ==
  /\ boot.state \in {"loading", "asking", "clearing"}
  /\ boot' = Idle
  /\ UNCHANGED <<cookies, store, screen, flush, tap, server, history>>

-----------------------------------------------------------------------------
(* flushPendingLogout() is called: nothing happens while one is under way.  *)
StartFlush ==
  flush' = IF flush.state = "idle" THEN Loading ELSE flush

(* The slot is read; its cookie becomes that of the request.                *)
FlushSends ==
  /\ cookie' = pending
  /\ \E sent \in Presented(pending) :
       /\ flush' = Sends("posting", pending, sent)
       /\ exposed' = exposed \cup Exposes(pending, sent)

(* Slip: an empty slot is not looked for.                                   *)
FlushLoadsAnything ==
  /\ flush.state = "loading"
  /\ FlushSends
  /\ UNCHANGED <<jar, store, screen, boot, tap, server, ended, displaced,
                 restarts>>

FlushLoads ==
  /\ flush.state = "loading"
  /\ \/ /\ pending = NoSession
        /\ flush' = Idle
        /\ UNCHANGED <<cookie, exposed>>
     \/ /\ pending # NoSession
        /\ FlushSends
  /\ UNCHANGED <<jar, store, screen, boot, tap, server, ended, displaced,
                 restarts>>

(* SecureStore fails before anything has been done.                         *)
FlushRejects ==
  /\ flush.state = "loading"
  /\ flush' = Idle
  /\ UNCHANGED <<cookies, store, screen, boot, tap, server, history>>

(* Slip: the request takes the cookie when it leaves, not when it is made.  *)
FlushPostsCurrent ==
  /\ flush.state = "posting"
  /\ SignOutArrives(cookie)
  /\ flush' = [flush EXCEPT !.state = "clearing"]
  /\ UNCHANGED <<cookie, store, screen, boot, tap, issued, history>>

(* POST /api/auth/logout with what it presented when it was made.           *)
FlushPosts ==
  /\ flush.state = "posting"
  /\ SignOutArrives(flush.sent)
  /\ flush' = [flush EXCEPT !.state = "clearing"]
  /\ UNCHANGED <<cookie, store, screen, boot, tap, issued, history>>

(* Slip: the slot is not cleared after the request.                         *)
FlushKeepsSlot ==
  /\ flush.state = "clearing"
  /\ flush' = At("ending", flush.session)
  /\ UNCHANGED <<cookies, store, screen, boot, tap, server, history>>

(* clearPendingLogoutCookie(): whatever the slot holds by now.              *)
FlushClears ==
  /\ flush.state = "clearing"
  /\ displaced' = displaced \cup ({pending} \ {NoSession, flush.sent})
  /\ pending' = NoSession
  /\ flush' = At("ending", flush.session)
  /\ UNCHANGED <<cookies, stored, screen, boot, tap, server, ended, exposed,
                 restarts>>

(* Slip: the slot is cleared in the finally block.                          *)
FlushFailsAndClears ==
  /\ \/ flush.state = "posting" /\ SignOutIsLost(flush.sent)
     \/ flush.state = "clearing" /\ UNCHANGED <<live, jar>>
  /\ pending' = NoSession
  /\ flush' = At("ending", flush.session)
  /\ UNCHANGED <<cookie, stored, screen, boot, tap, issued, history>>

(* The request, its answer or SecureStore fails: the slot stays as it is.   *)
FlushFails ==
  /\ \/ flush.state = "posting" /\ SignOutIsLost(flush.sent)
     \/ flush.state = "clearing" /\ UNCHANGED <<live, jar>>
  /\ flush' = At("ending", flush.session)
  /\ UNCHANGED <<cookie, store, screen, boot, tap, issued, history>>

(* The finally blocks, after the report of how it went.                     *)
FlushEnds ==
  /\ flush.state = "ending"
  /\ cookie' = NoSession
  /\ flush' = Idle
  /\ UNCHANGED <<jar, store, screen, boot, tap, server, history>>

-----------------------------------------------------------------------------
(* login(): the login screen shows while nobody is signed in.  Its button   *)
(* is disabled while a login is under way, the keyboard's return key is not.*)
Login(t) ==
  /\ tap[t].state = "idle"
  /\ user = NoSession /\ status # "loading"
  /\ issued < MaxLogins
  /\ status' = "authenticating"
  /\ tap' = [tap EXCEPT ![t] = At("loggingIn", NoSession)]
  /\ UNCHANGED <<cookies, store, user, boot, flush, server, history>>

(* createSession()                                                          *)
Issue ==
  /\ issued < MaxLogins
  /\ issued' = issued + 1
  /\ live' = live \cup {issued + 1}

(* handleLogin(), and the answer: its cookie goes into the jar too.         *)
LoginPosts(t) ==
  /\ tap[t].state = "loggingIn"
  /\ Issue
  /\ jar' = issued + 1
  /\ tap' = [tap EXCEPT ![t] = At("storing", issued + 1)]
  /\ UNCHANGED <<cookie, store, screen, boot, flush, history>>

(* The login is refused, cannot reach the server, or its answer is lost, in *)
(* whole or but for its headers.                                            *)
LoginFails(t) ==
  /\ tap[t].state = "loggingIn"
  /\ \/ UNCHANGED <<server, jar>>
     \/ Issue /\ jar' \in {jar, issued + 1}
  /\ status' = "anonymous"
  /\ tap' = [tap EXCEPT ![t] = Idle]
  /\ UNCHANGED <<cookie, store, user, boot, flush, history>>

LoginStores(t) ==
  /\ tap[t].state = "storing"
  /\ stored' = tap[t].session
  /\ cookie' = tap[t].session
  /\ tap' = [tap EXCEPT ![t].state = "signingIn"]
  /\ UNCHANGED <<jar, pending, screen, boot, flush, server, history>>

LoginSignsIn(t) ==
  /\ tap[t].state = "signingIn"
  /\ user' = tap[t].session
  /\ status' = "authenticated"
  /\ tap' = [tap EXCEPT ![t] = Idle]
  /\ UNCHANGED <<cookies, store, boot, flush, server, history>>

(* SecureStore fails while cookie or grant are stored: the login is given   *)
(* up as it stands.                                                         *)
LoginRejects(t) ==
  /\ tap[t].state \in {"storing", "signingIn"}
  /\ status' = "anonymous"
  /\ tap' = [tap EXCEPT ![t] = Idle]
  /\ UNCHANGED <<cookies, store, user, boot, flush, server, history>>

(* logout() sends the cookie of the moment, which a flush may have set.     *)
Logout(t) ==
  /\ tap[t].state = "idle"
  /\ user # NoSession /\ status # "loading"
  /\ status' = "authenticating"
  /\ ended' = ended \cup ({user, cookie} \ {NoSession})
  /\ \E sent \in Presented(cookie) :
       /\ tap' = [tap EXCEPT ![t] = Sends("loggingOut", cookie, sent)]
       /\ exposed' = exposed \cup Exposes(cookie, sent)
  /\ UNCHANGED <<cookies, store, user, boot, flush, server, displaced,
                 restarts>>

LogoutPosts(t) ==
  /\ tap[t].state = "loggingOut"
  /\ SignOutArrives(tap[t].sent)
  /\ tap' = [tap EXCEPT ![t] = At("ending", tap[t].session)]
  /\ UNCHANGED <<cookie, store, screen, boot, flush, issued, history>>

(* The request or its answer is lost: the cookie of the header is queued,   *)
(* if there was one.                                                        *)
LogoutFails(t) ==
  /\ tap[t].state = "loggingOut"
  /\ SignOutIsLost(tap[t].sent)
  /\ LET next == IF tap[t].session = NoSession THEN "ending" ELSE "queueing"
     IN  tap' = [tap EXCEPT ![t] = At(next, tap[t].session)]
  /\ UNCHANGED <<cookie, store, screen, boot, flush, issued, history>>

(* persistPendingLogoutCookie() overwrites the slot.                        *)
LogoutQueues(t) ==
  /\ tap[t].state = "queueing"
  /\ displaced' = displaced \cup ({pending} \ {NoSession, tap[t].session})
  /\ pending' = tap[t].session
  /\ tap' = [tap EXCEPT ![t].state = "queued"]
  /\ UNCHANGED <<cookies, stored, screen, boot, flush, server, ended, exposed,
                 restarts>>

(* After the report that it is queued, a flush is tried at once.            *)
LogoutFlushes(t) ==
  /\ tap[t].state = "queued"
  /\ StartFlush
  /\ tap' = [tap EXCEPT ![t].state = "ending"]
  /\ UNCHANGED <<cookies, store, screen, boot, server, history>>

(* The finally block: two deletions from SecureStore, then the state.       *)
LogoutClears(t) ==
  /\ tap[t].state = "ending"
  /\ stored' = NoSession
  /\ tap' = [tap EXCEPT ![t].state = "signingOut"]
  /\ UNCHANGED <<cookies, pending, screen, boot, flush, server, history>>

LogoutSignsOut(t) ==
  /\ tap[t].state = "signingOut"
  /\ SignsOut
  /\ tap' = [tap EXCEPT ![t] = Idle]
  /\ UNCHANGED <<jar, store, boot, flush, server, history>>

(* SecureStore fails: a cookie that cannot be queued is forgotten; in the   *)
(* finally block logout() rejects and leaves the screen as it is.           *)
LogoutRejects(t) ==
  /\ \/ /\ tap[t].state = "queueing"
        /\ tap' = [tap EXCEPT ![t].state = "ending"]
     \/ /\ tap[t].state \in {"ending", "signingOut"}
        /\ tap' = [tap EXCEPT ![t] = Idle]
  /\ UNCHANGED <<cookies, store, screen, boot, flush, server, history>>

-----------------------------------------------------------------------------
(* The watchers of utils/pending-logout.ts: the app comes to the foreground *)
(* or connectivity returns.                                                 *)
WatcherFires ==
  /\ flush.state = "idle"
  /\ StartFlush
  /\ UNCHANGED <<cookies, store, screen, boot, tap, server, history>>

(* What the logout requests on their way present.                           *)
OnTheWay ==
  {f.sent : f \in {g \in {flush} : g.state = "posting"}}
    \cup {tap[t].sent : t \in {u \in Taps : tap[u].state = "loggingOut"}}

(* The app is killed; what is in SecureStore and in the jar stays, and      *)
(* requests on their way may still arrive.                                  *)
Restart ==
  /\ restarts < MaxRestarts
  /\ restarts' = restarts + 1
  /\ cookie' = NoSession /\ user' = NoSession /\ status' = "loading"
  /\ boot' = Loading /\ flush' = Loading
  /\ tap' = [t \in Taps |-> Idle]
  /\ \E arrived \in SUBSET OnTheWay : live' = live \ arrived
  /\ UNCHANGED <<jar, store, issued, ended, exposed, displaced>>

-----------------------------------------------------------------------------
BootStep == HydrateLoads \/ HydrateSignsIn \/ HydrateDrops \/ HydrateSignsOut
            \/ HydrateRejects

FlushStep == FlushLoads \/ FlushPosts \/ FlushClears \/ FlushFails \/ FlushEnds
             \/ FlushRejects

TapStep(t) ==
  \/ LoginPosts(t) \/ LoginFails(t) \/ LoginStores(t) \/ LoginSignsIn(t)
  \/ LogoutPosts(t) \/ LogoutFails(t) \/ LogoutQueues(t) \/ LogoutFlushes(t)
  \/ LogoutClears(t) \/ LogoutSignsOut(t) \/ LoginRejects(t) \/ LogoutRejects(t)

Next ==
  \/ BootStep \/ FlushStep
  \/ \E t \in Taps : Login(t) \/ Logout(t) \/ TapStep(t)
  \/ WatcherFires \/ Restart

Spec == Init /\ [][Next]_vars

(* Awaits settle, the app is opened or goes online again and again, and a   *)
(* flush that is tried again and again reads the slot, gets through and     *)
(* clears it.                                                               *)
Fairness ==
  /\ WF_vars(FlushStep) /\ WF_vars(WatcherFires)
  /\ SF_vars(FlushLoads) /\ SF_vars(FlushPosts) /\ SF_vars(FlushClears)

FairSpec == Spec /\ Fairness

-----------------------------------------------------------------------------
TapStates == {"idle", "loggingIn", "storing", "signingIn", "loggingOut",
              "queueing", "queued", "ending", "signingOut"}

(* Types; a request to sign out is made by a flush for a session only.      *)
TypeOK ==
  /\ cookie \in {NoSession} \cup 1..issued /\ jar \in {NoSession} \cup 1..issued
  /\ stored \in {NoSession} \cup 1..issued /\ pending \in {NoSession} \cup 1..issued
  /\ user \in {NoSession} \cup 1..issued
  /\ status \in {"loading", "authenticating", "authenticated", "anonymous"}
  /\ boot.state \in {"idle", "loading", "asking", "clearing"}
  /\ flush.state \in {"idle", "loading", "posting", "clearing", "ending"}
  /\ flush.state \in {"posting", "clearing", "ending"} => flush.session \in 1..issued
  /\ \A t \in Taps : tap[t].state \in TapStates /\ tap[t].session \in 0..issued
  /\ issued \in 0..MaxLogins /\ live \subseteq 1..issued
  /\ ended \subseteq 1..issued /\ exposed \subseteq 1..issued
  /\ displaced \subseteq 1..issued
  /\ restarts \in 0..MaxRestarts

(* A session ends because a logout was tapped while the app was signed in   *)
(* with it, or because the jar put it into a sign-out request, and for no   *)
(* other reason: a flush under way while somebody signs in again, however   *)
(* its awaits fall, never takes the new cookie from the one variable all    *)
(* share, nor does a logout that overlaps another one                       *)
(* (AuthContext.tsx:71-107, 179-225; api-client.ts:65-86).                  *)
OthersRevokedOnlyThroughJar == (1..issued) \ live \subseteq ended \cup exposed

(* A pending logout does not stay for ever: every attempt is followed by    *)
(* another one, and one that gets through leaves the slot empty.            *)
PendingIsDrained ==
  \A s \in Sessions : pending = s ~> pending # s

(* A queued sign-out reaches the server in the end, unless another one took *)
(* its place: in the slot, or, from the jar, in the request that emptied it.*)
QueuedLogoutReachesServer ==
  \A s \in Sessions : pending = s ~> s \notin live \/ s \in displaced
=============================================================================
