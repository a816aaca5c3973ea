------------------------- MODULE MobileSessionProofs -------------------------
(***************************************************************************)
(* Type correctness of the mobile app's sign-in, and that it ends no       *)
(* session nobody signed out of but those the platform's cookie jar slips  *)
(* into a sign-out, for any number of taps, sign-ins and kills of the app. *)
(*                                                                         *)
(* OthersRevokedOnlyThroughJar is not inductive: the session in the header *)
(* of every request to sign out must have been ended by somebody, and so   *)
(* must the one in the slot, from which the next flush takes its own; what *)
(* the request presents is that session, or one noted as the jar's doing.  *)
(***************************************************************************)
EXTENDS MobileSession, TLAPS

(* What the tuples of the procedures are, beyond what TypeOK says.          *)
Shapes ==
  /\ boot \in [state : {"idle", "loading", "asking", "clearing"},
               session : 0..issued, sent : 0..issued]
  /\ flush \in [state : {"idle", "loading", "posting", "clearing", "ending"},
                session : 0..issued, sent : 0..issued]
  /\ tap \in [Taps -> [state : TapStates, session : 0..issued, sent : 0..issued]]

(* The slot and the header of every request to sign out name a session      *)
(* somebody ended, and the request presents no other but what the jar added.*)
LogoutsAreOfEnded ==
  /\ pending \in {NoSession} \cup ended
  /\ flush.state = "posting" =>
       /\ flush.session \in ended
       /\ flush.sent \in {NoSession} \cup ended \cup exposed
  /\ \A t \in Taps : tap[t].state \in {"loggingOut", "queueing"}
                      => tap[t].session \in {NoSession} \cup ended
  /\ \A t \in Taps : tap[t].state = "loggingOut"
                      => tap[t].sent \in {NoSession} \cup ended \cup exposed

IInv == TypeOK /\ Shapes /\ LogoutsAreOfEnded /\ OthersRevokedOnlyThroughJar

-----------------------------------------------------------------------------
USE MobileConstants DEF NoSession

(* The sessions start without any issued.                                   *)
LEMMA InitEstablishesIInv == Init => IInv
  BY DEF Init, Loading, Idle, At, Sends, IInv, TypeOK, Shapes,
         LogoutsAreOfEnded, OthersRevokedOnlyThroughJar, TapStates

-----------------------------------------------------------------------------
(* One lemma per action; first those of the start, the flush and the app.   *)
LEMMA HydrateLoadsKeepsIInv == IInv /\ HydrateLoads => IInv'
  BY DEF HydrateLoads, Presented, At, Sends, IInv, TypeOK, Shapes,
         LogoutsAreOfEnded, OthersRevokedOnlyThroughJar, cookies, store,
         screen, server, history

LEMMA HydrateSignsInKeepsIInv == IInv /\ HydrateSignsIn => IInv'
  BY DEF HydrateSignsIn, Idle, At, Sends, IInv, TypeOK, Shapes,
         LogoutsAreOfEnded, OthersRevokedOnlyThroughJar, cookies, store,
         server, history

LEMMA HydrateDropsKeepsIInv == IInv /\ HydrateDrops => IInv'
  BY DEF HydrateDrops, At, Sends, IInv, TypeOK, Shapes, LogoutsAreOfEnded,
         OthersRevokedOnlyThroughJar, cookies, screen, server, history

LEMMA HydrateSignsOutKeepsIInv == IInv /\ HydrateSignsOut => IInv'
  BY DEF HydrateSignsOut, SignsOut, Idle, At, Sends, IInv, TypeOK, Shapes,
         LogoutsAreOfEnded, OthersRevokedOnlyThroughJar, cookies, store,
         server, history

LEMMA HydrateRejectsKeepsIInv == IInv /\ HydrateRejects => IInv'
  BY DEF HydrateRejects, Idle, At, Sends, IInv, TypeOK, Shapes,
         LogoutsAreOfEnded, OthersRevokedOnlyThroughJar, cookies, store,
         screen, server, history

LEMMA FlushLoadsKeepsIInv ==
  ASSUME IInv, FlushLoads PROVE IInv'
  <1>1. CASE pending = NoSession
    <2>1. /\ flush' = Idle
          /\ UNCHANGED <<cookie, jar, stored, pending, user, status, boot, tap,
                         live, issued, ended, exposed, displaced, restarts>>
      BY <1>1 DEF FlushLoads, store, screen, server
    <2>. QED
      BY <2>1
         DEF Idle, At, Sends, IInv, TypeOK, Shapes, LogoutsAreOfEnded,
             OthersRevokedOnlyThroughJar
  <1>2. CASE pending # NoSession
    <2>1. PICK sent \in Presented(pending) :
            /\ flush' = Sends("posting", pending, sent)
            /\ exposed' = exposed \cup Exposes(pending, sent)
      BY <1>2 DEF FlushLoads, FlushSends
    <2>2. /\ sent \in 0..issued /\ pending \in ended
          /\ sent \in {NoSession} \cup ended \cup exposed'
          /\ exposed' \subseteq 1..issued /\ exposed \subseteq exposed'
      BY <1>2, <2>1 DEF Presented, Exposes, IInv, TypeOK, LogoutsAreOfEnded
    <2>3. /\ flush' = [state |-> "posting", session |-> pending, sent |-> sent]
          /\ cookie' = pending
          /\ UNCHANGED <<jar, stored, pending, user, status, boot, tap, live,
                         issued, ended, displaced, restarts>>
      BY <1>2, <2>1 DEF FlushLoads, FlushSends, Sends, store, screen, server
    <2>4. TypeOK'
      BY <1>2, <2>2, <2>3 DEF IInv, TypeOK
    <2>5. Shapes'
      BY <2>2, <2>3 DEF IInv, TypeOK, Shapes
    <2>6. LogoutsAreOfEnded'
      BY <2>2, <2>3 DEF IInv, LogoutsAreOfEnded
    <2>7. OthersRevokedOnlyThroughJar'
      BY <2>2, <2>3 DEF IInv, OthersRevokedOnlyThroughJar
    <2>. QED  BY <2>4, <2>5, <2>6, <2>7 DEF IInv
  <1>. QED  BY <1>1, <1>2

LEMMA FlushPostsKeepsIInv ==
  ASSUME IInv, FlushPosts PROVE IInv'
  <1>1. TypeOK'
    BY DEF FlushPosts, SignOutArrives, At, Sends, IInv, TypeOK, cookies,
           store, screen, history
  <1>2. Shapes'
    BY DEF FlushPosts, SignOutArrives, At, Sends, IInv, Shapes
  <1>3. LogoutsAreOfEnded'
    BY DEF FlushPosts, SignOutArrives, At, Sends, IInv, LogoutsAreOfEnded,
           cookies, store, history
  <1>4. OthersRevokedOnlyThroughJar'
    BY DEF FlushPosts, SignOutArrives, IInv, LogoutsAreOfEnded,
           OthersRevokedOnlyThroughJar, history
  <1>. QED  BY <1>1, <1>2, <1>3, <1>4 DEF IInv

LEMMA FlushClearsKeepsIInv ==
  ASSUME IInv, FlushClears PROVE IInv'
  <1>1. TypeOK'
    BY DEF FlushClears, At, Sends, IInv, TypeOK, cookies, screen, server
  <1>2. Shapes'
    BY DEF FlushClears, At, Sends, IInv, TypeOK, Shapes, server
  <1>3. LogoutsAreOfEnded'
    BY DEF FlushClears, At, Sends, IInv, LogoutsAreOfEnded
  <1>4. OthersRevokedOnlyThroughJar'
    BY DEF FlushClears, IInv, OthersRevokedOnlyThroughJar, server
  <1>. QED  BY <1>1, <1>2, <1>3, <1>4 DEF IInv

LEMMA FlushFailsKeepsIInv ==
  ASSUME IInv, FlushFails PROVE IInv'
  <1>0. /\ live' \in {live, live \ {flush.sent}} /\ jar' \in {jar, NoSession}
        /\ flush.state = "posting" \/ live' = live
        /\ flush.state \in {"posting", "clearing"}
        /\ flush' = [state |-> "ending", session |-> flush.session,
                     sent |-> NoSession]
        /\ UNCHANGED <<cookie, stored, pending, user, status, boot, tap, issued,
                       ended, exposed, displaced, restarts>>
    BY DEF FlushFails, SignOutIsLost, At, Sends, store, screen, history
  <1>1. TypeOK'
    BY <1>0 DEF IInv, TypeOK
  <1>2. Shapes'
    BY <1>0 DEF IInv, TypeOK, Shapes
  <1>3. LogoutsAreOfEnded'
    BY <1>0 DEF IInv, LogoutsAreOfEnded
  <1>4. OthersRevokedOnlyThroughJar'
    BY <1>0 DEF IInv, TypeOK, LogoutsAreOfEnded, OthersRevokedOnlyThroughJar
  <1>. QED  BY <1>1, <1>2, <1>3, <1>4 DEF IInv

LEMMA FlushEndsKeepsIInv == IInv /\ FlushEnds => IInv'
  BY DEF FlushEnds, Idle, At, Sends, IInv, TypeOK, Shapes, LogoutsAreOfEnded,
         OthersRevokedOnlyThroughJar, cookies, store, screen, server, history

LEMMA FlushRejectsKeepsIInv == IInv /\ FlushRejects => IInv'
  BY DEF FlushRejects, Idle, At, Sends, IInv, TypeOK, Shapes,
         LogoutsAreOfEnded, OthersRevokedOnlyThroughJar, cookies, store,
         screen, server, history

LEMMA WatcherFiresKeepsIInv == IInv /\ WatcherFires => IInv'
  BY DEF WatcherFires, StartFlush, Loading, At, Sends, IInv, TypeOK, Shapes,
         LogoutsAreOfEnded, OthersRevokedOnlyThroughJar, cookies, store,
         screen, server, history

LEMMA RestartKeepsIInv ==
  ASSUME IInv, Restart PROVE IInv'
  <1>0. PICK arrived \in SUBSET OnTheWay : live' = live \ arrived
    BY DEF Restart
  <1>a. OnTheWay \subseteq {NoSession} \cup ended \cup exposed
    BY DEF OnTheWay, IInv, LogoutsAreOfEnded, Shapes
  <1>1. TypeOK'
    <2>1. live' \subseteq 1..issued'
      BY <1>0 DEF Restart, IInv, TypeOK
    <2>2. restarts' \in 0..MaxRestarts
      BY MobileConstants DEF Restart, IInv, TypeOK
    <2>3. tap' = [t \in Taps |-> Idle] /\ boot' = Loading /\ flush' = Loading
      BY DEF Restart
    <2>. QED
      BY <2>1, <2>2, <2>3
         DEF Restart, Loading, Idle, At, Sends, IInv, TypeOK, TapStates,
             cookies, store
  <1>2. Shapes'
    BY DEF Restart, Loading, Idle, At, Sends, IInv, TypeOK, Shapes, TapStates
  <1>3. LogoutsAreOfEnded'
    BY DEF Restart, Loading, Idle, At, Sends, IInv, LogoutsAreOfEnded,
           cookies, store
  <1>4. OthersRevokedOnlyThroughJar'
    BY <1>0, <1>a DEF Restart, IInv, OthersRevokedOnlyThroughJar
  <1>. QED  BY <1>1, <1>2, <1>3, <1>4 DEF IInv

-----------------------------------------------------------------------------
(* The logins and logouts.                                                  *)
LEMMA LoginKeepsIInv == ASSUME NEW t \in Taps, IInv, Login(t) PROVE IInv'
  BY DEF Login, At, Sends, IInv, TypeOK, Shapes, LogoutsAreOfEnded,
         OthersRevokedOnlyThroughJar, TapStates, cookies, store, server,
         history

LEMMA LoginPostsKeepsIInv ==
  ASSUME NEW t \in Taps, IInv, LoginPosts(t) PROVE IInv'
  BY DEF LoginPosts, Issue, At, Sends, IInv, TypeOK, Shapes,
         LogoutsAreOfEnded, OthersRevokedOnlyThroughJar, TapStates, cookies,
         store, screen, history

LEMMA LoginFailsKeepsIInv ==
  ASSUME NEW t \in Taps, IInv, LoginFails(t) PROVE IInv'
  <1>0. /\ issued' \in 0..MaxLogins /\ issued <= issued'
        /\ live' \subseteq 1..issued' /\ (1..issued') \ live' \subseteq (1..issued) \ live
    <2>. issued \in 0..MaxLogins /\ live \subseteq 1..issued
      BY DEF IInv, TypeOK
    <2>1. CASE UNCHANGED server
      BY <2>1 DEF server
    <2>2. CASE Issue
      BY <2>2, MobileConstants DEF Issue
    <2>. QED  BY <2>1, <2>2 DEF LoginFails
  <1>1. TypeOK'
    BY <1>0
       DEF LoginFails, Issue, Idle, At, Sends, IInv, TypeOK, TapStates,
           cookies, store, history
  <1>2. Shapes'
    BY DEF LoginFails, Issue, Idle, At, Sends, IInv, TypeOK, Shapes,
           TapStates, server
  <1>3. LogoutsAreOfEnded'
    BY DEF LoginFails, Issue, Idle, At, Sends, IInv, LogoutsAreOfEnded,
           cookies, store, history
  <1>4. OthersRevokedOnlyThroughJar'
    BY <1>0 DEF LoginFails, Issue, IInv, OthersRevokedOnlyThroughJar, history
  <1>. QED  BY <1>1, <1>2, <1>3, <1>4 DEF IInv

LEMMA LoginStoresKeepsIInv ==
  ASSUME NEW t \in Taps, IInv, LoginStores(t) PROVE IInv'
  BY DEF LoginStores, IInv, TypeOK, Shapes, LogoutsAreOfEnded,
         OthersRevokedOnlyThroughJar, TapStates, screen, server, history

LEMMA LoginSignsInKeepsIInv ==
  ASSUME NEW t \in Taps, IInv, LoginSignsIn(t) PROVE IInv'
  BY DEF LoginSignsIn, Idle, At, Sends, IInv, TypeOK, Shapes,
         LogoutsAreOfEnded, OthersRevokedOnlyThroughJar, TapStates, cookies,
         store, server, history

LEMMA LoginRejectsKeepsIInv ==
  ASSUME NEW t \in Taps, IInv, LoginRejects(t) PROVE IInv'
  BY DEF LoginRejects, Idle, At, Sends, IInv, TypeOK, Shapes,
         LogoutsAreOfEnded, OthersRevokedOnlyThroughJar, TapStates, cookies,
         store, server, history

LEMMA LogoutKeepsIInv == ASSUME NEW t \in Taps, IInv, Logout(t) PROVE IInv'
  BY DEF Logout, Presented, Exposes, At, Sends, IInv, TypeOK, Shapes,
         LogoutsAreOfEnded, OthersRevokedOnlyThroughJar, TapStates, cookies,
         store, server

(* A logout whose request is over, whatever came of it.                     *)
LEMMA LogoutSentKeepsIInv ==
  ASSUME IInv, NEW t \in Taps, NEW state \in {"ending", "queueing"},
         tap[t].state = "loggingOut",
         live' \in {live, live \ {tap[t].sent}}, jar' \in {jar, NoSession},
         tap' = [tap EXCEPT ![t] = At(state, tap[t].session)],
         UNCHANGED <<cookie, store, screen, boot, flush, issued, history>>
  PROVE  IInv'
  <1>0. UNCHANGED <<cookie, stored, pending, user, status, boot, flush, issued,
                    ended, exposed, displaced, restarts>>
    BY DEF store, screen, history
  <1>a. /\ tap'[t] = [state |-> state, session |-> tap[t].session,
                      sent |-> NoSession]
        /\ \A u \in Taps \ {t} : tap'[u] = tap[u]
        /\ tap[t].session \in {NoSession} \cup ended
    BY DEF At, Sends, IInv, Shapes, LogoutsAreOfEnded
  <1>1. TypeOK'
    BY <1>0, <1>a DEF IInv, TypeOK, TapStates
  <1>2. Shapes'
    BY <1>0, <1>a DEF IInv, TypeOK, Shapes, TapStates, At, Sends
  <1>3. LogoutsAreOfEnded'
    BY <1>0, <1>a DEF IInv, LogoutsAreOfEnded
  <1>4. OthersRevokedOnlyThroughJar'
    BY <1>0 DEF IInv, TypeOK, LogoutsAreOfEnded, OthersRevokedOnlyThroughJar
  <1>. QED  BY <1>1, <1>2, <1>3, <1>4 DEF IInv

LEMMA LogoutPostsKeepsIInv ==
  ASSUME NEW t \in Taps, IInv, LogoutPosts(t) PROVE IInv'
  BY LogoutSentKeepsIInv DEF LogoutPosts, SignOutArrives

LEMMA LogoutFailsKeepsIInv ==
  ASSUME NEW t \in Taps, IInv, LogoutFails(t) PROVE IInv'
  BY LogoutSentKeepsIInv DEF LogoutFails, SignOutIsLost

LEMMA LogoutQueuesKeepsIInv ==
  ASSUME NEW t \in Taps, IInv, LogoutQueues(t) PROVE IInv'
  BY DEF LogoutQueues, cookies, IInv, TypeOK, Shapes, LogoutsAreOfEnded,
         OthersRevokedOnlyThroughJar, TapStates, screen, server

LEMMA LogoutFlushesKeepsIInv ==
  ASSUME NEW t \in Taps, IInv, LogoutFlushes(t) PROVE IInv'
  BY DEF LogoutFlushes, StartFlush, Loading, At, Sends, IInv, TypeOK, Shapes,
         LogoutsAreOfEnded, OthersRevokedOnlyThroughJar, TapStates, cookies,
         store, screen, server, history

LEMMA LogoutClearsKeepsIInv ==
  ASSUME NEW t \in Taps, IInv, LogoutClears(t) PROVE IInv'
  BY DEF LogoutClears, cookies, IInv, TypeOK, Shapes, LogoutsAreOfEnded,
         OthersRevokedOnlyThroughJar, TapStates, screen, server, history

LEMMA LogoutSignsOutKeepsIInv ==
  ASSUME NEW t \in Taps, IInv, LogoutSignsOut(t) PROVE IInv'
  BY DEF LogoutSignsOut, SignsOut, Idle, At, Sends, IInv, TypeOK, Shapes,
         LogoutsAreOfEnded, OthersRevokedOnlyThroughJar, TapStates, cookies,
         store, server, history

LEMMA LogoutRejectsKeepsIInv ==
  ASSUME NEW t \in Taps, IInv, LogoutRejects(t) PROVE IInv'
  BY DEF LogoutRejects, Idle, At, Sends, IInv, TypeOK, Shapes,
         LogoutsAreOfEnded, OthersRevokedOnlyThroughJar, TapStates, cookies,
         store, screen, server, history

-----------------------------------------------------------------------------
LEMMA TapStepKeepsIInv ==
  ASSUME NEW t \in Taps, IInv, TapStep(t) PROVE IInv'
  BY LoginPostsKeepsIInv, LoginFailsKeepsIInv, LoginStoresKeepsIInv,
     LoginSignsInKeepsIInv, LoginRejectsKeepsIInv, LogoutPostsKeepsIInv,
     LogoutFailsKeepsIInv, LogoutQueuesKeepsIInv, LogoutFlushesKeepsIInv,
     LogoutClearsKeepsIInv, LogoutSignsOutKeepsIInv, LogoutRejectsKeepsIInv
     DEF TapStep

(* Every step of the app and of the server keeps the inductive invariant.   *)
LEMMA StepKeepsIInv == IInv /\ [Next]_vars => IInv'
  <1> SUFFICES ASSUME IInv, [Next]_vars PROVE IInv'
    OBVIOUS
  <1>1. CASE BootStep
    BY <1>1, HydrateLoadsKeepsIInv, HydrateSignsInKeepsIInv,
       HydrateDropsKeepsIInv, HydrateSignsOutKeepsIInv,
       HydrateRejectsKeepsIInv
       DEF BootStep
  <1>2. CASE FlushStep
    BY <1>2, FlushLoadsKeepsIInv, FlushPostsKeepsIInv, FlushClearsKeepsIInv,
           FlushFailsKeepsIInv, FlushEndsKeepsIInv, FlushRejectsKeepsIInv DEF
          FlushStep
  <1>3. ASSUME NEW t \in Taps, Login(t) \/ Logout(t) \/ TapStep(t) PROVE IInv'
    BY <1>3, LoginKeepsIInv, LogoutKeepsIInv, TapStepKeepsIInv
  <1>4. CASE WatcherFires \/ Restart
    BY <1>4, WatcherFiresKeepsIInv, RestartKeepsIInv
  <1>5. CASE UNCHANGED vars
    BY <1>5
       DEF vars, IInv, TypeOK, Shapes, LogoutsAreOfEnded,
           OthersRevokedOnlyThroughJar
  <1>. QED  BY <1>1, <1>2, <1>3, <1>4, <1>5 DEF Next

(* The inductive invariant holds in every reachable state.                  *)
THEOREM SessionInvariance == Spec => []IInv
  <1>1. Init => IInv  BY InitEstablishesIInv
  <1>2. IInv /\ [Next]_vars => IInv'  BY StepKeepsIInv
  <1>. QED  BY <1>1, <1>2, PTL DEF Spec

(* Cookies, slots and requests only ever carry sessions the server issued.  *)
THEOREM SessionTypeCorrect == Spec => []TypeOK
  <1>1. IInv => TypeOK  BY DEF IInv
  <1>. QED  BY <1>1, SessionInvariance, PTL

(* Whatever flushes, sign-ins and logouts overlap, a session the app was    *)
(* not signed in with when somebody tapped "sign out" ends only if the      *)
(* platform's jar put it into a request that named another                  *)
(* (AuthContext.tsx:71-107, 179-225; api-client.ts:65-86).                  *)
THEOREM NoOtherSessionEnds == Spec => []OthersRevokedOnlyThroughJar
  <1>1. IInv => OthersRevokedOnlyThroughJar  BY DEF IInv
  <1>. QED  BY <1>1, SessionInvariance, PTL
=============================================================================
