---------------------------- MODULE AlertLifecycle ----------------------------
(***************************************************************************)
(* Alerts of the overseas API (routes/alerts.ts, lib/alerts-store.ts) and  *)
(* the dashboard cache their mutations invalidate: requests that create an *)
(* alert, acknowledge, assign, resolve or comment it, interleaved at their *)
(* awaits with each other and with the reads of module DashboardCache.     *)
(*                                                                         *)
(* An update reads the whole row, changes some of its columns in memory    *)
(* and writes all of them back, so overlapping updates overwrite each      *)
(* other.  The row and its comment are written in one transaction; the     *)
(* audit entry and the bumps of the cache tokens follow, one statement     *)
(* each.  Alerts and comments are never deleted.                           *)
(***************************************************************************)
EXTENDS DashboardCache

CONSTANTS
  Alerts,      (* alert ids                                                 *)
  ProfileOf,   (* the profile of each alert                                 *)
  People,      (* who an alert may be assigned to                           *)
  NoOne,       (* assigned_to IS NULL                                       *)
  BodiesOf     (* what each request may ask for; its domain: the requests   *)

Requests == DOMAIN BodiesOf

Statuses == {"open", "acknowledged", "resolved"}
Actions == {"create", "acknowledge", "assign", "resolve", "comment"}

(* A request body.  The status and acknowledged fields are those of a new   *)
(* alert; comment tells whether there is a comment text.  The schemas       *)
(* (schemas/alerts.ts) let only a creation, an acknowledgement and an       *)
(* assignment name somebody, and an assignment has to.                      *)
Bodies == [action : Actions, alert : Alerts, assignee : People \cup {NoOne},
           comment : BOOLEAN, status : Statuses, acknowledged : BOOLEAN]

(* The columns the lifecycle changes; acknowledged: acknowledged_at is set. *)
Rows == [status : Statuses, acknowledged : BOOLEAN,
         assignee : People \cup {NoOne}]

ASSUME AlertConstants ==
  /\ ProfileOf \in [Alerts -> Profiles]
  /\ NoOne \notin People
  /\ Changes = Requests
  /\ \A q \in Requests : BodiesOf[q] \subseteq Bodies
  /\ \A q \in Requests : \A b \in BodiesOf[q] :
       /\ b.action = "assign" => b.assignee # NoOne
       /\ b.action \in {"resolve", "comment"} => b.assignee = NoOne

VARIABLES
  alerts,   (* table alerts: the row of each alert that exists              *)
  comments, (* table alert_comments: the alert and the assignee of each     *)
  audited,  (* table audit_trail: the requests it has an entry of           *)
  request,  (* each request: its state, its body, the row it has read and   *)
            (* the scopes it has yet to bump                                *)
  origin,   (* history: whom each alert was assigned to when created        *)
  seen,     (* history: the requests committed when a request read the row  *)
  lost      (* history: the requests committed between its read and write   *)

tables == <<alerts, comments, audited, origin>>
history == <<seen, lost>>
vars == <<version, cache, read, committed, invalidated, failures,
          alerts, comments, audited, request, origin, seen, lost>>

-----------------------------------------------------------------------------
NoBody == [action |-> "none"]
NoRow == [status |-> "none"]

Waiting == [state |-> "waiting", body |-> NoBody, row |-> NoRow, bumps |-> {}]

NewRow == [status |-> "open", acknowledged |-> FALSE, assignee |-> NoOne]

(* Some alerts are open as the system starts to be watched.                 *)
Init ==
  /\ CacheInit
  /\ \E old \in SUBSET Alerts :
       /\ alerts = [a \in old |-> NewRow]
       /\ origin = [a \in old |-> NoOne]
  /\ comments = {}
  /\ audited = {}
  /\ request = [q \in Requests |-> Waiting]
  /\ seen = [q \in Requests |-> {}]
  /\ lost = [q \in Requests |-> {}]

Body(q) == request[q].body

(* Slip: the admins' token is left alone.                                   *)
ProfileToBump(alert) == {ProfileOf[alert]}

ScopesToBump(alert) == ScopesOf({ProfileOf[alert]})

(* f with the value v at x, whether or not x is in its domain.              *)
With(f, x, v) == [y \in DOMAIN f \cup {x} |-> IF y = x THEN v ELSE f[y]]

-----------------------------------------------------------------------------
(* handleCreateAlertRecord(): 409 when the id is taken, else the INSERT,    *)
(* after which only the cache is left to do.                                *)
Create(q) ==
  /\ request[q].state = "waiting"
  /\ \E b \in BodiesOf[q] :
       /\ b.action = "create"
       /\ \/ /\ b.alert \in DOMAIN alerts
             /\ request' = [request EXCEPT ![q].state = "finished",
                                           ![q].body = b]
             /\ UNCHANGED <<alerts, origin, committed>>
          \/ /\ b.alert \notin DOMAIN alerts
             /\ alerts' = With(alerts, b.alert,
                              [status |-> b.status,
                               acknowledged |-> b.acknowledged,
                               assignee |-> b.assignee])
             /\ origin' = With(origin, b.alert, b.assignee)
             /\ committed' = committed \cup {q}
             /\ request' = [request EXCEPT ![q] =
                  [state |-> "bumping", body |-> b, row |-> NoRow,
                   bumps |-> ScopesToBump(b.alert)]]
  /\ UNCHANGED <<version, cache, read, invalidated, failures, comments, audited,
                 history>>

(* Slip: the comment route does not look whether the alert is there.        *)
LoadUnchecked(q) ==
  /\ request[q].state = "waiting"
  /\ \E b \in BodiesOf[q] :
       /\ b.action # "create"
       /\ request' = [request EXCEPT ![q] =
            IF b.alert \in DOMAIN alerts
            THEN [state |-> "loaded", body |-> b, row |-> alerts[b.alert],
                  bumps |-> {}]
            ELSE [state |-> IF b.action = "comment" THEN "loaded"
                            ELSE "finished",
                  body |-> b, row |-> NoRow, bumps |-> {}]]
  /\ seen' = [seen EXCEPT ![q] = committed]
  /\ UNCHANGED <<version, cache, read, committed, invalidated, failures, tables,
                 lost>>

(* The other requests: 404, or updateAlertLifecycle() reads the row (for a  *)
(* comment the row only shows that the alert is there).                     *)
Load(q) ==
  /\ request[q].state = "waiting"
  /\ \E b \in BodiesOf[q] :
       /\ b.action # "create"
       /\ request' = [request EXCEPT ![q] =
            IF b.alert \in DOMAIN alerts
            THEN [state |-> "loaded", body |-> b, row |-> alerts[b.alert],
                  bumps |-> {}]
            ELSE [state |-> "finished", body |-> b, row |-> NoRow,
                  bumps |-> {}]]
  /\ seen' = [seen EXCEPT ![q] = committed]
  /\ UNCHANGED <<version, cache, read, committed, invalidated, failures, tables,
                 lost>>

(* Slip: an acknowledgement takes back a resolution.                        *)
UpdatedReopens(row, b) ==
  [status |-> CASE b.action = "resolve" -> "resolved"
                [] b.action = "acknowledge" -> "acknowledged"
                [] OTHER -> row.status,
   acknowledged |-> row.acknowledged \/ b.action \in {"acknowledge", "resolve"},
   assignee |-> IF b.action \in {"acknowledge", "assign"} /\ b.assignee # NoOne
                THEN b.assignee ELSE row.assignee]

(* The row updateAlertLifecycle() writes, made from the one it has read.    *)
Updated(row, b) ==
  [status |-> CASE b.action = "resolve" -> "resolved"
                [] b.action = "acknowledge" /\ row.status # "resolved"
                     -> "acknowledged"
                [] OTHER -> row.status,
   acknowledged |-> row.acknowledged \/ b.action \in {"acknowledge", "resolve"},
   assignee |-> IF b.action \in {"acknowledge", "assign"} /\ b.assignee # NoOne
                THEN b.assignee ELSE row.assignee]

(* Whom the comment inserted along with the update names, if there is one.  *)
CommentsOf(b) ==
  IF b.comment \/ b.assignee # NoOne THEN {<<b.alert, b.assignee>>} ELSE {}

(* Slip: the UPDATE is committed by itself and its comment left behind.     *)
CommitRowOnly(q) ==
  /\ request[q].state = "loaded"
  /\ Body(q).action # "comment"
  /\ alerts' = With(alerts, Body(q).alert, Updated(request[q].row, Body(q)))
  /\ comments' \in {comments, comments \cup CommentsOf(Body(q))}
  /\ lost' = [lost EXCEPT ![q] = committed \ seen[q]]
  /\ committed' = committed \cup {q}
  /\ request' = [request EXCEPT ![q].state = "committed"]
  /\ UNCHANGED <<version, cache, read, invalidated, failures, audited, origin,
                 seen>>

(* The transaction of an update: all columns and the comment, or neither.   *)
CommitUpdate(q) ==
  /\ request[q].state = "loaded"
  /\ Body(q).action # "comment"
  /\ alerts' = With(alerts, Body(q).alert, Updated(request[q].row, Body(q)))
  /\ comments' = comments \cup CommentsOf(Body(q))
  /\ lost' = [lost EXCEPT ![q] = committed \ seen[q]]
  /\ committed' = committed \cup {q}
  /\ request' = [request EXCEPT ![q].state = "committed"]
  /\ UNCHANGED <<version, cache, read, invalidated, failures, audited, origin,
                 seen>>

(* The transaction of addAlertComment(): a comment, and updated_at.         *)
CommitComment(q) ==
  /\ request[q].state = "loaded"
  /\ Body(q).action = "comment"
  /\ comments' = comments \cup {<<Body(q).alert, NoOne>>}
  /\ committed' = committed \cup {q}
  /\ request' = [request EXCEPT ![q].state = "committed"]
  /\ UNCHANGED <<version, cache, read, invalidated, failures, alerts, audited,
                 origin, history>>

(* recordAlertAudit(), then the scopes to bump are known.                   *)
Audit(q) ==
  /\ request[q].state = "committed"
  /\ audited' = audited \cup {q}
  /\ request' = [request EXCEPT ![q].state = "bumping",
                                ![q].bumps = ScopesToBump(Body(q).alert)]
  /\ UNCHANGED <<version, cache, read, committed, invalidated, failures, alerts,
                 comments, origin, history>>

(* invalidateClientDashboardCache(): one statement for each scope, "admin"  *)
(* first; after the last one the request is answered.                       *)
BumpScope(q) ==
  /\ request[q].state = "bumping"
  /\ \E scope \in request[q].bumps :
       /\ Admin \in request[q].bumps => scope = Admin
       /\ Bump(scope)
       /\ LET left == request[q].bumps \ {scope}
          IN  /\ request' = [request EXCEPT ![q].bumps = left,
                    ![q].state = IF left = {} THEN "finished" ELSE "bumping"]
              /\ invalidated' = IF left = {} THEN invalidated \cup {q}
                                ELSE invalidated
  /\ UNCHANGED <<cache, read, committed, failures, tables, history>>

(* A statement fails.  Before the commit nothing has happened; after it the *)
(* change stays, and the rest - audit entry, bumps - is not made up for:    *)
(* an audit that fails is answered with an error, a bump only logged.       *)
StatementFails(q) ==
  /\ request[q].state \in {"loaded", "committed", "bumping"}
  /\ Fails
  /\ request' = [request EXCEPT ![q].state = "finished", ![q].bumps = {}]
  /\ UNCHANGED <<version, cache, read, committed, invalidated, tables, history>>

-----------------------------------------------------------------------------
RequestStep(q) == Create(q) \/ Load(q) \/ CommitUpdate(q) \/ CommitComment(q)
                  \/ Audit(q) \/ BumpScope(q) \/ StatementFails(q)

Next ==
  \/ \E q \in Requests : RequestStep(q)
  \/ CacheStep /\ UNCHANGED <<tables, request, history>>

Spec == Init /\ [][Next]_vars

-----------------------------------------------------------------------------
TypeOK ==
  /\ CacheTypeOK
  /\ DOMAIN alerts \subseteq Alerts /\ alerts \in [DOMAIN alerts -> Rows]
  /\ DOMAIN origin = DOMAIN alerts
  /\ \A c \in comments : c[1] \in DOMAIN alerts /\ c[2] \in People \cup {NoOne}
  /\ audited \subseteq committed
  /\ \A q \in Requests :
       /\ request[q].state \in {"waiting", "loaded", "committed", "bumping",
                                "finished"}
       /\ request[q].bumps \subseteq Scopes
       /\ request[q].bumps # {} <=> request[q].state = "bumping"
       /\ seen[q] \subseteq Requests /\ lost[q] \subseteq Requests

(* The committed updates of an alert, and those that name an assignee.      *)
UpdatesOf(a) ==
  {q \in committed :
     /\ Body(q).alert = a
     /\ Body(q).action \in {"acknowledge", "assign", "resolve"}}
AssignmentsOf(a) == {q \in UpdatesOf(a) : Body(q).assignee # NoOne}

(* What a committed update has done to its alert is undone only by an       *)
(* update that read the row before and wrote it after: a resolved alert     *)
(* stays resolved, an acknowledged one acknowledged, and an assignment      *)
(* holds until the next one, whatever else is done in between               *)
(* (alerts-store.ts:313-372).                                               *)
LostOnlyToOverlap ==
  \A a \in DOMAIN alerts : \A q \in UpdatesOf(a) :
    \/ \E w \in UpdatesOf(a) : q \in lost[w]
    \/ /\ Body(q).action = "resolve" => alerts[a].status = "resolved"
       /\ Body(q).action # "assign" => alerts[a].acknowledged
       /\ q \in AssignmentsOf(a) =>
            \/ alerts[a].assignee = Body(q).assignee
            \/ \E w \in AssignmentsOf(a) : q \in seen[w]

(* Whoever an alert is assigned to was named when it was created or in a    *)
(* comment of its history, also when statements fail and updates overwrite  *)
(* each other (alerts-store.ts:337-352, 381-423).                           *)
AssigneeIsExplained ==
  \A a \in DOMAIN alerts :
    alerts[a].assignee \in {NoOne, origin[a]}
      \/ <<a, alerts[a].assignee>> \in comments

(* What the reads of the dashboard and the changes of the alerts show to    *)
(* each other: the changes made and settled, and each read from its tokens  *)
(* to its answer.                                                           *)
Reading == [r \in Reads |->
              IF read[r].state \in {"lookingUp", "querying", "storing"}
              THEN "pending" ELSE read[r].state]
Due == [r \in Reads |-> read[r].expected]
Shown == [r \in Reads |->
            IF read[r].state = "answered" THEN read[r].payload ELSE {}]

Current == INSTANCE CurrentReads WITH
             made <- committed, settled <- invalidated,
             reading <- Reading, due <- Due, answer <- Shown

(* The tokens make the cache invisible: a read is answered with changes     *)
(* that have been committed, all those among them whose bumps were over     *)
(* when it began, whichever entry of whichever request it is answered with  *)
(* (dashboard-cache.ts:79-124, client.ts:188-206, 439-441).                 *)
ImplementsReads == Current!ReadsSpec
=============================================================================
