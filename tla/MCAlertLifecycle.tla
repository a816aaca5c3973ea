--------------------------- MODULE MCAlertLifecycle ---------------------------
(* Two alerts of two profiles and three requests, each with a few bodies:   *)
(* a resolution or a comment; an acknowledgement with and without an        *)
(* assignee; an assignment or the creation of an alert that may exist.      *)
EXTENDS AlertLifecycle, TLC

CONSTANTS a1, a2, p1, p2, ann, bob, q1, q2

MCProfileOf == [a \in Alerts |-> IF a = a1 THEN p1 ELSE p2]

MCSymmetry == Permutations(Reads)

MCViewers == {{}, {p1}}

MCBody(action, alert, assignee, comment) ==
  [action |-> action, alert |-> alert, assignee |-> assignee,
   comment |-> comment, status |-> "open", acknowledged |-> FALSE]

MCBodiesOf ==
  [q \in {q1, q2} |->
     IF q = q1
     THEN {MCBody("resolve", a1, NoOne, FALSE), MCBody("comment", a1, NoOne, TRUE),
           MCBody("acknowledge", a1, ann, FALSE), MCBody("create", a2, ann, FALSE)}
     ELSE {MCBody("acknowledge", a1, NoOne, TRUE), MCBody("assign", a1, bob, FALSE),
           MCBody("resolve", a2, NoOne, TRUE), MCBody("create", a1, ann, FALSE)}]
=============================================================================
