CONSTANTS
  a1 = a1
  a2 = a2
  p1 = p1
  p2 = p2
  ann = ann
  bob = bob
  q1 = q1
  q2 = q2
  NoOne = NoOne
  Reads = {r1, r2}
  Profiles = {p1, p2}
  Alerts = {a1, a2}
  People = {ann, bob}
  Changes = {q1, q2}
  Viewers <- MCViewers
  ProfileOf <- MCProfileOf
  BodiesOf <- MCBodiesOf
  MaxFailures = 1
SYMMETRY MCSymmetry
SPECIFICATION Spec
INVARIANTS
  TypeOK
  FreshAfterInvalidation
  LostOnlyToOverlap
  AssigneeIsExplained
PROPERTY ImplementsReads
CHECK_DEADLOCK FALSE
