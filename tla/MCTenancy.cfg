SPECIFICATION Spec
CONSTANTS
  Projects = {p1}
  Invitations = {i1, i2}
  Requests = {q1, q2}
  Workers = {w1, w2}
  MaxFailures = 1
  Users = {u1, u2, u3}
  Creator = u1
  Changes = {t1, t2}
  Orgs = {o1, o2}
  Home = o1
  Rows = {r1, r2}
  Txs = {t1, t2}
  Writers = {w1}
CHECK_DEADLOCK FALSE
INVARIANTS
  ProjectSafe
  MembersSafe
  
PROPERTIES
  ProjectSteps
  OtherOrgOnlyOvertaken
  EventuallyPurged
