SPECIFICATION Spec
CONSTANTS
  a1 = a1
  a2 = a2
  r1 = r1
  r2 = r2
  u1 = u1
  Users = {a1, a2}
  Start <- TwoAdmins
  Requests = {r1, r2}
  Ops = {"deactivate"}
INVARIANTS AnAdminRemains
