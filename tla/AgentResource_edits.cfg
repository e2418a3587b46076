CONSTANTS
  p1 = p1
  p2 = p2
  u1 = u1
  u2 = u2
  u3 = u3
  None = None
  Pods = {p1, p2}
  Uuids = {u1, u2, u3}
  MaxEdits = 1
SPECIFICATION FairSpec
INVARIANTS
  TypeOK
  PodsShareSecret
PROPERTIES
  PodsStayStartable
  AgentIsRendered
