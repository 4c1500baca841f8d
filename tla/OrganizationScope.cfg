SPECIFICATION ScopeSpec
CONSTANTS
  Orgs = {o1}
  Plants = {p1, p2}
  Areas = {a1, a2}
  Devices = {d1}
  Principals = {u1}
  Wildcards = {}
  Requests = {r1}
  Unused = Unused
  Gone = Gone
  NoArea = NoArea
INVARIANT AdmittedBelowBinding ReachIsSubtree
