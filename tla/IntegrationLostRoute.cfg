CONSTANTS
  t1 = t1 x1 = x1 s1 = s1 b0 = b0 a = a b = b all = all n1 = n1
  p1 = p1 p2 = p2 p3 = p3 p4 = p4 none = none
  Targets = {t1} Transformations = {x1} Sources = {} Broker = b0
  Types = {a, b} Patterns = {a} NoFilter = all
  ExpectedType <- MCExpected OwnType <- MCOwnType
  UserNames = {} Prefixed <- MCPrefixed
  Specs = {1} Ports = {p1, p2, p3, p4} None = none
  MaxTriggers = 3 MaxFaults = 0 MaxKills = 0 MaxExits = 0
SPECIFICATION Spec
INVARIANTS OutputRouted

