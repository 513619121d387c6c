CONSTANTS
  t1 = t1 x1 = x1 s1 = s1 b0 = b0 a = a b = b all = all n1 = n1
  p1 = p1 p2 = p2 p3 = p3 p4 = p4 none = none
  Targets = {t1} Transformations = {} Sources = {} Broker = b0
  Types = {a, b} Patterns = {} NoFilter = all
  ExpectedType <- MCExpected OwnType <- MCOwnType
  UserNames = {n1} Prefixed <- MCPrefixed
  Specs = {1} Ports = {p1, p2, p3} None = none
  MaxTriggers = 2 MaxFaults = 1 MaxKills = 0 MaxExits = 0
SPECIFICATION FairSpec
INVARIANTS NamedTriggersExact
PROPERTIES CommandEnds
