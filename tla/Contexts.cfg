CONSTANTS
  x = x y = y z = z c = c
  Brokers <- MCBrokers Components = {c} Rank <- MCRank
  None = none MaxFaults = 1 MaxKills = 1 MaxMistakes = 1
SPECIFICATION Spec
INVARIANTS TypeOK NoOrphans CurrentBrokerExists CreateCompletes
PROPERTIES BrokersApart
