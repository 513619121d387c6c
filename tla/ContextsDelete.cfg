CONSTANTS
  x = x y = y z = z c = c
  Brokers <- MCThreeBrokers Components = {c} Rank <- MCRank
  None = none MaxFaults = 0 MaxKills = 0 MaxMistakes = 0
SPECIFICATION Spec
PROPERTIES SwitchOnlyCurrent
