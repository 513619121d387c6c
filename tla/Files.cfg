CONSTANTS
  Procs = {p1, p2} Keys = {a, b} Values = {1} Triggers = {t, u} Specs = {x}
  None = none Garbage = garbage Docs = 2
  MaxChanges = 2 MaxFailures = 1 MaxBreaks = 1 MaxKills = 1 MaxFaults = 1
SPECIFICATION FilesSpec
INVARIANTS FilesTypeOK CacheWhole
PROPERTIES ManifestIsStore ConfigIsStore
SYMMETRY Symmetry
