CONSTANTS
  w1 = w1 w2 = w2
  Watchers = {w1, w2} Observed = {} None = none
  Commands = {"stop", "start", "delete broker"} MaxMishaps = 1
SPECIFICATION Spec
INVARIANTS TypeOK CleansUp TapIsFed
PROPERTIES PanicsLate
SYMMETRY WatcherSymmetry
CHECK_DEADLOCK FALSE
