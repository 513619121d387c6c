CONSTANTS
  w1 = w1 w2 = w2
  Watchers = {w1, w2} Observed = {w1} None = none
  Commands = {} MaxMishaps = 0
SPECIFICATION FairSpec
PROPERTIES EndsWithTap Interruptible
CHECK_DEADLOCK FALSE
