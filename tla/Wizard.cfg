CONSTANTS
  Manifest <- MCManifest Registry <- MCRegistry Junk <- MCJunk Values <- MCValues
  Edits <- MCEdits Height <- MCHeight
  Operations = {"delete", "store"} Eaten = {"e"} Bounded = TRUE MaxNesting = 3
SPECIFICATION Spec
INVARIANTS TypeOK FreezesOnlyAfterSlip FailsOnlyAfterSlip PathIsKeyPath SavedForItsSource SavedForItsTarget ReplacesWhatItShowed
PROPERTIES KeepsOperations
CHECK_DEADLOCK FALSE
