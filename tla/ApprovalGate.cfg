SPECIFICATION Spec
CONSTANTS
  Versions = {v1, v2}
  Approvers = {a1}
  Fires = {f1}
  Policies = {"gated", "disabled"}
  Events = {"crash", "saveFails", "armFails", "lockLost", "dbLost", "remove"}
  MaxEdits = 1
  MaxMishaps = 2
  NoVersion = NoVersion
  NoHash = NoHash
INVARIANTS OnlyReviewed WindowStaysShut
PROPERTIES StaysHeld
CHECK_DEADLOCK FALSE
SYMMETRY Symmetry
