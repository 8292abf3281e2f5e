SPECIFICATION Spec
CONSTANT None = None
INVARIANTS
  ArmedAsRegistered
  StoredIsKept
  LoginsAreCurrent
  AuthoringHolds
  RunsEndWhole
  
  ConfigAgrees
  HooksAreServed
  CallsAreGranted
  CommandsAreServed
  EnvIsWhole
  ReviewIsExact
PROPERTIES
  ReloadKeeps
CHECK_DEADLOCK FALSE
