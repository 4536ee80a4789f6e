SPECIFICATION FairSpec
CONSTANTS
  Nil = Nil
  Clients = {c1, c2}
  Settings <- MCSettings
INVARIANTS
    PlansSound
    HonestStatus
PROPERTIES
    OthersKept
    CallsEnd
CHECK_DEADLOCK FALSE
