SPECIFICATION FlowFairSpec
CONSTANTS
  Entries = {e1, e2}
  Used = {e1}
  Flows = {f1}
INVARIANTS
  FlowTypeOK
  NothingHeld
  FoundByServices
  ReadyMeansSubscribed
  NotOffered
PROPERTIES
  ChangeApplies
  OnlyReconfigured
