SPECIFICATION FairSpec
CONSTANTS
  Clients = {c1, c2}
  Finders = {f1}
  Listeners = {l1, l2, l3, l4}
  NoListener = NoListener
  CancelHandOff = FALSE
  Hasty = {c2}
INVARIANTS
  TypeOK
  UsersCounted
  OneBoundSocket
  HolderHears
  NoStrayHandler
  PatientLetsGo
PROPERTIES
  ImplementsPort
  StartsEnd
  ClosesEnd
  ClosingFreesPort
