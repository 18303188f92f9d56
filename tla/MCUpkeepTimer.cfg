SPECIFICATION FairSpec
CONSTANTS
  svc = svc
  tmr = tmr
  aux = aux
  v1 = v1
  v2 = v2
  app = app
  peer = peer
  ours = ours
  theirs = theirs
  Units <- TimerUnits
  Versions = {v1, v2}
  Target <- TimerTarget
  LinkUnits = TRUE
  Apps = {app}
  Owners = {ours}
  OwnerOf <- OneOwner
  Requests <- TimerRequests
  Faulty = TRUE
  Unreadable = TRUE
INVARIANTS
  TypeOK
  Installed
  InEffect
  DetachLeavesNothing
  RestartedRunsNew
PROPERTIES
  KeepsPromise
  TakesDownOnlyOwned
  RetryConvergesOrStranded
