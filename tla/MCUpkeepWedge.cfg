SPECIFICATION FairSpec
CONSTANTS
  svc = svc
  tmr = tmr
  aux = aux
  v1 = v1
  v2 = v2
  app = app
  peer = peer
  ours = ours
  theirs = theirs
  Units = {svc, aux}
  Versions = {v1, v2}
  Target <- NoTarget
  LinkUnits = FALSE
  Apps = {app}
  Owners = {ours}
  OwnerOf <- OneOwner
  Requests <- ShrinkRequests
  Faulty = TRUE
  Unreadable = FALSE
PROPERTIES
  RetryConverges
