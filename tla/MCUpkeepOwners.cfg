SPECIFICATION Spec
CONSTANTS
  svc = svc
  tmr = tmr
  aux = aux
  v1 = v1
  v2 = v2
  app = app
  peer = peer
  ours = ours
  theirs = theirs
  Units = {svc, aux}
  Versions = {v1, v2}
  Target <- NoTarget
  LinkUnits = FALSE
  Apps = {app, peer}
  Owners = {ours, theirs}
  OwnerOf <- TwoOwners
  Requests <- OwnersRequests
  Faulty = TRUE
  Unreadable = TRUE
INVARIANTS
  Inv
PROPERTIES
  OthersUntouched
