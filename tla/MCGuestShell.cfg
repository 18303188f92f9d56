SPECIFICATION FairSpec
CONSTANTS
  probe = probe
  list = list
  stop = stop
  Commands = {probe, list, stop}
  Timed = {probe}
  Hanging = {probe}
  Failing = {list}
  MaxShells = 2
  Fragile = TRUE
INVARIANTS
  TypeOK
  ResultIsOwn
  Accounted
  WarmIsLive
PROPERTIES
  Settles
CHECK_DEADLOCK FALSE
