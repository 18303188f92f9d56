SPECIFICATION FairSpec
CONSTANTS
  suite = suite
  warmup = warmup
  one = one
  two = two
  NoBox = NoBox
  Procs = {suite, warmup}
  Boxes = {one, two}
  Backends = {"docker", "colima"}
  Attempts = 2
INVARIANTS
  TypeOK
  CurrentExists
  DestroyedIsGone
PROPERTIES
  EnsureSettles
  HostComesUp
