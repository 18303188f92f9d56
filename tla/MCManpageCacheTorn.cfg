SPECIFICATION FairSpec
CONSTANTS
  first = first
  Runs = {first}
  Served = {}
  Faulty = TRUE
  Tearing = TRUE
PROPERTIES
  Recovers
