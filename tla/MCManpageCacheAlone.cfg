SPECIFICATION FairSpec
CONSTANTS
  first = first
  Runs = {first}
  Served = {"corrupt", "hollow"}
  Faulty = TRUE
  Tearing = TRUE
INVARIANTS
  TypeOK
  TarballComplete
  TreeValidated
PROPERTIES
  SuccessIsCached
  RecoversUnlessPoisoned
