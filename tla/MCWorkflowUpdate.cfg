SPECIFICATION FairSpec
CONSTANTS
  checkout = checkout
  miseAction = miseAction
  mise = mise
  old = old
  older = older
  None = None
  Asked = Asked
  NoTag = NoTag
  NoRef = NoRef
  Files = {1, 2}
  Original <- MCJobs
  MiseAction = miseAction
  Mise = mise
  Releases <- MCReleases
  Published <- MCPublished
  MaxMoves = 1
INVARIANTS
  TypeOK
  Pinned
PROPERTIES
  NeverBack
  OnlyMiseVersions
  VersionsConverge
