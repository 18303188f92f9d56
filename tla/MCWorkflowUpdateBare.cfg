SPECIFICATION Spec
CONSTANTS
  checkout = checkout
  miseAction = miseAction
  mise = mise
  old = old
  older = older
  None = None
  Asked = Asked
  NoTag = NoTag
  NoRef = NoRef
  Files = {1}
  Original <- MCBare
  MiseAction = miseAction
  Mise = mise
  Releases <- MCReleases
  Published <- MCPublished
  MaxMoves = 1
PROPERTIES
  OnlyMiseVersions
