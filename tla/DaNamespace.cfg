SPECIFICATION FairSpec
CONSTANTS
  Branches <- MCBranches
  Root = "root"
  Parent <- MCParent
  Label <- MCLabel
  Depth <- MCDepth
  Height = 2
  Items <- MCItems
  In <- MCIn
  Flat = FALSE
  Refusals = TRUE
  RefusedDowns = 2
  PageSize = 2
  Word = 32
INVARIANTS
  RecursionBounded
  EveryNameOnce
  PagesAreWhole
PROPERTY
  NamesCome
