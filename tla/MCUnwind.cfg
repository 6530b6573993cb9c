CONSTANTS
  MaxFrames = 5
  Tags <- TwoTags
  Abandons = FALSE
SPECIFICATION FairSpec
INVARIANTS TypeOK EnvMirrorsFrames
PROPERTIES ImplementsDynamicExtent ExitEnds
