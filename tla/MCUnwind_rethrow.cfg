CONSTANTS
  MaxFrames = 5
  Tags <- TwoTags
  Abandons = TRUE
SPECIFICATION FairSpec
PROPERTIES RethrowsCaught
CHECK_DEADLOCK FALSE
