CONSTANTS
  k1 = k1
  k2 = k2
  v1 = v1
  v2 = v2
  mapper = mapper
  NoKey = NoKey
  Deleted = Deleted
  Absent = Absent
  Keys <- TwoKeys
  Values <- TwoValues
  Mappers <- OneMapper
  Hash <- Colliding
  GrowNum = 1
  GrowDen = 1
  GrowBy = 1
  MinSize = 2
  Num = 1
  Den = 2
SPECIFICATION FairSpec
INVARIANTS TypeOK TableInv MaphashOnce
PROPERTIES ImplementsDictionary RehashEnds
