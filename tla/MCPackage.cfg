CONSTANTS
  p1 = p1
  p2 = p2
  p3 = p3
  n1 = n1
  s1 = s1
  s2 = s2
  NoSymbol = NoSymbol
  NoPackage = NoPackage
  Packages <- ThreePackages
  Names <- OneName
  Symbols <- TwoSymbols
  NameOf <- AllNamed
  MayUse <- FourLinks
  Locked <- OneLocked
  UnexportsAny = FALSE
SPECIFICATION FairSpec
INVARIANTS TypeOK UsesMirror Unambiguous SymbolsPresent
PROPERTIES MeaningKept CallEnds
