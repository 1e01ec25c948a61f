SPECIFICATION FairSpec
CONSTANTS
  t1 = t1
  t2 = t2
  Types = {t1, t2}
  Alphabet <- MCAlphabet
  Whitespace <- MCWhitespace
  UserNames <- MCUserNames
  Chars <- MCChars
  RootName <- MCRootName
  MaxOffset = 2
  MaxActors = 4
  MaxStops = 2
CHECK_DEADLOCK FALSE
INVARIANTS
  TypeOK
  NoOtherOrphans
  ChildTable
  PathsTell
PROPERTIES
  AnonymousNew
  StopEndsTree
