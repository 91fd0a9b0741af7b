SPECIFICATION LSpec
CONSTANTS
  SectorSize = 2
  SectorsPerCluster = 1
  FatEntries = 5
  Clusters <- MCClusters
  Fat <- MCFat
  Root = 2
  Directory <- MCDirectory
  Paths <- MCPaths
  FdCount = 5
  Lengths = {0, 1, 2, 4}
  Positions = {0, 3, 5, 7}
  PageSize = 2
  HeaderSize = 1
  PageNumbers = {0, 1, 2, 3, 4}
  Programs <- MCPrograms
INVARIANTS
  LTypeOK
  ReadsInOrder
  LoadsFaithfully
CHECK_DEADLOCK FALSE
