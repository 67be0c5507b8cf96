SPECIFICATION ImageSpec
CONSTANTS
  Reserved = 2
  FatCount = 2
  PerSector = 4
  MinClusters = 3
  ClusterSize = 4
  EntrySize = 2
  ImageSizes <- SmallSizes
  Catalogue <- SmallCatalogue
  Jobs <- SmallJobs
  Width = 3
  ExtWidth = 1
  Radix = 2
  MaxSuffix = 2
  LfnUnits = 2
INVARIANTS
  SmallestSufficientFat
  ChainsInBounds
  ChainsAreOwned
  ManifestAcceptedExactly
  DestinationsAreFound
PROPERTIES
  BuildEnds
