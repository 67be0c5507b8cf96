SPECIFICATION Spec
CONSTANTS
  Runfiles = {1, 2}
  Gzipped = {2}
  Names = {"", "disk", "media0", "media1", "s"}
  DefaultNames <- MCDefaultNames
  Tests <- MCTests
  MaxMedia = 3
  MaxWrites = 1
INVARIANTS
  SourcesAreKept
  OneWriterPerFile
  PassMeansExported
  LoadedIsAccepted
