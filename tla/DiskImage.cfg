SPECIFICATION Spec
CONSTANTS
  EntrySectors = 2
  EntryCount = 4
  MaxCatalog = 7
  Jobs <- MCJobs
INVARIANTS
  LayoutIsSound
  NothingOverwritten
  PatchesStayInside
