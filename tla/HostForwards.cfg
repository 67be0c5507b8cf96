SPECIFICATION ForwardSpec
CONSTANTS
  Lists <- MCLists
  GoodNames = {"a", "b"}
  FreePorts = {2222, 4000, 4001}
INVARIANTS
  ResolvedAreBound
  FaithfulReportResolves
