SPECIFICATION KubernetesSpec
CONSTANTS
  Required = {"api_readyz", "pods"}
  Texts = {"api_readyz"}
  Optional = {"cilium_nodes"}
  Candidates <- MCCandidates
  Readers = 2
  Layouts <- MCLayouts
  MaxPods = 2
  MaxLogBytes = 3
  CallBytes = 2
  LogShapes <- MCLogShapes
INVARIANTS
  CollectedIsWhole
  BudgetGoesToTheFirst
CHECK_DEADLOCK FALSE
