SPECIFICATION Spec
CONSTANTS
  pack = pack
  part = part
  hand = hand
  chart = chart
  packWeb = packWeb
  partWeb = partWeb
  handWeb = handWeb
  chartWeb = chartWeb
  chartJob = chartJob
  NoGroup = NoGroup
  Group = {pack, part, hand, chart}
  Workload = {packWeb, partWeb, handWeb, chartWeb, chartJob}
  Job = {chartJob}
  GroupOf <- MCGroupOf
  ParentOf <- MCParentOf
  Kind <- MCKind
  Workers = 2
  MaxRetries = 1
  Scenes <- MCScenes
INVARIANTS TypeOK DeployedBacked CleanInv
PROPERTIES CleanedFirst Converges DeletionEnds
CHECK_DEADLOCK FALSE
