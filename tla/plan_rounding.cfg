SPECIFICATION TelemetrySpec
CONSTANTS
  TotalLayers = 7
  Nodes = {1, 2, 3, 4}
  Forwarding = {1}
  RamTotal = 128
  CpuLevels = {0, 20}
  RamLevels = {2, 42, 82}
  Latencies = {4}
INVARIANTS
  UnreportedIsInsignificant
  PlanIsBySums
  RoundingIsBounded
