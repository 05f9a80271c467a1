\* cordon, uncordon and drain on every selection of up to two nodes.
CONSTANTS
  n1 = n1
  n2 = n2
  Objects = {n1, n2}
  MaxItems = 2
  Pods <- MCPods
  MaxPods = 2
  Requests <- MCRequests
SPECIFICATION FairSpec
INVARIANTS
  TypeOK
  AsksOnlyAsAgreed
  ReportedStateWasReached
  DrainedNodesAreEmpty
PROPERTIES
  NodeCommandEnds
\* The command ends, and the cluster is followed no further.
CHECK_DEADLOCK FALSE
