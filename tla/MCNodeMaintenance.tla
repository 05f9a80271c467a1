------------------------- MODULE MCNodeMaintenance -------------------------
(***************************************************************************)
(* Selections of up to two of two nodes.  The first has up to two of four  *)
(* pods: one that has finished, one on its own with local data, one of a   *)
(* DaemonSet, and a static one.                                            *)
(***************************************************************************)
EXTENDS NodeMaintenance

CONSTANTS n1, n2

MCPods ==
  [traits : {{"emptyDir", "finished"}, {"emptyDir", "bare"}, {"daemonSet"}, {"static"}},
   node : {n1}]

MCRequests ==
  {[op |-> "cordon", flags |-> {}], [op |-> "uncordon", flags |-> {}]}
    \cup [op : {"drain"},
          flags : {{"force"},
                   {"ignore-daemonsets", "delete-emptydir-data", "force"},
                   {"disable-eviction", "delete-emptydir-data", "force"},
                   {"dry-run", "delete-emptydir-data"}}]

=============================================================================
