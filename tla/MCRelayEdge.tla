----------------------------- MODULE MCRelayEdge -----------------------------
(* Small instances of RelayEdge.                                             *)
EXTENDS RelayEdge

CONSTANTS n1, n2, f1, f2, f3, k1, k2, k3

\* Every publication goes to one node.
ToOneNode == [k \in TaskKeys |-> n1]

\* A node with a daemon and all three control handlers.
AllFeatures == [n \in Nodes |-> {"tasks"} \cup ControlKinds]
=============================================================================
