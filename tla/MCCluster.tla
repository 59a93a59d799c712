------------------------------ MODULE MCCluster ------------------------------
(***************************************************************************)
(* ClusterMonitor on the three nodes of docker-compose-test.yml.           *)
(***************************************************************************)
EXTENDS ClusterMonitor

CONSTANTS n1, n2, n3
=============================================================================
