------------------------------ MODULE MCCluster -----------------------------
EXTENDS ClusterController
MCVersions == {"v1"}
MCNone == {}
=============================================================================
