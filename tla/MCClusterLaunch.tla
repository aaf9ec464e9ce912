-------------------------- MODULE MCClusterLaunch --------------------------
EXTENDS ClusterLaunch

CONSTANTS native, ray

const_Launch == {native, ray}
const_Ray == {ray}
const_Port == {1, 2}
=============================================================================
