-------------------------- MODULE MCClusterBackup --------------------------
EXTENDS ClusterBackup, TLC
Symmetry == Permutations(BackupPods) \cup Permutations(RecoveryPods)
=============================================================================
