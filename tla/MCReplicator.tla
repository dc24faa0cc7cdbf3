---------------------------- MODULE MCReplicator ----------------------------
EXTENDS Replicator
=============================================================================
