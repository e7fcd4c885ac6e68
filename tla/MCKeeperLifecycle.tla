------------------------- MODULE MCKeeperLifecycle -------------------------
\* Instances of KeeperLifecycle for TLC.
EXTENDS KeeperLifecycle
CONSTANTS bsc, base
=============================================================================
