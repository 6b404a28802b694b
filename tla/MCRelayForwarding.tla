--------------------------- MODULE MCRelayForwarding ---------------------------
EXTENDS RelayForwarding, RelayInstances
================================================================================
