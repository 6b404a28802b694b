----------------------------- MODULE MCRelayClaims -----------------------------
EXTENDS RelayClaims, RelayInstances
================================================================================
