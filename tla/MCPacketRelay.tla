----------------------------- MODULE MCPacketRelay -----------------------------
EXTENDS PacketRelay, RelayInstances
================================================================================
