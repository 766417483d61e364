----------------------------- MODULE MCPeerBus -----------------------------
EXTENDS PeerBus
MCPanes == 1 .. 2
=============================================================================
