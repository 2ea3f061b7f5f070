-------------------------- MODULE MCBunTCPTransport --------------------------
EXTENDS BunTCPTransport
=============================================================================
