------------------------- MODULE MCPairingHandshake -------------------------
EXTENDS PairingHandshake

MCConns == 1..2

=============================================================================
