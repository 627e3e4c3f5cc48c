---------------------------- MODULE MCTrunkCodec ----------------------------
EXTENDS TrunkCodec, TLC

CONSTANTS mt, cc

\* The Multi-Tenant server calls the other one.
OneWay == {<<mt, cc>>}

\* ConnectServers makes each the other's peer: both directions can be dialed.
BothWays == {<<mt, cc>>, <<cc, mt>>}

BatchSymmetry == Permutations(Batch)
=============================================================================
