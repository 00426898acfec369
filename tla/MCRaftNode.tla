----------------------------- MODULE MCRaftNode -----------------------------
EXTENDS RaftNode

CONSTANTS n1, n2, n3

MCIds == {n1, n2, n3}
MCPeerLists == {<<n1>>, <<n2, n1>>, <<n1, n2, n3>>}
=============================================================================
