------------------------------ MODULE MCRpcCalls ------------------------------
(* RpcCalls with the four types of socket, blocking and not.               *)
EXTENDS RpcCalls

MCSocketTypes == {1, 2, 2049, 2050}
MCPeers == {<<2, 7>>}
MCSymmetry == Permutations(Threads)
=============================================================================
