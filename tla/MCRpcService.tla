--------------------------- MODULE MCRpcService ---------------------------
(* Instances of RpcService for TLC. *)
EXTENDS RpcService, TLC

\* The other servers are interchangeable.
SidSymmetry == Permutations(Sids)
=============================================================================
