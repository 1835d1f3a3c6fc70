----------------------------- MODULE MCRpcLink -----------------------------
(* Instances of RpcLink for TLC. *)
EXTENDS RpcLink

CONSTANTS Faulty, Other

\* Messages are exchanged with Faulty, which fails; Other competes for the connections.
MsgsWithP == [x \in Peers |-> IF x = Faulty THEN [out |-> 2, back |-> 1]
                             ELSE [out |-> 0, back |-> 0]]
FaultsOfP == [x \in Peers |-> IF x = Faulty THEN 2 ELSE 0]
=============================================================================
