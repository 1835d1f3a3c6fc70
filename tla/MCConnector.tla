---------------------------- MODULE MCConnector ----------------------------
(* Instances of Connector for TLC. *)
EXTENDS Connector

CONSTANTS Talks, Listens, Silent

\* One client that talks, one that only listens, and one that never registers:
\* when it is gone, the others may be in the same bucket.
FramesOf == [x \in Clients |-> CASE x = Talks -> 3 [] x = Listens -> 1 [] x = Silent -> 0]
=============================================================================
