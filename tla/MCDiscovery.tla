---------------------------- MODULE MCDiscovery ----------------------------
(* Instances of Discovery for TLC. *)
EXTENDS Discovery

\* A server may be restarted on another address.
TwoAddresses == {[type |-> "t", addr |-> a, rest |-> 0] : a \in {1, 2}}
=============================================================================
