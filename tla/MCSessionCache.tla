-------------------------- MODULE MCSessionCache --------------------------
(* Instances of SessionCache for TLC. *)
EXTENDS SessionCache, TLC

\* Players are interchangeable.
UidSymmetry == Permutations(Uids)
=============================================================================
