---------------------------- MODULE RpcPromise ----------------------------
(***************************************************************************)
(* What the caller of a method of another server may rely on, without a    *)
(* word about ids, caches, sockets and timers: the promise is settled at   *)
(* most once and keeps its outcome, the remote handler runs at most once,  *)
(* and a result comes only from a handler that ran.  A timeout promises    *)
(* nothing: the handler may have run, be running, or run later.            *)
(***************************************************************************)
CONSTANT Call

VARIABLES
    outcome,    \* calls made -> "waiting" or how they were settled
    started     \* calls whose handler was started

vars == <<outcome, started>>

Results == {"resolved", "error"}
Made == DOMAIN outcome
Waiting == {c \in Made : outcome[c] = "waiting"}

Init == outcome = [c \in {} |-> "waiting"] /\ started = {}

\* Calls time out, alone or together.
TimedOut(S) == [c \in Made |-> IF c \in S THEN "timeout" ELSE outcome[c]]

\* A new call; to make room for it older calls, or itself, may be given up.
Make(c) ==
    /\ c \notin Made
    /\ \E S \in SUBSET (Waiting \cup {c}) :
          outcome' = [d \in Made \cup {c} |->
                        IF d \in S THEN "timeout"
                        ELSE IF d = c THEN "waiting" ELSE outcome[d]]
    /\ UNCHANGED started

Start(c) ==
    /\ c \in Made \ started
    /\ started' = started \cup {c}
    /\ UNCHANGED outcome

Fulfil(c, result) ==
    /\ c \in Waiting \cap started
    /\ outcome' = [outcome EXCEPT ![c] = result]
    /\ UNCHANGED started

Expire(S) ==
    /\ S \subseteq Waiting
    /\ outcome' = TimedOut(S)
    /\ UNCHANGED started

Next ==
    \/ \E c \in Call : Make(c) \/ Start(c)
    \/ \E c \in Call, result \in Results : Fulfil(c, result)
    \/ \E S \in SUBSET Waiting : Expire(S)

Spec == Init /\ [][Next]_vars
=============================================================================
