------------------------------- MODULE MCCli -------------------------------
(* Instances of Cli for TLC. *)
EXTENDS Cli, TLC

CONSTANTS First, Second

\* Two servers, each of a type of its own; a command of every kind.
TwoTypes == First :> "t" @@ Second :> "u"
AllCommands == {[func |-> "list", args |-> {}], [func |-> "stop", args |-> {}],
                [func |-> "remove", args |-> {First}], [func |-> "removeT", args |-> {"u"}]}
=============================================================================
