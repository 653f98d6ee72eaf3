----------------------------- MODULE MCBatching -----------------------------
(***************************************************************************)
(* A small instance of Batching: commands on an order and on a task are    *)
(* queued through the gateway, and a reactor dispatches another directly.  *)
(***************************************************************************)
EXTENDS Batching, MCDomain

\* Three queued commands, one of two events, one that could be applied twice
\* and one of another stream, beside one direct command.
MCCommands == {Bundle, AddLine, Create, Confirm}
MCDirect   == {Confirm}
MCTarget   == TargetOf(MCCommands)
=============================================================================
