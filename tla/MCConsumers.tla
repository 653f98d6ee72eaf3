---------------------------- MODULE MCConsumers ----------------------------
(***************************************************************************)
(* Small instances of Consumers: a JavaScript projection (commits its rows *)
(* with its position), a Go projection and a reactor (both checkpointed    *)
(* after Apply).                                                           *)
(***************************************************************************)
EXTENDS Consumers

CONSTANTS js, tasks, reactor

MCNames == {js, tasks, reactor}
MCBoot == <<tasks, js, reactor>>

\* The first consumer of a pass never gets past the second event.
PoisonSecond == {<<tasks, 2>>}
=============================================================================
