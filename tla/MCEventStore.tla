---------------------------- MODULE MCEventStore ----------------------------
(***************************************************************************)
(* A small instance of EventStore: one order contended by four callers, a  *)
(* task stream two callers write, and an import that brings that task      *)
(* stream, a second one with two events, or another order.                 *)
(***************************************************************************)
EXTENDS EventStore, MCDomain

MCCommands == {Place, Bundle, Confirm, Cancel, Create, Finish}
MCTarget == TargetOf(MCCommands)

Exported(s, n, type) == [stream |-> s, seq |-> n, type |-> type,
                         by |-> NoCommand, imported |-> FALSE]

MCImports ==
  { << Exported("t1", 1, "TaskCreated"), Exported("t2", 1, "TaskCreated"),
       Exported("t2", 2, "TaskCompleted") >>,
    << Exported("o2", 1, "OrderPlaced") >> }

\* The domain rules the deciders state hold of every stream although callers
\* decide concurrently: nothing but the sequence check protects them.
DomainRules == DomainRulesOf(log)
=============================================================================
