---------------------------- MODULE AtomicStore -----------------------------
(***************************************************************************)
(* What the event store promises its callers: every command is decided and *)
(* its events appended in one step, on the history of its stream at that   *)
(* moment, or it is refused and leaves nothing behind.  There is no log, no*)
(* sequence number and no window between load and append here; EventStore  *)
(* is the detailed specification and is shown to implement this one.       *)
(***************************************************************************)
EXTENDS Sequences

CONSTANTS Streams, AggregateOf, Types, Commands, Target, Decide(_, _), Rejected

VARIABLES
  history,  \* history[s]: the event types of stream s, oldest first
  answer    \* answer[c]: what the caller of c was told

avars == <<history, answer>>

Init == /\ history = [s \in Streams |-> << >>]
        /\ answer = [c \in Commands |-> "none"]

\* c's decision takes effect, on the history as it is now.
Accept(c) ==
  /\ answer[c] = "none"
  /\ Decide(c, history[Target[c]]) \in Seq(Types)
  /\ history' = [history EXCEPT ![Target[c]] =
                   @ \o Decide(c, history[Target[c]])]
  /\ answer' = [answer EXCEPT ![c] = "ok"]

\* The decider refuses c on the history as it is now.
Reject(c) ==
  /\ answer[c] = "none"
  /\ Decide(c, history[Target[c]]) = Rejected
  /\ answer' = [answer EXCEPT ![c] = "rejected"]
  /\ UNCHANGED history

\* c is not applied: it lost a race, or the platform failed.
Refuse(c) ==
  /\ answer[c] = "none"
  /\ \E a \in {"conflict", "failed"} : answer' = [answer EXCEPT ![c] = a]
  /\ UNCHANGED history

\* Whole streams arrive from another deployment, only for aggregates this
\* store has nothing of.
Import ==
  /\ \E arriving \in (SUBSET Streams) \ {{}} :
       /\ \A s \in Streams :
            IF s \in arriving THEN history'[s] \in Seq(Types) \ {<< >>}
                              ELSE history'[s] = history[s]
       /\ \A s \in arriving, t \in Streams :
            AggregateOf[s] = AggregateOf[t] => history[t] = << >>
  /\ history' = [s \in Streams |-> history'[s]]
  /\ UNCHANGED answer

Next == \/ \E c \in Commands : Accept(c) \/ Reject(c) \/ Refuse(c)
        \/ Import

Spec == Init /\ [][Next]_avars
=============================================================================
