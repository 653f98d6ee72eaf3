---------------------------- MODULE MCExtCaller ----------------------------
(***************************************************************************)
(* A small instance of ExtCaller: two events, one of which matches no rule,*)
(* or both, and a third party that may answer differently each time.       *)
(***************************************************************************)
EXTENDS ExtCaller

MCFollowUps == [r \in Responses |-> CASE r = "none" -> 0
                                      [] r = "one"  -> 1
                                      [] OTHER      -> 2]
=============================================================================
