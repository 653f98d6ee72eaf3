--------------------------- MODULE MCSearchIndex ---------------------------
(***************************************************************************)
(* A small instance of SearchIndex: two records of two people, one of whom *)
(* is erased, and a record that changes its value.                         *)
(***************************************************************************)
EXTENDS SearchIndex

Put(row, subject, term) ==
  [type |-> "put", row |-> row, subject |-> subject, term |-> term]

MCLog == <<Put("r1", "s1", "a"), Put("r2", "s2", "b"),
           [type |-> "erase", subject |-> "s1"], Put("r2", "s2", "a")>>
=============================================================================
