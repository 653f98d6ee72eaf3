SPECIFICATION Spec
CONSTANTS
  Subjects = {"alice"}
  Reveals = {"r1", "r2"}
  Seals = {"c1"}
  SubjectOf <- MCSubjectOf
  Wirings <- MCWirings
  MaxLog = 2
  MaxFaults = 2
INVARIANTS
  EvictedForGood
  SeedIsSafe
  LateIsRedacted
  NoErasureForgotten
PROPERTIES
  ErasureHappens
  PlaintextGoes
\* Every request ends and every erasure is carried out.
CHECK_DEADLOCK FALSE
