SPECIFICATION Spec
CONSTANTS
  Subjects = {"alice"}
  Reveals = {"r1", "r2"}
  Seals = {"c1"}
  SubjectOf <- MCSubjectOf
  Wirings <- SkippingWiring
  MaxLog = 2
  MaxFaults = 2
INVARIANTS
  SeedIsSafe
\* Every request ends and every erasure is carried out.
CHECK_DEADLOCK FALSE
