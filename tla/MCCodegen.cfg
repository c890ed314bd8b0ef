\* Functions of two statements; a function ends.
CONSTANTS
  Statements <- FreshStatements
  Inputs <- AllInputs
  MaxLength = 2
  MaxTrips = 6
  Lost = Lost
SPECIFICATION Spec
CHECK_DEADLOCK FALSE
INVARIANTS
  SameValues
  WellFormed
