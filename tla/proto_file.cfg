SPECIFICATION Spec
CONSTANTS
  Statements <- MCStatements
  MaxStatements = 4
INVARIANTS IInv NothingElseIsLost FoundIsDeclared ServiceIsFound ClientCallsAsDeclared ServerServesItsClient
CHECK_DEADLOCK FALSE
