SPECIFICATION Spec
CONSTANTS
  Package <- MCPackage
  Version <- MCVersion
  Constraint <- MCConstraint
  Star = "*"
  Exact <- MCExact
  Admits <- MCAdmits
  Problem <- MCProblem
INVARIANT TypeOK
INVARIANT SolvedIsValid
INVARIANT ConflictIsGenuineWithoutChoice
INVARIANT SearchInv
INVARIANT NothingUnasked
PROPERTY SearchRefined
CHECK_DEADLOCK FALSE
