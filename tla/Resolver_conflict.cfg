SPECIFICATION Spec
CONSTANTS
  Package <- MCPackage
  Version <- MCVersion
  Constraint <- MCConstraint
  Star = "*"
  Exact <- MCExact
  Admits <- MCAdmits
  Problem <- MCSearch
INVARIANT ConflictIsGenuine
CHECK_DEADLOCK FALSE
