SPECIFICATION Spec
CONSTANTS
  Package <- MCPackage
  Version <- MCVersion
  Constraint <- MCConstraint
  Star = "*"
  Exact <- MCExact
  Admits <- MCAdmits
  Problem <- MCDev
INVARIANT DevOnlyIsExact
CHECK_DEADLOCK FALSE
