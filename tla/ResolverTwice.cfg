SPECIFICATION TwiceSpec
CONSTANTS
  Package <- MCPackage
  Version <- MCVersion
  Constraint <- MCConstraint
  Star = "*"
  Exact <- MCExact
  Admits <- MCAdmits
  Problem <- MCTwice
INVARIANT SameOutcome
CHECK_DEADLOCK FALSE
