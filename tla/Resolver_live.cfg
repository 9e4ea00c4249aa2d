SPECIFICATION FairSpec
CONSTANTS
  Package <- MCPackage
  Version <- MCVersion
  Constraint <- MCConstraint
  Star = "*"
  Exact <- MCExact
  Admits <- MCAdmits
  Problem <- MCLive
PROPERTY Terminates
CHECK_DEADLOCK FALSE
