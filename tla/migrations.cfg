SPECIFICATION Spec
CONSTANTS
  Roles <- MCRoles
  MaxDowngrades = 1
  MaxLosses = 1
INVARIANTS
  RevisionDeterminesSchema
  RefusedOnlyForViews
  HeadIsDeclared
PROPERTY
  EndsUpServed
