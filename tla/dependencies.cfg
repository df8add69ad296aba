CONSTANT Logged <- MCLogged
SPECIFICATION Spec
INVARIANTS
  TypeOK
  DirtyIffOutOfOrder
  ReadIsListed
PROPERTY OnlyOwnChangeCleans
