\* three commands, two serial numbers, one retry
SPECIFICATION BoundedSpec
CONSTANTS
  Mount = Mount
  Focus = Focus
  SernoLimit = 3
  MaxRetry = 1
  MaxCommands = 3
INVARIANTS
  TypeOK
  NumbersApart
  StaleOnlyFromObsplan
  GivenUpLeaves
PROPERTIES
  DropsTheGivenUp
  Drains
