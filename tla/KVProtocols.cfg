\* every type of message, read three times
SPECIFICATION Spec
CONSTANTS
  Lines <- MCLines
  MaxHops = 3
INVARIANTS
  RelayKeeps
  ExtrasKept
  InventsOnlyTheMissing
  OwnLinesAreSafe
\* a line ends with its last reader
CHECK_DEADLOCK FALSE
