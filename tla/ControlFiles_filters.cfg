SPECIFICATION Spec
CONSTANTS
  Addresses = {a1, a2}
  Originals = {"", o1}
  Dsns <- MCDsns
  MaxFiles = 2
  MaxRecords = 3
  MaxFilters = 2
  Faults = {"io"}
SYMMETRY AddressSymmetry
INVARIANTS
  TypeOK
  NobodyLost
  FiltersKeepPromises
PROPERTIES
  EditedAsList
CHECK_DEADLOCK FALSE
