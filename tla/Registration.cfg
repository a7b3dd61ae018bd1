SPECIFICATION Spec
CONSTANTS
  Group <- MCGroup
  Lower <- MCLower
  Field = {"name", "website"}
  Client = {"c1", "c2"}
  Schema = {s}
  Unset = Unset
  MaxCalls = 5
  MaxFaults = 1
CHECK_DEADLOCK FALSE
INVARIANTS
  TypeOK
  RegisteredOnce
  BothSchedules
PROPERTIES
  SchemaStays
