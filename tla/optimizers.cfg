CONSTANTS
  Null = Null
  TableColumns <- MCTableColumns
  Databases <- MCDatabases
  Inputs <- ConditionInputs
  UnusedInputs <- RemovalInputs
  Schema <- MCSchema
  CteInputs <- CteQueries
  NewNames = {"b", "n", "s"}
SPECIFICATION Spec
CHECK_DEADLOCK FALSE
INVARIANTS
  OptimizedMeansTheSame
  NothingLeftToMove
  RemovalMeansTheSame
  FixedPointReached
  TransformedMeansTheSame
