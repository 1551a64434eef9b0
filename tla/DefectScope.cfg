SPECIFICATION CgentSpec
CONSTANTS
  Names = {"p"}
  DeclTypes = {"int"}
  FuncLists <- NoFunctions
  Statements <- ScopeStatements
  Conditions <- AnyCondition
  MaxGroups = 5
INVARIANTS
  ResultInScope
CHECK_DEADLOCK FALSE
