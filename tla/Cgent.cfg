SPECIFICATION CgentSpec
CONSTANTS
  Names = {"p", "q", "f"}
  DeclTypes = {"int", "double", "boolean"}
  FuncLists <- MCFuncLists
  Statements <- MCStatements
  Conditions <- MCConditions
  MaxGroups = 4
INVARIANTS
  ScopeTypeOK
  ExactWhenFlat
  OwnBlockUnique
  CrashesWhenOdd
  AcceptedIsTyped
  NullTypesLogged
  BracesAreBlocks
  AllFreed
  GeneratesChecked
PROPERTIES
  SearchDescends
  MainEnds
CHECK_DEADLOCK FALSE
