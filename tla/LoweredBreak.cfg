SPECIFICATION LoweringSpec
CONSTANTS
  Statements <- MCStatements
  BodyOwners <- MCBodyOwners
  BodyInputs <- MCBodyInputs
  EnumMembers = {"Gold", "Silver"}
  MaxStatements = 2
CHECK_DEADLOCK FALSE
INVARIANTS BreakLeavesTheLoop
