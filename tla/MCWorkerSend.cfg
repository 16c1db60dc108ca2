CHECK_DEADLOCK FALSE
SPECIFICATION WorkerSpec
CONSTANTS
  MaxActivities = 2
  Wrappers = {w1, w2}
  MaxArgs = 3
  MaxReactions = 1
  ArgKinds = {"int", "string", "other"}
  Names = {"present", "missing"}
  ReturnTypes = {"int", "long", "double", "String", "boolean"}
INVARIANT TypeOK
INVARIANT BoxesTakenBack
INVARIANT TagsMatchBoxes
INVARIANT ScriptSurvives
