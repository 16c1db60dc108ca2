SPECIFICATION Spec
CONSTANTS
  MaxActivities = 2
  Wrappers = {w1}
  MaxArgs = 2
  ArgKinds = {"int"}
  Names = {"present"}
  ReturnTypes = {"String"}
INVARIANT RefsMatchActivities
