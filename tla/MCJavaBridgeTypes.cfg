SPECIFICATION Spec
CONSTANTS
  MaxActivities = 1
  Wrappers = {w1, w2}
  MaxArgs = 2
  ArgKinds = {"int", "string"}
  Names = {"present"}
  ReturnTypes = {"int", "long", "double", "String", "boolean"}
INVARIANT NameBecomesString
