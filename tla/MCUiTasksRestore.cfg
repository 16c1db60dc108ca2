SPECIFICATION Spec
CONSTANTS
  Renders = {r1}
  Threads = {r1, Ui, Demo}
  Classes = {"MainActivity", "Util", "JNIHelper"}
  Ui = Ui
  Demo = Demo
  NoThread = NoThread
  MayRestore = TRUE
INVARIANT LookupsSucceed
