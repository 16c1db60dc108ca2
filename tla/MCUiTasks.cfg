CHECK_DEADLOCK FALSE
SPECIFICATION FairSpec
CONSTANTS
  Renders = {r1, r2, r3}
  Threads = {r1, r2, r3, Ui, Demo}
  Classes = {"MainActivity", "Util", "JNIHelper"}
  Ui = Ui
  Demo = Demo
  NoThread = NoThread
  MayRestore = TRUE
INVARIANT TypeOK
INVARIANT OnlyRestoreLosesClasses
INVARIANT ScriptFindsClasses
INVARIANT TaskOwnedOnce
INVARIANT ToastTellsTheTruth
INVARIANT SomeoneProceeds
PROPERTY ImplementsClickContract
PROPERTY ClicksAnswered
