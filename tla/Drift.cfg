CONSTANTS
  kA = kA
  Keys = {kA}
  MAIN_WINDOW = MAIN_WINDOW
  PRERENDER_WINDOW = PRERENDER_WINDOW
  NoKey = NoKey
  Titles = {"t"}
  EnablePrerender = FALSE
  Dispatchable = {"createWindow", "closeWindow", "registerProcess", "completeProcess", "focusWindow", "setWindowTitle", "setWindowAlwaysOnTop", "setWindowProps", "reloadWindow"}
  MaxLabel = 1
  MaxDispatch = 2
  MaxFaults = 1
SPECIFICATION FairSpec
CHECK_DEADLOCK FALSE
INVARIANTS NoOrphanWindow ActionsInOrder
PROPERTY HandshakeEnds
