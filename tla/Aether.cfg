SPECIFICATION Spec
CONSTANTS
  Keys <- MCKeys
  Parent <- MCParent
  Provides <- MCProvides
  Announces <- MCAnnounces
  Handled = {"p", "l"}
  Root = "root"
  Reidentified = {"l"}
  v1 = v1
  v2 = v2
  Values = {v1, v2}
  NoValue = NoValue
  MaxRenders = 6
  MaxReports = 1
  MaxFaults = 1
INVARIANTS TreesMatch ContextsAgree ReportsHaveHandler AgreeUnlessCrossed
SYMMETRY MCSymmetry
CHECK_DEADLOCK FALSE
