CONSTANTS
  Nil = Nil
  Main = Main
  w1 = w1
  w2 = w2
  t1 = t1
  t2 = t2
  t3 = t3
  t4 = t4
  t5 = t5
  Wins = {}
  TabKeys <- FiveTabs
  MaxKey = 9
  MaxTabs = 5
SPECIFICATION Spec
INVARIANT DropsAlwaysLand
SYMMETRY FiveSymmetry
CHECK_DEADLOCK FALSE
