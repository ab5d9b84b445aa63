CONSTANTS
  Nil = Nil
  Main = Main
  w1 = w1
  w2 = w2
  t1 = t1
  t2 = t2
  t3 = t3
  t4 = t4
  t5 = t5
  Wins <- MCWins
  TabKeys <- MCTabs
  MaxKey = 3
  MaxTabs = 3
SPECIFICATION Spec
INVARIANTS TabsMatchLayouts MosaicShape DropLands MosaicsAreShown
PROPERTIES ImplementsTabPlacement OpenedTabIsKept
SYMMETRY MCSymmetry
CHECK_DEADLOCK FALSE
