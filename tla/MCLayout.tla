------------------------------ MODULE MCLayout ------------------------------
EXTENDS Layout

CONSTANTS w1, w2, t1, t2, t3, t4, t5

(* Three tabs and two windows beside the main one.                           *)
MCTabs == {t1, t2, t3}
MCWins == {w1, w2}
MCSymmetry == Permutations(MCTabs) \cup Permutations(MCWins)

(* The main window alone, with five tabs.                                    *)
FiveTabs == {t1, t2, t3, t4, t5}
FiveSymmetry == Permutations(FiveTabs)
=============================================================================
