------------------------------- MODULE Mosaic -------------------------------
(***************************************************************************)
(* The mosaic of pluto: the binary tree of tab leaves that a window shows. *)
(* src/pluto/src/mosaic/tree.ts.                                           *)
(*                                                                         *)
(* A tree is a function from the positions of its nodes to the nodes.  The *)
(* root is at position 1 and the children of position p are at 2p and      *)
(* 2p + 1, so a position says where a node really is.  The code has no     *)
(* positions: a node carries a key that starts out equal to its position,  *)
(* and gc lets the two drift apart, since liftUp gives a new key to the    *)
(* node it lifts and none to that node's descendants.  A key may stop      *)
(* being whole (the code divides by two), so keys are kept in 64ths.       *)
(* Split directions and sizes, icons and names are left out, and left and  *)
(* right stand for top and bottom too.                                     *)
(***************************************************************************)
EXTENDS Integers, Sequences, FiniteSetsExt, SequencesExt

CONSTANT Nil \* undefined and null

Unit == 64 \* the key 1

MaxDepth == 5 \* positions and whole keys are below 2 ^ (MaxDepth + 1)

Locations == {"center", "left", "right"}

MosaicNode(key, tabs, selected) == [key |-> key, tabs |-> tabs, selected |-> selected]

(* ZERO_MOSAIC_STATE.root *)
ZeroRoot == [p \in {1} |-> MosaicNode(Unit, <<>>, Nil)]

IsLeaf(root, p) == 2 * p \notin DOMAIN root

Leaves(root) == {p \in DOMAIN root : IsLeaf(root, p)}

(* The tabs a node holds: none when they are undefined. *)
TabsAt(root, p) == IF root[p].tabs = Nil THEN {} ELSE Range(root[p].tabs)

TabsOf(root) == UNION {TabsAt(root, p) : p \in DOMAIN root}

(* The positions from p up to the root. *)
Above(p) == {p \div (2 ^ d) : d \in 0..MaxDepth} \ {0}

(* Where q comes to lie when the subtree at a is put at b. *)
Shift(q, a, b) ==
    LET d == CHOOSE d \in 0..MaxDepth : q \div (2 ^ d) = a
    IN  b * (2 ^ d) + (q - a * (2 ^ d))

(***************************************************************************)
(* Searches.  Position 0 is "not found".                                   *)
(***************************************************************************)

(* findTab looks at every node. *)
FindTab(root, tab) ==
    LET found == {p \in DOMAIN root : tab \in TabsAt(root, p)}
    IN  IF found = {} THEN 0 ELSE Min(found)

(* findTabNode does not look below a node that has tabs. *)
FindTabNode(root, tab) ==
    LET found == {p \in DOMAIN root :
                    /\ tab \in TabsAt(root, p)
                    /\ \A a \in Above(p) \ {p} : root[a].tabs = Nil}
    IN  IF found = {} THEN 0 ELSE Min(found)

(* Without the search for an ancestor.                                       *)
FindNodeOnly(root, k) ==
    LET found == {p \in DOMAIN root : root[p].key = k}
    IN  IF found = {} THEN 1 ELSE CHOOSE p \in found : TRUE

(* findNodeOrAncestor, findMosaicNode: the node whose key is k, else k / 2   *)
(* rounded down and so on, else the root.                                    *)
FindNodeOrAncestor(root, k) ==
    LET keys  == {k} \cup {(k \div (Unit * 2 ^ d)) * Unit : d \in 1..MaxDepth}
        found == {p \in DOMAIN root : root[p].key \in keys}
    IN  IF found = {} THEN 1
        ELSE CHOOSE p \in found : \A q \in found : root[q].key <= root[p].key

(* findSelected goes down the first children only. *)
FindSelected(root) ==
    LET found == {p \in DOMAIN root :
                    root[p].selected # Nil /\ \E d \in 0..MaxDepth : p = 2 ^ d}
    IN  IF found = {} THEN Nil ELSE root[Min(found)].selected

(* Mosaic.isEmpty *)
IsEmptyMosaic(root) == IF root[1].tabs # Nil THEN root[1].tabs = <<>> ELSE IsLeaf(root, 1)

CanSplit(root, tab) ==
    LET p == FindTabNode(root, tab) IN p # 0 /\ Len(root[p].tabs) > 1

(***************************************************************************)
(* Inserting.                                                              *)
(***************************************************************************)

(* A tab dropped in the center: at the index when there is one, else last.   *)
InsertCenter(root, p, tab, index) ==
    LET tabs == IF root[p].tabs = Nil THEN <<>> ELSE root[p].tabs
        at   == IF index # Nil /\ index \in 0..Len(tabs) THEN index ELSE Len(tabs)
    IN  [root EXCEPT ![p].tabs = InsertAt(tabs, at + 1, tab), ![p].selected = tab]

(* insertAnywhere: into the first node with tabs down the first children.    *)
InsertAnywhere(root, tab) ==
    LET chain == {p \in DOMAIN root :
                    root[p].tabs # Nil /\ \E d \in 0..MaxDepth : p = 2 ^ d}
    IN  IF chain = {} THEN root ELSE InsertCenter(root, Min(chain), tab, Nil)

(* The node at p becomes internal, with two new leaves for children.         *)
Divide(root, p, first, last) ==
    LET kept == {q \in DOMAIN root : p \notin Above(q)}
    IN  [q \in kept \cup {p, 2 * p, 2 * p + 1} |->
            CASE q = p         -> MosaicNode(root[p].key, Nil, Nil)
              [] q = 2 * p     -> MosaicNode(2 * root[p].key, first.tabs, first.selected)
              [] q = 2 * p + 1 -> MosaicNode(2 * root[p].key + Unit, last.tabs, last.selected)
              [] OTHER         -> root[q]]

InsertBeside(root, p, tab, loc) ==
    LET new == [tabs |-> <<tab>>, selected |-> tab]
        old == [tabs |-> root[p].tabs, selected |-> root[p].selected]
    IN  IF loc = "left" THEN Divide(root, p, new, old) ELSE Divide(root, p, old, new)

InsertTab(root, tab, loc, key, index) ==
    IF key = Nil THEN InsertAnywhere(root, tab)
    ELSE LET p     == FindNodeOrAncestor(root, key)
             child == 2 * root[p].key + (IF loc = "left" THEN 0 ELSE Unit)
             c     == FindNodeOrAncestor(root, child)
         IN  CASE loc = "center" -> InsertCenter(root, p, tab, index)
               [] loc # "center" /\ root[c].key # root[p].key ->
                    InsertCenter(root, c, tab, Nil)
               [] loc # "center" /\ root[c].key = root[p].key ->
                    IF TabsAt(root, p) = {} THEN InsertCenter(root, p, tab, Nil)
                    ELSE InsertBeside(root, p, tab, loc)

(***************************************************************************)
(* Removing.                                                               *)
(***************************************************************************)

(* Keeping the selection.                                                    *)
KeepSelection(selected, tabs) == IF tabs = <<>> THEN Nil ELSE selected

(* Tabs.resetSelection *)
ResetSelection(selected, tabs) ==
    CASE tabs = <<>>                                 -> Nil
      [] tabs # <<>> /\ selected \in Range(tabs)     -> selected
      [] tabs # <<>> /\ selected \notin Range(tabs)  -> Last(tabs)

(* liftUp: the node at s takes the place of its parent.                      *)
LiftUp(root, s) ==
    LET a      == s \div 2
        under  == {q \in DOMAIN root : s \in Above(q)}
        others == {q \in DOMAIN root : a \notin Above(q)}
        isLast == IF s % 2 = 1 THEN Unit ELSE 0
    IN  [q \in others \cup {Shift(u, s, a) : u \in under} |->
            CASE q \in others -> root[q]
              [] q = a        -> [root[s] EXCEPT !.key = (@ - isLast) \div 2]
              [] OTHER        -> root[Shift(q, a, s)]]

(* gc, _gc, shouldGc: a removal empties one leaf at most.                    *)
Gc(root) ==
    LET empty  == {p \in Leaves(root) \ {1} : TabsAt(root, p) = {}}
        sib(p) == IF p % 2 = 0 THEN p + 1 ELSE p - 1
        lifted == IF empty = {} THEN root ELSE LiftUp(root, sib(Min(empty)))
    IN  IF IsLeaf(lifted, 1) THEN [lifted EXCEPT ![1].key = Unit] ELSE lifted

(* removeTab, and the tab it says to select. *)
RemoveTab(root, tab) ==
    LET p == FindTab(root, tab)
    IN  IF p = 0 THEN [root |-> root, selected |-> Nil]
        ELSE LET tabs == SelectSeq(root[p].tabs, LAMBDA t : t # tab)
                 sel  == ResetSelection(root[p].selected, tabs)
                 new  == Gc([root EXCEPT ![p].tabs = tabs, ![p].selected = sel])
             IN  [root |-> new, selected |-> IF sel # Nil THEN sel ELSE FindSelected(new)]

MoveTab(root, tab, loc, to, index) ==
    InsertTab(RemoveTab(root, tab).root, tab, loc, to, index)

SelectTab(root, tab) == [root EXCEPT ![FindTab(root, tab)].selected = tab]

(* split: the tab gets the last child, its neighbours the first.             *)
SplitTab(root, tab) ==
    LET p    == FindTabNode(root, tab)
        rest == SelectSeq(root[p].tabs, LAMBDA t : t # tab)
    IN  Divide(root, p, [tabs |-> rest, selected |-> ResetSelection(root[p].selected, rest)],
                        [tabs |-> <<tab>>, selected |-> tab])
=============================================================================
