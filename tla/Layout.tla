------------------------------- MODULE Layout -------------------------------
(***************************************************************************)
(* The layout slice of the console and the middleware that keeps it in     *)
(* step with the windows of Drift.                                         *)
(* src/console/src/layout/slice.ts, middleware.ts, useOpenInNewWindow.ts.  *)
(*                                                                         *)
(* The slice is the main window's: every window dispatches into it through *)
(* Drift (module Drift), and only the main window runs the effects.  A     *)
(* step is one dispatch with everything its effects dispatch in turn.  An  *)
(* action that throws changes nothing and has no step.                     *)
(***************************************************************************)
EXTENDS Mosaic

CONSTANTS Main,       \* MAIN_WINDOW
          Wins,       \* keys of mosaic windows
          TabKeys,    \* keys of the layouts shown in a mosaic
          MaxKey,     \* bound on the keys of leaves that are divided
          MaxTabs     \* bound on the tabs of the slice and of the saved one together

VARIABLES slice,   \* the Redux slice
          windows, \* the windows Drift has
          saved,   \* the slice the workspace holds on the server
          moving,  \* windows placed by another than the main one, with the tab
                   \* that is still to be moved into them
          cut,     \* history: windows that closed and left their mosaic behind
          astray   \* history: a tab was put in a node that has children

vars == <<slice, windows, saved, moving, cut, astray>>

Layout(location, w) == [location |-> location, windowKey |-> w]

(* ZERO_SLICE_STATE *)
ZeroSlice ==
    [layouts |-> [k \in {Main} |-> Layout("window", Main)],
     mosaics |-> [k \in {Main} |-> [root |-> ZeroRoot, activeTab |-> Nil]]]

Put(f, k, v) == [x \in DOMAIN f \cup {k} |-> IF x = k THEN v ELSE f[x]]

Drop(f, ks) == Restrict(f, DOMAIN f \ ks)

(* purgeEmptyMosaics *)
PurgeEmptyMosaics(s) ==
    LET empty == {w \in DOMAIN s.mosaics \ {Main} : IsEmptyMosaic(s.mosaics[w].root)}
    IN  [s EXCEPT !.mosaics = Drop(@, empty), !.layouts = Drop(@, empty)]

(***************************************************************************)
(* Reducers.                                                               *)
(***************************************************************************)

(* place, for a tab that is not in a mosaic yet and for one that is.  No     *)
(* caller places a tab anew outside of the mosaic (slice.ts:215-217).        *)
PlaceTabReducer(s, k, w, loc, mosaicKey) ==
    LET m      == s.mosaics[w]
        active == IF m.activeTab = Nil THEN 0 ELSE FindTabNode(m.root, m.activeTab)
        nodeKey == IF mosaicKey = Nil /\ active # 0 THEN m.root[active].key ELSE mosaicKey
        root   == IF k \notin DOMAIN s.layouts THEN InsertTab(m.root, k, loc, nodeKey, Nil)
                  ELSE SelectTab(m.root, k)
    IN  PurgeEmptyMosaics(
            [s EXCEPT !.mosaics[w] = [root |-> root, activeTab |-> k],
                      !.layouts = Put(@, k, Layout("mosaic", w))])

(* place, for a mosaic window: it begins with an empty mosaic, not purged.   *)
PlaceWindowReducer(s, k, w) ==
    [s EXCEPT !.mosaics = Put(@, k, [root |-> ZeroRoot, activeTab |-> Nil]),
              !.layouts = Put(@, k, Layout("window", w))]

RemoveOne(s, k) ==
    LET w == s.layouts[k].windowKey
        r == RemoveTab(s.mosaics[w].root, k)
    IN  IF k \notin DOMAIN s.layouts \/ k = Main THEN s
        ELSE IF w \notin DOMAIN s.mosaics THEN s
        ELSE PurgeEmptyMosaics(
                [s EXCEPT !.layouts = Drop(@, {k}),
                          !.mosaics[w] = IF s.layouts[k].location = "mosaic"
                                         THEN [root |-> r.root, activeTab |-> r.selected]
                                         ELSE @])

RemoveReducer(s, keys) == FoldSet(LAMBDA k, t : RemoveOne(t, k), s, keys)

(* Without the layout's new window.                                          *)
MoveReducerStale(s, k, w, loc, key, index) ==
    LET from == s.layouts[k].windowKey
    IN  IF from = w THEN [s EXCEPT !.mosaics[w].root = MoveTab(@, k, loc, key, index)]
        ELSE [s EXCEPT !.mosaics[from].root = RemoveTab(@, k).root,
                       !.mosaics[w].root = InsertTab(@, k, loc, key, Nil)]

(* moveMosaicTab within a window, and from one to another: the window that   *)
(* the tab leaves keeps its active tab.                                      *)
MoveReducer(s, k, w, loc, key, index) ==
    LET from == s.layouts[k].windowKey
    IN  IF from = w
        THEN IF key = Nil THEN s
             ELSE [s EXCEPT !.mosaics[w].root = MoveTab(@, k, loc, key, index)]
        ELSE LET left == [s EXCEPT !.mosaics[from].root = RemoveTab(@, k).root]
             IN  PurgeEmptyMosaics(
                    [left EXCEPT !.layouts[k].windowKey = w,
                                 !.mosaics[w].activeTab = IF @ = Nil THEN k ELSE @,
                                 !.mosaics[w].root = InsertTab(@, k, loc, key, Nil)])

SelectMosaicTabReducer(s, k) ==
    LET w == s.layouts[k].windowKey
    IN  IF s.mosaics[w].activeTab = k THEN s
        ELSE [s EXCEPT !.mosaics[w] = [root |-> SelectTab(@.root, k), activeTab |-> k]]

(***************************************************************************)
(* Effects, on a state st of the slice and of Drift's windows.             *)
(***************************************************************************)

RECURSIVE CloseWindow(_, _), DispatchRemove(_, _), CloseOnEmptyMosaic(_)

(* Drift.closeWindow, and deleteLayoutsOnMosaicCloseEffect after it: all of  *)
(* the layouts that name the window go, and so do the windows it placed.     *)
CloseWindow(st, w) ==
    LET s    == st.slice
        gone == [st EXCEPT !.windows = @ \ {w}]
    IN  IF w \notin Wins THEN gone
        ELSE DispatchRemove(gone, {k \in DOMAIN s.layouts : s.layouts[k].windowKey = w})

(* remove: closeWindowOnRemoveEffect before it, the reducer, and             *)
(* closeWindowOnEmptyMosaicEffect after it.                                  *)
DispatchRemove(st, keys) ==
    LET isWindow(k) == k \notin DOMAIN st.slice.layouts
                         \/ st.slice.layouts[k].location = "window"
        before == FoldSet(LAMBDA k, t : CloseWindow(t, k), st, {k \in keys : isWindow(k)})
    IN  CloseOnEmptyMosaic([before EXCEPT !.slice = RemoveReducer(@, keys)])

(* closeWindowOnEmptyMosaicEffect *)
CloseOnEmptyMosaic(st) ==
    LET mosaics == st.slice.mosaics
        empty   == {w \in DOMAIN mosaics \ {Main} : IsEmptyMosaic(mosaics[w].root)}
        orphans == {w \in st.windows \cap Wins : w \notin DOMAIN mosaics}
    IN  FoldSet(LAMBDA w, t : CloseWindow(t, w), st, (empty \cap st.windows) \cup orphans)

(* For the main window only.                                                 *)
CreateWindowsMain(st) == [st EXCEPT !.windows = @ \cup {Main}]

(* createWindowsOnSetWorkspaceEffect *)
CreateWindows(st) ==
    [st EXCEPT !.windows = @ \cup {k \in DOMAIN st.slice.layouts :
                                     st.slice.layouts[k].location = "window"}]

(* Some insertion has met an internal node.                                  *)
Stray(s) ==
    \E w \in DOMAIN s.mosaics : \E p \in DOMAIN s.mosaics[w].root :
        ~IsLeaf(s.mosaics[w].root, p) /\ s.mosaics[w].root[p].tabs # Nil

State(s, ws) == [slice |-> s, windows |-> ws]

Becomes(st) ==
    /\ slice' = st.slice
    /\ windows' = st.windows
    /\ cut' = (cut \cup DOMAIN moving) \ st.windows
    /\ astray' = (astray \/ Stray(st.slice))

(***************************************************************************)
(* Dispatches.                                                             *)
(***************************************************************************)

Mosaics == DOMAIN slice.mosaics

Root(w) == slice.mosaics[w].root

IsTab(k) == k \in DOMAIN slice.layouts /\ slice.layouts[k].location = "mosaic"

(* A tab that a user can reach.                                              *)
IsShown(k) == IsTab(k) /\ slice.layouts[k].windowKey \in windows

(* The windows a user acts in: one that waits for its first tab has not been *)
(* rendered yet.                                                             *)
Usable == (Mosaics \cap windows) \ DOMAIN moving

(* A leaf may be divided while its keys are within the bound.                *)
Divisible(w, p, loc) == loc = "center" \/ Root(w)[p].key <= MaxKey * Unit

NumTabs(s) == Cardinality(DOMAIN s.layouts \cap TabKeys)

(* usePlacer: from a menu or palette of the window, into the node of its     *)
(* active tab, or dropped on a leaf (handleCreate).  For a tab that is open  *)
(* and not in this mosaic selectTab throws.                                  *)
PlaceTab(k, w) ==
    /\ w \in Usable
    /\ IF IsTab(k) THEN k \in TabsOf(Root(w))
       ELSE NumTabs(slice) + NumTabs(saved) < MaxTabs
    /\ \/ Becomes(State(PlaceTabReducer(slice, k, w, "center", Nil), windows))
       \/ \E p \in Leaves(Root(w)), loc \in Locations :
            /\ Divisible(w, p, loc)
            /\ TabsAt(Root(w), p) = {} => loc = "center"
            /\ Becomes(State(PlaceTabReducer(slice, k, w, loc, Root(w)[p].key), windows))
    /\ UNCHANGED <<saved, moving>>

(* useRemover for a tab, and for a window by its close button (Controls).    *)
RemoveLayout(k) ==
    /\ k \in DOMAIN slice.layouts
    /\ k \in Wins => k \in windows /\ k \notin DOMAIN moving
    /\ Becomes(DispatchRemove(State(slice, windows), {k}))
    /\ UNCHANGED <<saved, moving>>

(* The operating system closes a window.  Drift goes by its label            *)
(* (closeWindow({})), and deleteLayoutsOnMosaicCloseEffect, which asks for a *)
(* key, returns: the mosaic stays.                                           *)
CloseRequested(w) ==
    /\ w \in Usable \ {Main}
    /\ windows' = windows \ {w}
    /\ cut' = cut \cup {w}
    /\ UNCHANGED <<slice, saved, moving, astray>>

(* validDrop: a leaf takes a tab unless that tab is the only one it has.     *)
ValidDrop(root, p, tab) == TabsAt(root, p) = {} \/ TabsAt(root, p) \ {tab} # {}

(* A tab dropped on a leaf of the window w (handleDrop).                     *)
DropTab(k, w) ==
    /\ IsShown(k) /\ w \in Usable
    /\ \E p \in Leaves(Root(w)), loc \in Locations, index \in {Nil, 0} :
        /\ ValidDrop(Root(w), p, k)
        /\ Divisible(w, p, loc)
        /\ TabsAt(Root(w), p) = {} => loc = "center"
        /\ index # Nil => loc = "center" /\ slice.layouts[k].windowKey = w
        /\ Becomes(CloseOnEmptyMosaic(
                State(MoveReducer(slice, k, w, loc, Root(w)[p].key, index), windows)))
    /\ UNCHANGED <<saved, moving>>

(* useMoveIntoMainWindow *)
MoveIntoMain(k) ==
    /\ IsShown(k) /\ slice.layouts[k].windowKey # Main
    /\ Becomes(CloseOnEmptyMosaic(
            State(MoveReducer(slice, k, Main, "center", Nil, Nil), windows)))
    /\ UNCHANGED <<saved, moving>>

(* The second dispatch of useOpenInNewWindow.                                *)
MoveIntoNew(st, k, w) ==
    CloseOnEmptyMosaic([st EXCEPT !.slice = MoveReducer(@, k, w, "center", Unit, Nil)])

(* A key that createMosaicWindow makes up.                                   *)
IsFresh(w) ==
    w \notin UNION {DOMAIN slice.layouts, windows, DOMAIN moving, DOMAIN saved.layouts, cut}

(* useOpenInNewWindow in the main window: both dispatches at once.           *)
OpenInNewWindow(k, w) ==
    /\ IsShown(k) /\ slice.layouts[k].windowKey = Main
    /\ IsFresh(w)
    /\ Becomes(MoveIntoNew(
            State(PlaceWindowReducer(slice, w, Main), windows \cup {w}), k, w))
    /\ UNCHANGED <<saved, moving>>

(* In another window its two dispatches come to the main one apart.          *)
PlaceNewWindow(k, w) ==
    /\ IsShown(k) /\ slice.layouts[k].windowKey # Main
    /\ IsFresh(w)
    /\ slice' = PlaceWindowReducer(slice, w, slice.layouts[k].windowKey)
    /\ windows' = windows \cup {w}
    /\ moving' = Put(moving, w, k)
    /\ UNCHANGED <<saved, cut, astray>>

(* With the effect run on the mosaics as they were before the move.          *)
MoveToNewWindowStale(w) ==
    /\ w \in DOMAIN moving
    /\ moving' = Drop(moving, {w})
    /\ IF IsTab(moving[w]) /\ w \in Mosaics
       THEN LET s == MoveReducer(slice, moving[w], w, "center", Unit, Nil)
            IN  Becomes(IF IsEmptyMosaic(Root(w)) THEN CloseWindow(State(s, windows), w)
                        ELSE State(s, windows))
       ELSE UNCHANGED <<slice, windows, cut, astray>>
    /\ UNCHANGED saved

(* If the new window's mosaic was purged meanwhile, the reducer throws.      *)
MoveToNewWindow(w) ==
    /\ w \in DOMAIN moving
    /\ moving' = Drop(moving, {w})
    /\ IF IsTab(moving[w]) /\ w \in Mosaics
       THEN Becomes(MoveIntoNew(State(slice, windows), moving[w], w))
       ELSE UNCHANGED <<slice, windows, cut, astray>>
    /\ UNCHANGED saved

(* splitMosaicNode, offered only where canSplit.                             *)
SplitMosaicNode(k) ==
    /\ IsShown(k)
    /\ LET w == slice.layouts[k].windowKey
       IN  /\ CanSplit(Root(w), k)
           /\ Root(w)[FindTabNode(Root(w), k)].key <= MaxKey * Unit
           /\ slice' = [slice EXCEPT !.mosaics[w].root = SplitTab(@, k)]
    /\ UNCHANGED <<windows, saved, moving, cut, astray>>

SelectMosaicTab(k) ==
    /\ IsTab(k) /\ k \in TabsOf(Root(slice.layouts[k].windowKey))
    /\ slice' = SelectMosaicTabReducer(slice, k)
    /\ UNCHANGED <<windows, saved, moving, cut, astray>>

(* useSyncLayout, 250 ms after the last change.                              *)
SaveWorkspace ==
    /\ moving = [w \in {} |-> Nil]
    /\ saved' = slice
    /\ NumTabs(slice) + NumTabs(saved') <= MaxTabs
    /\ UNCHANGED <<slice, windows, moving, cut, astray>>

(* setWorkspace with what was saved.                                         *)
SetWorkspace ==
    /\ Becomes(CloseOnEmptyMosaic(CreateWindows(State(saved, windows))))
    /\ UNCHANGED <<saved, moving>>

(* Clearing the mosaic of the main window only.                              *)
ClearMain ==
    /\ Becomes(DispatchRemove(State(slice, windows),
            {k \in TabKeys : IsTab(k) /\ slice.layouts[k].windowKey = Main}))
    /\ UNCHANGED <<saved, moving>>

ClearWorkspace ==
    /\ Becomes(CloseOnEmptyMosaic(State(ZeroSlice, windows)))
    /\ UNCHANGED <<saved, moving>>

Init ==
    /\ slice = ZeroSlice
    /\ windows = {Main}
    /\ saved = ZeroSlice
    /\ moving = [w \in {} |-> Nil]
    /\ cut = {} /\ astray = FALSE

Next ==
    \/ \E k \in TabKeys, w \in Wins \cup {Main} : PlaceTab(k, w) \/ DropTab(k, w)
    \/ \E k \in TabKeys \cup Wins : RemoveLayout(k)
    \/ \E k \in TabKeys : MoveIntoMain(k) \/ SplitMosaicNode(k) \/ SelectMosaicTab(k)
    \/ \E k \in TabKeys, w \in Wins : OpenInNewWindow(k, w) \/ PlaceNewWindow(k, w)
    \/ \E w \in Wins : MoveToNewWindow(w) \/ CloseRequested(w)
    \/ SaveWorkspace \/ SetWorkspace \/ ClearWorkspace

Spec == Init /\ [][Next]_vars

(***************************************************************************)
(* Properties.                                                             *)
(***************************************************************************)

(* Type invariant.  A key is kept in 64ths and has halves left to be divided *)
(* by: no lift of the model rounds where the code does not.                  *)
TypeOK ==
    /\ Main \in Mosaics /\ Mosaics \subseteq Wins \cup {Main}
    /\ windows \subseteq Wins \cup {Main}
    /\ DOMAIN slice.layouts \subseteq TabKeys \cup Wins \cup {Main}
    /\ \A w \in Mosaics : \A p \in DOMAIN Root(w) :
        /\ Root(w)[p].key \in Nat /\ Root(w)[p].key % 2 = 0
        /\ TabsAt(Root(w), p) \subseteq TabKeys
    /\ DOMAIN moving \subseteq Wins /\ cut \subseteq Wins \ windows

(* The two records of where a tab is agree (slice.ts keeps the layouts and   *)
(* the mosaics side by side): every layout shown in a mosaic has one tab, in *)
(* the mosaic of its window, and every tab has such a layout, through every  *)
(* move, purge, cascade of closing windows and change of workspace.  This is *)
(* so until a drop goes astray as DropsAlwaysLand shows: a tab in a node     *)
(* that has children is lost when the node is divided.                       *)
TabsMatchLayouts ==
    ~astray =>
        /\ \A w \in Mosaics : \A t \in TabsOf(Root(w)) :
            /\ IsTab(t) /\ slice.layouts[t].windowKey = w
            /\ Cardinality({p \in DOMAIN Root(w) : t \in TabsAt(Root(w), p)}) = 1
        /\ \A k \in DOMAIN slice.layouts : IsTab(k) =>
            /\ slice.layouts[k].windowKey \in Mosaics
            /\ k \in TabsOf(Root(slice.layouts[k].windowKey))

(* The tree is one that Mosaic.tsx can render: keys, by which React and the  *)
(* reducers tell nodes apart, are different although gc gives out new ones,  *)
(* no leaf but a lone root is empty, and a leaf that has tabs shows one of   *)
(* them (gc, liftUp, resetSelection).  Until a drop goes astray; with types. *)
MosaicShape ==
    /\ TypeOK
    /\ ~astray => \A w \in Mosaics :
        /\ \A p, q \in DOMAIN Root(w) : Root(w)[p].key = Root(w)[q].key => p = q
        /\ \A p \in Leaves(Root(w)) :
            /\ p # 1 => TabsAt(Root(w), p) # {}
            /\ TabsAt(Root(w), p) # {} => Root(w)[p].selected \in TabsAt(Root(w), p)

(* Whether every drop of a tab on a leaf lands where it was aimed, although  *)
(* moveTab removes the tab first and gc may give the target another key: in  *)
(* the center of a leaf the tab joins that leaf's tabs, at a side it gets a  *)
(* leaf beside theirs, and the other tabs stay together.                     *)
DropsLandIn(root) ==
    \A t \in TabsOf(root), p \in Leaves(root), loc \in Locations :
        LET new    == MoveTab(root, t, loc, root[p].key, Nil)
            others == TabsAt(root, p) \ {t}
            at     == FindTab(new, t)
        IN  others # {} =>
                IF loc = "center" THEN TabsAt(new, at) = others \cup {t}
                ELSE /\ TabsAt(new, at) = {t}
                     /\ TabsAt(new, IF loc = "left" THEN at + 1 ELSE at - 1) = others

(* In a tree whose keys are those types.ts gives them (a node's children     *)
(* have twice its key and one more), every drop lands: moveTab's removal may *)
(* lift the target or one of its ancestors, and findMosaicNode still finds   *)
(* the target or what took its place.                                        *)
DropLands ==
    \A w \in Mosaics :
        (\A p \in DOMAIN Root(w) : Root(w)[p].key = Unit * p) => DropsLandIn(Root(w))

(* What insertTab's comment says of a key that is not found ("the tab is     *)
(* inserted into the closest ancestor. This is to deal with mosaic garbage   *)
(* collection."): every drop lands, whatever keys gc has left behind.        *)
DropsAlwaysLand == \A w \in Mosaics : DropsLandIn(Root(w))

(* A mosaic is shown: the window of every secondary mosaic is open, and the  *)
(* mosaic has tabs unless the window was just placed and waits for its first *)
(* one (purgeEmptyMosaics, closeWindowOnEmptyMosaicEffect,                   *)
(* createWindowsOnSetWorkspaceEffect).  The exceptions, which last until the *)
(* window is opened again with its workspace, are a window that some other   *)
(* dispatch closed while it waited and one that the operating system closed. *)
MosaicsAreShown ==
    \A w \in Mosaics \ ({Main} \cup cut) :
        w \in windows /\ (IsEmptyMosaic(Root(w)) => w \in DOMAIN moving)

(* The window each tab is in.                                                *)
Placement(s) ==
    [t \in TabKeys |-> IF t \in DOMAIN s.layouts THEN s.layouts[t].windowKey ELSE Nil]

Abstract == INSTANCE TabPlacement WITH
    Windows <- Wins \cup {Main}, Closed <- Nil,
    at <- Placement(slice), saved <- Placement(saved)

(* The slice implements TabPlacement: whatever a dispatch and its effects do *)
(* to the trees, one tab is opened, moved or closed, or whole windows close, *)
(* or the saved placement comes back.                                        *)
ImplementsTabPlacement == Abstract!Spec

(* A tab that another window than the main one opens in a new window is kept *)
(* (useOpenInNewWindow.ts, whose two dispatches others come between), unless *)
(* it was the last of its old window: that one then closes, and              *)
(* deleteLayoutsOnMosaicCloseEffect closes the windows it placed as well.    *)
OpenedTabIsKept ==
    [][\A w \in DOMAIN moving \ DOMAIN moving' :
        w \in Mosaics /\ IsTab(moving[w])
            /\ TabsOf(Root(slice.layouts[moving[w]].windowKey)) # {moving[w]}
        => moving[w] \in DOMAIN slice'.layouts]_vars
=============================================================================
