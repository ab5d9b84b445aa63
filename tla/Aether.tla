------------------------------- MODULE Aether -------------------------------
(***************************************************************************)
(* Aether (src/pluto/src/aether): React components on the main thread and  *)
(* the components that do their work on a worker thread, in a tree of the  *)
(* same shape.  The main thread sends updates and deletes for a path; the  *)
(* worker applies them one at a time (Root's mutex), hands context values  *)
(* down its tree, and may send a new state back.                           *)
(*                                                                         *)
(* A component is known by its key; its path is that of its parent and the *)
(* key, and is fixed while it is mounted.  Message ports are FIFO.         *)
(***************************************************************************)
EXTENDS Naturals, Sequences, FiniteSets, SequencesExt

CONSTANTS Keys,       \* the components of the application
          Parent,     \* the enclosing composite of each, or Root
          Root,       \* the key of the worker's root component
          Provides,   \* the context keys a component sets from its state
          Announces,  \* those it sets with trigger, so that its children are told
          Handled,    \* components used with an onReceive
          Reidentified, \* components whose type or onReceive may change
          Values,     \* states a component can be in
          NoValue,    \* the state of a component that is not mounted
          MaxRenders, \* bound: what the main thread does
          MaxReports, \* bound: states that worker components set themselves
          MaxFaults   \* bound: afterUpdate calls that throw

ASSUME AetherAssumption ==
  /\ IsFiniteSet(Keys) /\ Root \notin Keys /\ Parent \in [Keys -> Keys \cup {Root}]
  /\ DOMAIN Provides = Keys /\ DOMAIN Announces = Keys
  /\ \A k \in Keys : Announces[k] \subseteq Provides[k]
  /\ Reidentified \subseteq Keys /\ Handled \subseteq Keys
  /\ NoValue \notin Values
  /\ {MaxRenders, MaxReports, MaxFaults} \subseteq Nat

VARIABLES
  local,     \* main: the React state of each component, NoValue: not mounted
  effects,   \* main: components whose identity effect has yet to run
  cleanup,   \* main: components whose last effect left a cleanup
  registry,  \* main: per key, whether the registered handler is mounted
  toWorker,  \* messages of the main thread
  toMain,    \* messages of the worker
  tree,      \* worker: the components, by path
  deleted,   \* worker: keys of components that are deleted, with live callbacks
  dirty,     \* history: paths whose last update was cut short by a throw
  crossed,   \* history: components both sides have set at the same time, or
             \* whose worker was not heard
  left       \* what remains of the bounds

vars == <<local, effects, cleanup, registry, toWorker, toMain, tree, deleted,
          dirty, crossed, left>>
mainVars == <<local, effects, cleanup, registry>>

-----------------------------------------------------------------------------
(* Paths.                                                                  *)

\* useLifecycle: [...ctx.path, key].  Its memo compares ctx.path only.
PathOf(k) ==
  LET P[j \in Keys \cup {Root}] == IF j = Root THEN <<Root>> ELSE Append(P[Parent[j]], j)
  IN P[k]

\* Composites do not enclose themselves, at whatever distance.
ASSUME NestingAssumption ==
  \A ks \in SUBSET Keys : ks # {} => \E k \in ks : Parent[k] \notin ks

Mounted == {k \in Keys : local[k] # NoValue}
Below(p, q) == IsStrictPrefix(p, q)
AtOrBelow(p, q) == IsPrefix(p, q)
Subtree(k) == {j \in Mounted : AtOrBelow(PathOf(k), PathOf(j))}

\* React commits deletions parents first: the orders of ks that do.
ParentsFirst(ks) ==
  {order \in [1 .. Cardinality(ks) -> ks] :
     /\ Range(order) = ks
     /\ \A i, j \in DOMAIN order : i < j => Len(PathOf(order[i])) <= Len(PathOf(order[j]))}

-----------------------------------------------------------------------------
(* The worker's tree.                                                      *)

Over(f, g) == [x \in DOMAIN f \cup DOMAIN g |-> IF x \in DOMAIN f THEN f[x] ELSE g[x]]
NoCtx == [x \in {} |-> NoValue]

\* childCtx: a composite's own values hide those of its parents.
childCtx(node) == Over(node.child, node.parent)

\* afterUpdate: sets its context values, and has now seen state and context.
afterUpdate(node) ==
  [node EXCEPT !.child = Over([x \in Provides[node.key] |-> node.state], @),
               !.seen = [state |-> node.state, ctx |-> node.parent]]

\* Leaf._updateContext
updateContext(node, values) == afterUpdate([node EXCEPT !.parent = Over(values, @)])

create(k, ctx) == [key |-> k, state |-> NoValue, parent |-> ctx, child |-> NoCtx,
                   seen |-> [state |-> NoValue, ctx |-> NoCtx]]

\* Mutant: an update that repeats the last one is skipped.
updateStateDedup(node, v) ==
  IF v = node.seen.state THEN node ELSE afterUpdate([node EXCEPT !.state = v])

updateState(node, v) == afterUpdate([node EXCEPT !.state = v])

\* The component a path leads to can be reached: everything above it is there.
Reachable(t, p) == Front(p) \in DOMAIN t

\* Mutant: only the children of the component hear of its context.
updateChildContextsShallow(t, p, ps) ==
  [q \in DOMAIN t |-> IF q \in ps /\ Len(q) = Len(p) + 1
                      THEN updateContext(t[q], childCtx(t[p])) ELSE t[q]]

\* updateChildContexts: down the tree from p, each from its own parent, for
\* those descendants in ps (all of them unless an afterUpdate throws).
updateChildContexts(t, p, ps) ==
  LET Given[q \in DOMAIN t] ==     \* the context that q hands to its children
        childCtx(IF q \in ps THEN updateContext(t[q], Given[Front(q)]) ELSE t[q])
  IN [q \in DOMAIN t |-> IF q \in ps THEN updateContext(t[q], Given[Front(q)]) ELSE t[q]]

Descendants(t, p) == {q \in DOMAIN t : Below(p, q)}

\* Composite._updateState for a message that reaches its component.  Children are
\* told, of all values, if one was set with trigger; ps: the descendants whose
\* context is updated before something throws.
applyUpdate(t, p, k, v, ps) ==
  IF p \in DOMAIN t
  THEN LET u == [t EXCEPT ![p] = updateState(@, v)]
       IN IF Announces[k] = {} THEN u ELSE updateChildContexts(u, p, ps)
  ELSE [q \in DOMAIN t \cup {p} |->
          IF q = p THEN updateState(create(k, childCtx(t[Front(p)])), v) ELSE t[q]]

applyDelete(t, p) == [q \in {x \in DOMAIN t : ~AtOrBelow(p, x)} |-> t[q]]

-----------------------------------------------------------------------------
(* The main thread.                                                        *)

Update(k, v) == [variant |-> "update", path |-> PathOf(k), key |-> k, state |-> v]
Delete(k) == [variant |-> "delete", path |-> PathOf(k), key |-> k]
MapSeq(Op(_), s) == [i \in DOMAIN s |-> Op(s[i])]

\* A message about k is on its way.
Sent(queue, k) == \E i \in DOMAIN queue : queue[i].key = k

\* React flushes effects that are due before it renders again.
CanRender == effects = {} /\ left.renders > 0

Spend(what) == left' = [left EXCEPT ![what] = @ - 1]

\* First render: the component is created at once, so before its children.
Mount(k) ==
  /\ CanRender /\ k \notin Mounted /\ Parent[k] \in Mounted \cup {Root}
  /\ \E v \in Values :
       /\ local' = [local EXCEPT ![k] = v]
       /\ toWorker' = Append(toWorker, Update(k, v))
  /\ registry' = [registry EXCEPT ![k] = "live"]
  /\ crossed' = IF Sent(toMain, k)
                THEN crossed \cup {k} ELSE crossed \ {k}
  /\ Spend("renders")
  /\ UNCHANGED <<effects, cleanup, toMain, tree, deleted, dirty>>

\* use's setState, and useUnidirectional's.
SetState(k) ==
  /\ k \in Mounted /\ left.renders > 0
  /\ \E v \in Values :
       /\ local' = [local EXCEPT ![k] = v]
       /\ toWorker' = Append(toWorker, Update(k, v))
  /\ crossed' = IF Sent(toMain, k)
                THEN crossed \cup {k} ELSE crossed
  /\ Spend("renders")
  /\ UNCHANGED <<effects, cleanup, registry, toMain, tree, deleted, dirty>>

\* The type or the onReceive of a mounted component changes.
Reidentify(k) ==
  /\ CanRender /\ k \in Mounted \cap Reidentified
  /\ effects' = {k}
  /\ Spend("renders")
  /\ UNCHANGED <<local, cleanup, registry, toWorker, toMain, tree, deleted, dirty, crossed>>

\* Mutant: the cleanup runs after the component was created again.
EffectMessagesSwapped(k, v) ==
  <<Update(k, v)>> \o (IF k \in cleanup THEN <<Delete(k)>> ELSE <<>>)

\* The previous cleanup, if the effect left one, then the component again.
EffectMessages(k, v) ==
  (IF k \in cleanup THEN <<Delete(k)>> ELSE <<>>) \o <<Update(k, v)>>

\* The React state stays; the worker is sent the initial one.
RunEffects(k) ==
  /\ k \in effects
  /\ \E v \in Values : toWorker' = toWorker \o EffectMessages(k, v)
  /\ registry' = [registry EXCEPT ![k] = "live"]
  /\ crossed' = crossed \cup {k}
  /\ cleanup' = cleanup \cup {k}
  /\ effects' = effects \ {k}
  /\ UNCHANGED <<local, toMain, tree, deleted, dirty, left>>

\* Mutant: the registration goes with the component.
Unregister(ks) == [k \in Keys |-> IF k \in ks THEN "none" ELSE registry[k]]
\* The registration stays, its handler sets the state of nothing.
Retire(ks) == [k \in Keys |-> IF k \in ks THEN "retired" ELSE registry[k]]

Unmount(k) ==
  /\ CanRender /\ k \in Mounted
  /\ LET gone == Subtree(k) IN
     /\ local' = [j \in Keys |-> IF j \in gone THEN NoValue ELSE local[j]]
     /\ \E order \in ParentsFirst(gone) : toWorker' = toWorker \o MapSeq(Delete, order)
     /\ registry' = Retire(gone)
     /\ cleanup' = cleanup \ gone
  /\ Spend("renders")
  /\ UNCHANGED <<effects, toMain, tree, deleted, dirty, crossed>>

\* Provider's handler: a key without a registration would throw, a component
\* without an onReceive does, and the message is lost.
ReceiveMain ==
  /\ toMain # <<>>
  /\ LET msg == Head(toMain) IN
     \/ /\ msg.key \in Handled
        /\ local' = IF registry[msg.key] = "live"
                    THEN [local EXCEPT ![msg.key] = msg.state] ELSE local
        /\ UNCHANGED crossed
     \/ /\ msg.key \notin Handled
        /\ crossed' = crossed \cup {msg.key}
        /\ UNCHANGED local
  /\ toMain' = Tail(toMain)
  /\ UNCHANGED <<effects, cleanup, registry, toWorker, tree, deleted, dirty, left>>

-----------------------------------------------------------------------------
(* The worker.                                                             *)

\* Some component above p, or p itself, was left half updated.
Marred(p) == \E q \in dirty : AtOrBelow(q, p)

HandleUpdate ==
  /\ toWorker # <<>> /\ Head(toWorker).variant = "update"
  /\ LET msg == Head(toWorker)
         p == msg.path
     IN \/ /\ Reachable(tree, p)
           /\ tree' = applyUpdate(tree, p, msg.key, msg.state, Descendants(tree, p))
           /\ deleted' = deleted
           /\ dirty' = dirty \ ({p} \cup IF Announces[msg.key] = {} THEN {}
                                         ELSE Descendants(tree, p))
        \/ /\ ~Reachable(tree, p)         \* throws: the message is lost
           /\ dirty' = IF Marred(p) THEN dirty \cup {p} ELSE dirty
           /\ UNCHANGED <<tree, deleted>>
  /\ toWorker' = Tail(toWorker)
  /\ UNCHANGED <<mainVars, toMain, crossed, left>>

\* An afterUpdate throws: of a new component, which is then never added; of the
\* component itself; or of a descendant, and those after it stay as they were.
HandleUpdateThrows ==
  /\ toWorker # <<>> /\ Head(toWorker).variant = "update" /\ left.faults > 0
  /\ LET msg == Head(toWorker)
         p == msg.path
     IN /\ Reachable(tree, p)
        /\ \E done \in SUBSET Descendants(tree, p) :
             /\ \A q \in done : Front(q) \in done \cup {p}
             /\ tree' = IF p \notin DOMAIN tree THEN tree
                        ELSE applyUpdate(tree, p, msg.key, msg.state, done)
        /\ dirty' = dirty \cup {p}
  /\ toWorker' = Tail(toWorker)
  /\ Spend("faults")
  /\ UNCHANGED <<mainVars, toMain, deleted, crossed>>

\* Composite._delete: what is not there is not deleted; children go with it.
HandleDelete ==
  /\ toWorker # <<>> /\ Head(toWorker).variant = "delete"
  /\ LET p == Head(toWorker).path IN
     /\ tree' = applyDelete(tree, p)
     /\ deleted' = deleted \cup {Last(q) : q \in {x \in DOMAIN tree : AtOrBelow(p, x)}}
     /\ dirty' = {q \in dirty : ~AtOrBelow(p, q)}
  /\ toWorker' = Tail(toWorker)
  /\ UNCHANGED <<mainVars, toMain, crossed, left>>

\* Leaf.setState, called by the component outside of the mutex.
Report(k) ==
  /\ left.reports > 0 /\ PathOf(k) \in DOMAIN tree
  /\ \E v \in Values :
       /\ tree' = [tree EXCEPT ![PathOf(k)].state = v]
       /\ toMain' = Append(toMain, [key |-> k, state |-> v])
  /\ crossed' = IF Sent(toWorker, k) THEN crossed \cup {k} ELSE crossed
  /\ Spend("reports")
  /\ UNCHANGED <<mainVars, toWorker, deleted, dirty>>

\* The same, by a callback of a component that was deleted in the meantime.
ReportLate(k) ==
  /\ left.reports > 0 /\ k \in deleted
  /\ \E v \in Values : toMain' = Append(toMain, [key |-> k, state |-> v])
  /\ crossed' = crossed \cup {k}
  /\ Spend("reports")
  /\ UNCHANGED <<mainVars, toWorker, tree, deleted, dirty>>

-----------------------------------------------------------------------------
Init ==
  /\ local = [k \in Keys |-> NoValue]
  /\ effects = {} /\ cleanup = {}
  /\ registry = [k \in Keys |-> "none"]
  /\ toWorker = <<>> /\ toMain = <<>>
  /\ tree = [p \in {<<Root>>} |-> create(Root, NoCtx)]
  /\ deleted = {} /\ dirty = {} /\ crossed = {}
  /\ left = [renders |-> MaxRenders, reports |-> MaxReports, faults |-> MaxFaults]

Next ==
  \/ \E k \in Keys : Mount(k) \/ SetState(k) \/ Reidentify(k) \/ Unmount(k)
  \/ \E k \in Keys : Report(k) \/ ReportLate(k)
  \/ \E k \in Keys : RunEffects(k)
  \/ ReceiveMain
  \/ HandleUpdate \/ HandleUpdateThrows \/ HandleDelete

Spec == Init /\ [][Next]_vars

-----------------------------------------------------------------------------
(* Properties.                                                             *)

Ctx == UNION {[c -> Values] : c \in SUBSET UNION {Provides[k] : k \in Keys}}
Node == [key : Keys \cup {Root}, state : Values \cup {NoValue}, parent : Ctx,
         child : Ctx, seen : [state : Values \cup {NoValue}, ctx : Ctx]]
Message == [variant : {"update"}, path : Seq(Keys \cup {Root}), key : Keys, state : Values]
             \cup [variant : {"delete"}, path : Seq(Keys \cup {Root}), key : Keys]

\* The worker's tree has no component whose parent is not in it.
TypeOK ==
  /\ local \in [Keys -> Values \cup {NoValue}]
  /\ effects \subseteq Mounted /\ cleanup \subseteq Mounted
  /\ registry \in [Keys -> {"none", "live", "retired"}]
  /\ toWorker \in Seq(Message)
  /\ toMain \in Seq([key : Keys, state : Values])
  /\ \A p \in DOMAIN tree \ {<<Root>>} : Front(p) \in DOMAIN tree
  /\ deleted \subseteq Keys /\ crossed \subseteq Keys
  /\ left \in [renders : Nat, reports : Nat, faults : Nat]

Settled == effects = {} /\ toWorker = <<>>

\* Once the worker has caught up its tree holds exactly the mounted components:
\* none was updated before its parent was created (useLifecycle creates on first
\* render for that), none outlives its unmount, however renders, unmounts, changes
\* of identity and the worker's progress interleave.  An afterUpdate that throws
\* can only cost the components at or below the one whose update it cut short.
\* With type correctness.
TreesMatch ==
  /\ TypeOK
  /\ Settled =>
      \A k \in Keys : Marred(PathOf(k)) \/ (PathOf(k) \in DOMAIN tree <=> k \in Mounted)

\* Reference: who above p has set a value for x, and the nearest of them.
Setters(p, x) == {q \in DOMAIN tree : Below(q, p) /\ x \in DOMAIN tree[q].child}
Nearest(p, x) ==
  CHOOSE q \in Setters(p, x) : \A r \in Setters(p, x) : Len(r) <= Len(q)

\* Between two messages every component has, of each value that is announced, the
\* one the nearest above it set last, and its afterUpdate has run with what it has,
\* through updates of any ancestor, silent ones in between, children created and
\* deleted, and a throw that a later update makes good.  (A value set without
\* trigger, like the render controller's, may be an old one.)  With the types of
\* the tree's components.
ContextsAgree ==
  /\ \A p \in DOMAIN tree : tree[p] \in Node
  /\ \A p \in DOMAIN tree \ {<<Root>>} :
       /\ tree[p].key = Last(p)
       /\ Marred(p) \/
          /\ tree[p].seen.ctx = tree[p].parent
          /\ \A x \in UNION {Provides[k] : k \in Keys} :
               Setters(p, x) # {} /\ x \in Announces[tree[Nearest(p, x)].key] =>
                 /\ x \in DOMAIN tree[p].parent
                 /\ tree[p].parent[x] = tree[Nearest(p, x)].child[x]

\* The Provider finds the component of every message of the worker: its key is
\* registered, even if it was unmounted, deleted, or mounted again meanwhile.
ReportsHaveHandler == \A i \in DOMAIN toMain : registry[toMain[i].key] # "none"

Quiet == Settled /\ toMain = <<>>

\* When nothing is under way the two states of a component are equal, unless
\* both sides set it before either had heard of the other, or the worker set the
\* state of a component that takes none.
AgreeUnlessCrossed ==
  Quiet => \A k \in Mounted \ crossed :
             Marred(PathOf(k)) \/ tree[PathOf(k)].state = local[k]
=============================================================================
