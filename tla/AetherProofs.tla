---------------------------- MODULE AetherProofs ----------------------------
(***************************************************************************)
(* Proofs about Aether, for any components in any tree, any renders, any   *)
(* interleaving of the two threads and any afterUpdate that throws.        *)
(***************************************************************************)
EXTENDS Aether, FiniteSetTheorems, WellFoundedInduction, TLAPS

-----------------------------------------------------------------------------
(* The inductive invariant.                                                *)

(* Whatever the worker has or will hear of was registered, and only what   *)
(* is mounted is registered as live.                                       *)
Registered ==
  /\ \A k \in Keys : registry[k] = "live" <=> k \in Mounted
  /\ \A i \in DOMAIN toMain : registry[toMain[i].key] # "none"
  /\ \A i \in DOMAIN toWorker :
        registry[toWorker[i].key] # "none" /\ toWorker[i].path = PathOf(toWorker[i].key)
  /\ <<Root>> \in DOMAIN tree
  /\ \A p \in DOMAIN tree \ {<<Root>>} : \E k \in Keys : p = PathOf(k) /\ registry[k] # "none"
  /\ \A k \in deleted : registry[k] # "none"

(* A component is mounted in a mounted composite.                          *)
Enclosed == \A k \in Mounted : Parent[k] \in Mounted \cup {Root}

Creates(msg, k) == msg.variant = "update" /\ msg.key = k
Removes(msg, k) == msg.variant = "delete" /\ AtOrBelow(msg.path, PathOf(k))

(* Of what is not mounted the worker will be told, last of all, to delete  *)
(* it.                                                                     *)
Doomed ==
  \A k \in Keys \ Mounted :
    PathOf(k) \in DOMAIN tree \/ (\E i \in DOMAIN toWorker : Creates(toWorker[i], k)) =>
      \E j \in DOMAIN toWorker :
        /\ Removes(toWorker[j], k)
        /\ \A i \in DOMAIN toWorker : Creates(toWorker[i], k) => i < j

(* Every component of the tree has a state.                                *)
HaveState(t) == \A p \in DOMAIN t : "state" \in DOMAIN t[p]
Stateful == HaveState(tree)

Base == TypeOK /\ Registered /\ Enclosed /\ Doomed /\ Stateful

(* k will be held, or was, and nothing removes it, once the first n        *)
(* messages of q have been handled.                                        *)
HeldAfter(q, held, k, n) ==
  \/ k = Root
  \/ /\ PathOf(k) \in held
     /\ \A j \in 1 .. n : ~Removes(q[j], k)
  \/ \E i \in 1 .. n :
       /\ Creates(q[i], k)
       /\ \A j \in i + 1 .. n : ~Removes(q[j], k)

Held == DOMAIN tree \cup dirty

(* The worker will hold what is mounted, and will hold a component's       *)
(* parent when it hears of the component, unless an afterUpdate threw.     *)
Followed ==
  /\ effects \subseteq Reidentified
  /\ \A k \in Mounted : HeldAfter(toWorker, Held, k, Len(toWorker))
  /\ \A i \in DOMAIN toWorker :
       toWorker[i].variant = "update" =>
         HeldAfter(toWorker, Held, Parent[toWorker[i].key], i - 1)

(* i is the last message about k in q.                                     *)
IsLast(q, i, k) ==
  /\ i \in DOMAIN q /\ q[i].key = k
  /\ \A j \in DOMAIN q : j > i => q[j].key # k

(* The states of k: what is on its way, in one direction only, is the      *)
(* sender's state.                                                         *)
Agreed(k) ==
  /\ ~Sent(toMain, k) \/ ~Sent(toWorker, k)
  /\ \A i \in DOMAIN toWorker :
       IsLast(toWorker, i, k) =>
         toWorker[i].variant = "update" /\ toWorker[i].state = local[k]
  /\ PathOf(k) \in DOMAIN tree =>
       /\ \A i \in DOMAIN toMain :
            IsLast(toMain, i, k) => toMain[i].state = tree[PathOf(k)].state
       /\ ~Sent(toMain, k) /\ ~Sent(toWorker, k) => tree[PathOf(k)].state = local[k]

States == \A k \in Mounted \ crossed : Agreed(k)

-----------------------------------------------------------------------------
(* Facts about paths.                                                      *)

Paths == Seq(Keys \cup {Root})

(* A prefix has the same elements as far as it goes.                       *)
LEMMA PrefixFacts ==
  ASSUME NEW S, NEW s \in Seq(S), NEW t \in Seq(S)
  PROVE  IsPrefix(s, t) <=> Len(s) <= Len(t) /\ \A i \in 1 .. Len(s) : s[i] = t[i]
<1>1. SubSeq(s, 1, Len(s)) = s
  OBVIOUS
<1>2. ASSUME Len(s) <= Len(t)
      PROVE  /\ SubSeq(t, 1, Len(s)) \in Seq(S) /\ Len(SubSeq(t, 1, Len(s))) = Len(s)
             /\ \A i \in 1 .. Len(s) : SubSeq(t, 1, Len(s))[i] = t[i]
  BY <1>2
<1> QED
  BY <1>1, <1>2 DEF IsPrefix

LEMMA PathPrefix ==
  ASSUME NEW s \in Paths, NEW t \in Paths
  PROVE  AtOrBelow(s, t) <=> Len(s) <= Len(t) /\ \A i \in 1 .. Len(s) : s[i] = t[i]
BY PrefixFacts DEF Paths, AtOrBelow

LEMMA SameElements ==
  ASSUME NEW S, NEW s \in Seq(S), NEW t \in Seq(S), Len(s) = Len(t),
         \A i \in 1 .. Len(s) : s[i] = t[i]
  PROVE  s = t
OBVIOUS

LEMMA PrefixTransitive ==
  ASSUME NEW s \in Paths, NEW t \in Paths, NEW u \in Paths, AtOrBelow(s, t), AtOrBelow(t, u)
  PROVE  AtOrBelow(s, u)
<1>1. /\ Len(s) <= Len(t) /\ \A i \in 1 .. Len(s) : s[i] = t[i]
      /\ Len(t) <= Len(u) /\ \A i \in 1 .. Len(t) : t[i] = u[i]
  BY PathPrefix DEF Paths
<1>2. Len(s) \in Nat /\ Len(t) \in Nat /\ Len(u) \in Nat
  BY DEF Paths
<1>3. Len(s) <= Len(u) /\ \A i \in 1 .. Len(s) : s[i] = u[i]
  BY <1>1, <1>2
<1> QED
  BY <1>3, PathPrefix DEF Paths

LEMMA PrefixReflexive == ASSUME NEW s \in Paths PROVE AtOrBelow(s, s)
BY PathPrefix DEF Paths

(* Composites do not enclose themselves, so each path is that of the       *)
(* enclosing composite and the key: the paths of components exist.         *)
LEMMA PathsExist ==
  \E h : h = [j \in Keys \cup {Root} |-> IF j = Root THEN <<Root>> ELSE Append(h[Parent[j]], j)]
<1> DEFINE all == Keys \cup {Root}
           E(h, j) == IF j = Root THEN <<Root>> ELSE Append(h[Parent[j]], j)
           Sol(h, A) == /\ A \subseteq all /\ Root \in A /\ \A j \in A \ {Root} : Parent[j] \in A
                        /\ \A j \in A : h[j] = E(h, j)
           Known(k) == \E h, A : Sol(h, A) /\ k \in A
<1>1. \A k \in Keys : Parent[k] \in all /\ k # Root
  BY AetherAssumption
<1>2. Known(Root)
  <2> DEFINE h == [j \in {Root} |-> <<Root>>]
  <2>1. Sol(h, {Root})
    OBVIOUS
  <2> QED
    BY <2>1
<1>3. ASSUME NEW k \in Keys, Known(Parent[k]) PROVE Known(k)
  <2>1. PICK h, A : Sol(h, A) /\ Parent[k] \in A
    BY <1>3
  <2> SUFFICES ASSUME k \notin A PROVE Known(k)
    BY <2>1
  <2> DEFINE B == A \cup {k}
             g == [j \in B |-> IF j \in A THEN h[j] ELSE Append(h[Parent[k]], k)]
  <2>2. \A j \in A : g[j] = h[j]
    OBVIOUS
  <2>3. g[k] = Append(h[Parent[k]], k) /\ g[Parent[k]] = h[Parent[k]]
    BY <2>1
  <2> HIDE DEF g
  <2>4. ASSUME NEW j \in B PROVE g[j] = E(g, j)
    <3>1. CASE j = k
      BY <1>1, <2>3, <3>1
    <3>2. CASE j \in A
      <4>1. h[j] = E(h, j) /\ (j # Root => Parent[j] \in A)
        BY <2>1, <3>2
      <4> QED
        BY <2>2, <3>2, <4>1
    <3> QED
      BY <3>1, <3>2
  <2>5. B \subseteq all /\ Root \in B /\ \A j \in B \ {Root} : Parent[j] \in B
    BY <2>1
  <2>6. Sol(g, B) /\ k \in B
    BY <2>4, <2>5
  <2> HIDE DEF Sol, B
  <2> QED
    BY <2>6
<1> HIDE DEF Known
<1>4. \A k \in all : Known(k)
  <2> DEFINE S == {k \in Keys : ~Known(k)}
  <2>1. ASSUME S # {} PROVE FALSE
    <3>1. PICK k \in S : Parent[k] \notin S
      BY <2>1, NestingAssumption
    <3> QED
      BY <1>1, <1>2, <1>3, <3>1
  <2> QED
    BY <1>2, <2>1
<1>5. ASSUME NEW h, NEW A, Sol(h, A), NEW g, NEW B, Sol(g, B), NEW k \in A \cap B
      PROVE  h[k] = g[k]
  <2> DEFINE S == {j \in Keys : j \in A \cap B /\ h[j] # g[j]}
  <2>1. h[Root] = g[Root]
    BY <1>5
  <2>2. ASSUME S # {} PROVE FALSE
    <3>1. PICK j \in S : Parent[j] \notin S
      BY <2>2, NestingAssumption
    <3>2. /\ j # Root /\ j \in A \cap B /\ h[j] # g[j] /\ Parent[j] \in A \cap B
          /\ Parent[j] \in all
      BY <1>1, <1>5
    <3>3. h[Parent[j]] = g[Parent[j]]
      BY <2>1, <3>1, <3>2
    <3>4. h[j] = Append(h[Parent[j]], j) /\ g[j] = Append(g[Parent[j]], j)
      BY <1>5, <3>2
    <3> QED
      BY <3>2, <3>3, <3>4
  <2> QED
    BY <1>5, <2>1, <2>2
<1> DEFINE At(k) == CHOOSE h : \E A : Sol(h, A) /\ k \in A
           H == [k \in all |-> At(k)[k]]
<1>6. ASSUME NEW k \in all PROVE \E A : Sol(At(k), A) /\ k \in A
  <2> HIDE DEF Sol
  <2> QED
    BY <1>4 DEF Known
<1> HIDE DEF At
<1>7. ASSUME NEW k \in all PROVE H[k] = E(H, k)
  <2>1. PICK A : Sol(At(k), A) /\ k \in A
    BY <1>6
  <2>2. H[k] = At(k)[k] /\ At(k)[k] = E(At(k), k)
    BY <2>1
  <2>3. CASE k = Root
    BY <2>2, <2>3
  <2>4. CASE k # Root
    <3>1. Parent[k] \in all /\ Parent[k] \in A
      BY <1>1, <2>1, <2>4
    <3>2. PICK B : Sol(At(Parent[k]), B) /\ Parent[k] \in B
      BY <1>6, <3>1
    <3> HIDE DEF Sol
    <3>3. At(k)[Parent[k]] = At(Parent[k])[Parent[k]]
      BY <1>5, <2>1, <3>1, <3>2
    <3>4. H[Parent[k]] = At(k)[Parent[k]]
      BY <3>1, <3>3
    <3> HIDE DEF H
    <3> QED
      BY <2>2, <2>4, <3>4
  <2> QED
    BY <2>3, <2>4
<1>8. H = [k \in all |-> H[k]]
  OBVIOUS
<1> HIDE DEF H
<1>9. H = [k \in all |-> E(H, k)]
  BY <1>7, <1>8
<1> QED
  BY <1>9

LEMMA PathRecursion ==
  /\ \A k \in Keys \cup {Root} : PathOf(k) \in Seq(Keys \cup {Root})
  /\ PathOf(Root) = <<Root>>
  /\ \A k \in Keys : PathOf(k) = Append(PathOf(Parent[k]), k)
<1> DEFINE G(h) == h = [j \in Keys \cup {Root} |->
                          IF j = Root THEN <<Root>> ELSE Append(h[Parent[j]], j)]
           P == CHOOSE h : G(h)
<1>1. G(P)
  BY PathsExist
<1>2. \A k : PathOf(k) = P[k]
  BY DEF PathOf
<1> HIDE DEF P
<1>3. \A k \in Keys : Parent[k] \in Keys \cup {Root} /\ k # Root
  BY AetherAssumption
<1>4. P[Root] = <<Root>> /\ \A k \in Keys : P[k] = Append(P[Parent[k]], k)
  BY <1>1, <1>3
<1>5. \A k \in Keys \cup {Root} : P[k] \in Seq(Keys \cup {Root})
  <2> DEFINE S == {k \in Keys : P[k] \notin Seq(Keys \cup {Root})}
  <2>1. P[Root] \in Seq(Keys \cup {Root})
    BY <1>4
  <2>2. ASSUME S # {} PROVE FALSE
    <3>1. PICK k \in S : Parent[k] \notin S
      BY <2>2, NestingAssumption
    <3>2. P[Parent[k]] \in Seq(Keys \cup {Root}) /\ k \in Keys
      BY <1>3, <2>1, <3>1
    <3>3. Append(P[Parent[k]], k) \in Seq(Keys \cup {Root})
      BY <3>2
    <3> QED
      BY <1>4, <3>2, <3>3
  <2> QED
    BY <2>1, <2>2
<1> QED
  BY <1>2, <1>4, <1>5

(* The path of a component ends with its key, after the path of its parent. *)
LEMMA PathFacts ==
  ASSUME NEW k \in Keys
  PROVE  /\ PathOf(k) \in Paths /\ Last(PathOf(k)) = k /\ PathOf(k) # <<Root>>
         /\ Parent[k] \in Keys \cup {Root} /\ PathOf(Parent[k]) \in Paths
         /\ Front(PathOf(k)) = PathOf(Parent[k])
         /\ AtOrBelow(PathOf(Parent[k]), PathOf(k))
         /\ ~AtOrBelow(PathOf(k), PathOf(Parent[k]))
         /\ ~AtOrBelow(PathOf(k), <<Root>>)
<1> DEFINE s == PathOf(Parent[k])
<1> DEFINE t == PathOf(k)
<1>1. k # Root /\ Parent[k] \in Keys \cup {Root}
  BY AetherAssumption
<1>2. s \in Paths /\ t \in Paths /\ t = Append(s, k) /\ k \in Keys \cup {Root}
  BY <1>1, PathRecursion DEF Paths
<1>3. Len(s) # 0
  <2>1. CASE Parent[k] = Root
    BY <2>1, PathRecursion
  <2>2. CASE Parent[k] # Root
    <3>1. Parent[k] \in Keys /\ Parent[Parent[k]] \in Keys \cup {Root}
      BY <1>1, <2>2, AetherAssumption
    <3>2. s = Append(PathOf(Parent[Parent[k]]), Parent[k]) /\ PathOf(Parent[Parent[k]]) \in Paths
      BY <3>1, PathRecursion DEF Paths
    <3> HIDE DEF s
    <3> QED
      BY <3>1, <3>2 DEF Paths
  <2> QED
    BY <2>1, <2>2
<1> HIDE DEF s, t
<1>4. Len(s) \in Nat \ {0} /\ Len(t) = Len(s) + 1 /\ t[Len(t)] = k
      /\ \A i \in 1 .. Len(s) : t[i] = s[i]
  BY <1>2, <1>3 DEF Paths
<1>5. Last(t) = k
  BY <1>4 DEF Last
<1>6. Front(t) = s
  <2>1. SubSeq(t, 1, Len(t) - 1) \in Seq(Keys \cup {Root}) /\ s \in Seq(Keys \cup {Root})
        /\ Len(SubSeq(t, 1, Len(t) - 1)) = Len(s)
        /\ \A i \in 1 .. Len(s) : SubSeq(t, 1, Len(t) - 1)[i] = s[i]
    BY <1>2, <1>4 DEF Paths
  <2> DEFINE f == SubSeq(t, 1, Len(t) - 1)
  <2>2. f \in Seq(Keys \cup {Root}) /\ Len(f) = Len(s) /\ \A i \in 1 .. Len(f) : f[i] = s[i]
    BY <2>1
  <2> HIDE DEF f
  <2>3. f = s
    BY <2>1, <2>2, SameElements
  <2> QED
    BY <2>3 DEF Front, f
<1>7. AtOrBelow(s, t) /\ ~AtOrBelow(t, s)
  <2>1. /\ AtOrBelow(s, t) <=> Len(s) <= Len(t) /\ \A i \in 1 .. Len(s) : s[i] = t[i]
        /\ AtOrBelow(t, s) => Len(t) <= Len(s)
    BY <1>2, PathPrefix
  <2>2. Len(s) \in Nat /\ Len(t) = Len(s) + 1 /\ \A i \in 1 .. Len(s) : t[i] = s[i]
    BY <1>4
  <2> QED
    BY <2>1, <2>2
<1>8. t # <<Root>> /\ ~AtOrBelow(t, <<Root>>)
  <2> DEFINE r == <<Root>>
  <2>1. r \in Paths /\ Len(r) = 1
    BY DEF Paths
  <2> HIDE DEF r
  <2>2. AtOrBelow(t, r) => Len(t) <= Len(r)
    BY <1>2, <2>1, PathPrefix
  <2>3. Len(t) \in Nat /\ Len(t) > 1
    BY <1>4
  <2>4. ~(Len(t) <= Len(r))
    BY <2>1, <2>3
  <2>5. t # r
    <3> SUFFICES ASSUME t = r PROVE FALSE
      OBVIOUS
    <3>1. Len(t) = 1
      BY <2>1
    <3> QED
      BY <2>3, <3>1
  <2> QED
    BY <2>2, <2>4, <2>5 DEF r
<1> QED
  BY <1>1, <1>2, <1>5, <1>6, <1>7, <1>8 DEF s, t

LEMMA PathsDiffer ==
  ASSUME NEW j \in Keys, NEW k \in Keys, PathOf(j) = PathOf(k)
  PROVE  j = k
BY PathFacts

-----------------------------------------------------------------------------
(* Facts about the worker's tree.                                          *)

(* Setting a context and calling afterUpdate leave the state alone.        *)
LEMMA afterUpdateFacts ==
  ASSUME NEW node, "state" \in DOMAIN node
  PROVE  "state" \in DOMAIN afterUpdate(node) /\ afterUpdate(node).state = node.state
<1> DEFINE c == Over([x \in Provides[node.key] |-> node.state], node.child)
<1> DEFINE sn == [state |-> node.state, ctx |-> node.parent]
<1>1. afterUpdate(node) = [node EXCEPT !.child = c, !.seen = sn]
  BY DEF afterUpdate
<1> HIDE DEF c, sn
<1> QED
  BY <1>1

LEMMA updateContextFacts ==
  ASSUME NEW node, "state" \in DOMAIN node, NEW values
  PROVE  /\ "state" \in DOMAIN updateContext(node, values)
         /\ updateContext(node, values).state = node.state
<1> DEFINE n == [node EXCEPT !.parent = Over(values, node.parent)]
<1>1. "state" \in DOMAIN n /\ n.state = node.state
  OBVIOUS
<1>2. updateContext(node, values) = afterUpdate(n)
  BY DEF updateContext
<1> HIDE DEF n
<1> QED
  BY <1>1, <1>2, afterUpdateFacts

LEMMA updateStateFacts ==
  ASSUME NEW node, "state" \in DOMAIN node, NEW v
  PROVE  "state" \in DOMAIN updateState(node, v) /\ updateState(node, v).state = v
<1> DEFINE n == [node EXCEPT !.state = v]
<1>1. "state" \in DOMAIN n /\ n.state = v
  OBVIOUS
<1>2. updateState(node, v) = afterUpdate(n)
  BY DEF updateState
<1> HIDE DEF n
<1> QED
  BY <1>1, <1>2, afterUpdateFacts

LEMMA createFacts ==
  ASSUME NEW k, NEW ctx
  PROVE  "state" \in DOMAIN create(k, ctx)
BY DEF create

(* Handing contexts down changes neither the shape of the tree nor states. *)
LEMMA updateChildContextsFacts ==
  ASSUME NEW t, HaveState(t), NEW p, NEW ps
  PROVE  /\ DOMAIN updateChildContexts(t, p, ps) = DOMAIN t
         /\ HaveState(updateChildContexts(t, p, ps))
         /\ \A q \in DOMAIN t : updateChildContexts(t, p, ps)[q].state = t[q].state
<1>1. PICK given :
        updateChildContexts(t, p, ps) =
          [q \in DOMAIN t |-> IF q \in ps THEN updateContext(t[q], given[Front(q)]) ELSE t[q]]
  BY Zenon DEF updateChildContexts
<1> DEFINE u == updateChildContexts(t, p, ps)
<1>2. DOMAIN u = DOMAIN t
  BY <1>1
<1>3. ASSUME NEW q \in DOMAIN t
      PROVE  "state" \in DOMAIN u[q] /\ u[q].state = t[q].state
  <2>1. CASE q \in ps
    <3>1. u[q] = updateContext(t[q], given[Front(q)])
      BY <1>1, <1>3, <2>1
    <3> QED
      BY <3>1, updateContextFacts DEF HaveState
  <2>2. CASE q \notin ps
    <3>1. u[q] = t[q]
      BY <1>1, <1>3, <2>2
    <3> QED
      BY <3>1 DEF HaveState
  <2> QED
    BY <2>1, <2>2
<1> QED
  BY <1>2, <1>3 DEF HaveState

(* An update of p makes p have that state and changes no other state.      *)
Updated(t, w, p, v) ==
  /\ DOMAIN w = DOMAIN t \cup {p} /\ HaveState(w) /\ w[p].state = v
  /\ \A q \in DOMAIN t \ {p} : w[q].state = t[q].state

LEMMA applyUpdateFacts ==
  ASSUME NEW t, HaveState(t), NEW p, NEW k, NEW v, NEW ps
  PROVE  Updated(t, applyUpdate(t, p, k, v, ps), p, v)
<1> DEFINE w == applyUpdate(t, p, k, v, ps)
<1>1. CASE p \in DOMAIN t
  <2> DEFINE u == [t EXCEPT ![p] = updateState(t[p], v)]
  <2>1. /\ DOMAIN u = DOMAIN t /\ u[p] = updateState(t[p], v)
        /\ \A q \in DOMAIN t \ {p} : u[q] = t[q]
    BY <1>1
  <2>2. HaveState(u) /\ u[p].state = v
    BY <1>1, <2>1, updateStateFacts DEF HaveState
  <2>3. w = IF Announces[k] = {} THEN u ELSE updateChildContexts(u, p, ps)
    BY <1>1 DEF applyUpdate
  <2> HIDE DEF u
  <2>4. /\ DOMAIN w = DOMAIN u /\ HaveState(w)
        /\ \A q \in DOMAIN u : w[q].state = u[q].state
    BY <2>2, <2>3, updateChildContextsFacts
  <2> QED
    BY <1>1, <2>1, <2>2, <2>4 DEF Updated
<1>2. CASE p \notin DOMAIN t
  <2> DEFINE n == updateState(create(k, childCtx(t[Front(p)])), v)
  <2>1. w = [q \in DOMAIN t \cup {p} |-> IF q = p THEN n ELSE t[q]]
    BY <1>2 DEF applyUpdate
  <2>2. "state" \in DOMAIN n /\ n.state = v
    BY createFacts, updateStateFacts
  <2> HIDE DEF n
  <2>3. HaveState(w)
    BY <1>2, <2>1, <2>2 DEF HaveState
  <2> QED
    BY <1>2, <2>1, <2>2, <2>3 DEF Updated
<1> QED
  BY <1>1, <1>2

(* Messages.                                                               *)
LEMMA MessageFacts ==
  ASSUME NEW k \in Keys
  PROVE  /\ \A v \in Values :
              /\ Update(k, v) \in Message /\ Update(k, v).variant = "update"
              /\ Update(k, v).key = k /\ Update(k, v).path = PathOf(k)
              /\ Update(k, v).state = v
         /\ Delete(k) \in Message /\ Delete(k).variant = "delete"
         /\ Delete(k).key = k /\ Delete(k).path = PathOf(k)
<1>1. PathOf(k) \in Seq(Keys \cup {Root})
  BY PathRecursion
<1> QED
  BY <1>1 DEF Update, Delete, Message

-----------------------------------------------------------------------------
(* Facts about message queues.                                             *)

(* What is left of a queue whose head is taken.                            *)
LEMMA TailFacts ==
  ASSUME NEW S, NEW q \in Seq(S), q # <<>>
  PROVE  /\ Tail(q) \in Seq(S) /\ Head(q) = q[1] /\ Head(q) \in S
         /\ Len(q) \in Nat \ {0} /\ Len(Tail(q)) = Len(q) - 1
         /\ DOMAIN q = 1 .. Len(q) /\ DOMAIN Tail(q) = 1 .. Len(q) - 1
         /\ \A i \in 1 .. Len(q) - 1 : Tail(q)[i] = q[i + 1]
OBVIOUS

(* s is q with more messages behind it.                                    *)
Grows(q, s) ==
  /\ Len(q) \in Nat /\ Len(s) \in Nat /\ Len(q) <= Len(s)
  /\ DOMAIN q = 1 .. Len(q) /\ DOMAIN s = 1 .. Len(s)
  /\ \A i \in 1 .. Len(q) : s[i] = q[i]

New(q, s) == Len(q) + 1 .. Len(s)

LEMMA AppendFacts ==
  ASSUME NEW S, NEW q \in Seq(S), NEW x \in S
  PROVE  /\ Append(q, x) \in Seq(S) /\ Grows(q, Append(q, x))
         /\ Len(Append(q, x)) = Len(q) + 1 /\ Append(q, x)[Len(q) + 1] = x
BY DEF Grows

(* s is q and then r.                                                      *)
Joined(q, r, s) ==
  /\ Grows(q, s) /\ Len(s) = Len(q) + Len(r)
  /\ \A i \in 1 .. Len(r) : s[Len(q) + i] = r[i]
  /\ \A i \in New(q, s) : i - Len(q) \in 1 .. Len(r) /\ s[i] = r[i - Len(q)]

LEMMA ConcatFacts ==
  ASSUME NEW S, NEW q \in Seq(S), NEW r \in Seq(S)
  PROVE  q \o r \in Seq(S) /\ Joined(q, r, q \o r)
<1>1. /\ q \o r \in Seq(S) /\ Len(q \o r) = Len(q) + Len(r)
      /\ Len(q) \in Nat /\ Len(r) \in Nat
      /\ \A i \in 1 .. Len(q) + Len(r) : (q \o r)[i] = IF i <= Len(q) THEN q[i] ELSE r[i - Len(q)]
  OBVIOUS
<1>2. DOMAIN q = 1 .. Len(q) /\ DOMAIN (q \o r) = 1 .. Len(q \o r)
  BY <1>1
<1>3. Grows(q, q \o r)
  BY <1>1, <1>2 DEF Grows
<1> QED
  BY <1>1, <1>3 DEF New, Joined

(* Messages behind the n-th do not matter.                                 *)
LEMMA HeldGrows ==
  ASSUME NEW q, NEW s, Grows(q, s), NEW held, NEW k, NEW n \in 0 .. Len(q),
         HeldAfter(q, held, k, n)
  PROVE  HeldAfter(s, held, k, n)
<1>1. Len(q) \in Nat /\ n \in Nat /\ n <= Len(q) /\ \A i \in 1 .. Len(q) : s[i] = q[i]
  BY DEF Grows
<1>2. \A i \in 1 .. n : s[i] = q[i]
  BY <1>1
<1>3. CASE k = Root
  BY <1>3 DEF HeldAfter
<1>4. CASE PathOf(k) \in held /\ \A j \in 1 .. n : ~Removes(q[j], k)
  BY <1>2, <1>4 DEF HeldAfter
<1>5. CASE \E i \in 1 .. n : Creates(q[i], k) /\ \A j \in i + 1 .. n : ~Removes(q[j], k)
  <2>1. PICK i \in 1 .. n : Creates(q[i], k) /\ \A j \in i + 1 .. n : ~Removes(q[j], k)
    BY <1>5
  <2>2. Creates(s[i], k) /\ \A j \in i + 1 .. n : ~Removes(s[j], k)
    BY <1>1, <1>2, <2>1
  <2> QED
    BY <2>2 DEF HeldAfter
<1> QED
  BY <1>3, <1>4, <1>5 DEF HeldAfter

(* Messages that do not remove k do not matter.                            *)
LEMMA HeldOn ==
  ASSUME NEW q, NEW held, NEW k, NEW n \in Nat, NEW m \in Nat, n <= m,
         HeldAfter(q, held, k, n), \A j \in n + 1 .. m : ~Removes(q[j], k)
  PROVE  HeldAfter(q, held, k, m)
<1>1. \A j \in 1 .. m : j \in 1 .. n \/ j \in n + 1 .. m
  OBVIOUS
<1>2. CASE k = Root
  BY <1>2 DEF HeldAfter
<1>3. CASE PathOf(k) \in held /\ \A j \in 1 .. n : ~Removes(q[j], k)
  BY <1>1, <1>3 DEF HeldAfter
<1>4. CASE \E i \in 1 .. n : Creates(q[i], k) /\ \A j \in i + 1 .. n : ~Removes(q[j], k)
  <2>1. PICK i \in 1 .. n : Creates(q[i], k) /\ \A j \in i + 1 .. n : ~Removes(q[j], k)
    BY <1>4
  <2>2. \A j \in i + 1 .. m : j \in i + 1 .. n \/ j \in n + 1 .. m
    OBVIOUS
  <2>3. i \in 1 .. m /\ \A j \in i + 1 .. m : ~Removes(q[j], k)
    BY <2>1, <2>2
  <2> QED
    BY <2>1, <2>3 DEF HeldAfter
<1> QED
  BY <1>2, <1>3, <1>4 DEF HeldAfter

(* A message at the end that creates k.                                    *)
LEMMA HeldCreated ==
  ASSUME NEW q, NEW held, NEW k, NEW n \in Nat \ {0}, Creates(q[n], k)
  PROVE  HeldAfter(q, held, k, n)
<1>1. n \in 1 .. n /\ \A j \in n + 1 .. n : FALSE
  OBVIOUS
<1> QED
  BY <1>1 DEF HeldAfter

(* The head of the queue is handled.                                       *)
LEMMA HeldTail ==
  ASSUME NEW S, NEW q \in Seq(S), q # <<>>, NEW held, NEW k, NEW n \in 1 .. Len(q),
         HeldAfter(q, held, k, n), NEW next,
         PathOf(k) \in held /\ ~Removes(Head(q), k) => PathOf(k) \in next,
         Creates(Head(q), k) => PathOf(k) \in next
  PROVE  HeldAfter(Tail(q), next, k, n - 1)
<1>1. /\ Head(q) = q[1] /\ Len(q) \in Nat \ {0}
      /\ \A i \in 1 .. Len(q) - 1 : Tail(q)[i] = q[i + 1]
  BY TailFacts
<1>2. n \in Nat \ {0} /\ n - 1 \in Nat /\ n <= Len(q)
  BY <1>1
<1>3. \A i \in 1 .. n - 1 : Tail(q)[i] = q[i + 1] /\ i + 1 \in 2 .. n
  BY <1>1, <1>2
<1>4. CASE k = Root
  BY <1>4 DEF HeldAfter
<1>5. CASE PathOf(k) \in held /\ \A j \in 1 .. n : ~Removes(q[j], k)
  <2>1. ~Removes(q[1], k) /\ \A j \in 1 .. n - 1 : ~Removes(Tail(q)[j], k)
    BY <1>2, <1>3, <1>5
  <2> QED
    BY <1>1, <1>5, <2>1 DEF HeldAfter
<1>6. CASE \E i \in 1 .. n : Creates(q[i], k) /\ \A j \in i + 1 .. n : ~Removes(q[j], k)
  <2>1. PICK i \in 1 .. n : Creates(q[i], k) /\ \A j \in i + 1 .. n : ~Removes(q[j], k)
    BY <1>6
  <2>2. CASE i = 1
    <3>1. \A j \in 1 .. n - 1 : ~Removes(Tail(q)[j], k)
      BY <1>2, <1>3, <2>1, <2>2
    <3> QED
      BY <1>1, <2>1, <2>2, <3>1 DEF HeldAfter
  <2>3. CASE i # 1
    <3>1. i - 1 \in 1 .. n - 1 /\ (i - 1) + 1 = i
      BY <1>2, <2>3
    <3>2. Creates(Tail(q)[i - 1], k)
      BY <1>3, <2>1, <3>1
    <3>3. \A j \in (i - 1) + 1 .. n - 1 : j \in 1 .. n - 1 /\ j + 1 \in i + 1 .. n
      BY <1>2
    <3>4. \A j \in (i - 1) + 1 .. n - 1 : ~Removes(Tail(q)[j], k)
      BY <1>3, <2>1, <3>3
    <3> QED
      BY <3>1, <3>2, <3>4 DEF HeldAfter
  <2> QED
    BY <2>2, <2>3
<1> QED
  BY <1>4, <1>5, <1>6 DEF HeldAfter

LEMMA GrowsReflexive == ASSUME NEW S, NEW q \in Seq(S) PROVE Grows(q, q)
BY DEF Grows

-----------------------------------------------------------------------------
(* What the operations do.                                                 *)

(* A component is given a state by the main thread.                        *)
LEMMA SetFacts ==
  ASSUME TypeOK, NEW k \in Keys, NEW v \in Values,
         local' = [local EXCEPT ![k] = v], toWorker' = Append(toWorker, Update(k, v))
  PROVE  /\ local' \in [Keys -> Values \cup {NoValue}]
         /\ local'[k] = v /\ \A j \in Keys \ {k} : local'[j] = local[j]
         /\ Mounted' = Mounted \cup {k}
         /\ toWorker' \in Seq(Message) /\ Grows(toWorker, toWorker')
         /\ Len(toWorker') = Len(toWorker) + 1
         /\ toWorker'[Len(toWorker) + 1] = Update(k, v)
         /\ New(toWorker, toWorker') = {Len(toWorker) + 1}
<1>1. local \in [Keys -> Values \cup {NoValue}] /\ toWorker \in Seq(Message)
  BY DEF TypeOK
<1>2. NoValue \notin Values
  BY AetherAssumption
<1>3. Update(k, v) \in Message
  BY MessageFacts
<1>4. /\ toWorker' \in Seq(Message) /\ Grows(toWorker, toWorker')
      /\ Len(toWorker') = Len(toWorker) + 1
      /\ toWorker'[Len(toWorker) + 1] = Update(k, v)
  BY <1>1, <1>3, AppendFacts
<1>5. New(toWorker, toWorker') = {Len(toWorker) + 1}
  BY <1>4 DEF New, Grows
<1>6. /\ local' \in [Keys -> Values \cup {NoValue}]
      /\ local'[k] = v /\ \A j \in Keys \ {k} : local'[j] = local[j]
  BY <1>1
<1>7. Mounted' = Mounted \cup {k}
  BY <1>2, <1>6 DEF Mounted
<1> QED
  BY <1>4, <1>5, <1>6, <1>7

(* A component and what is in it are unmounted, each with its deletion.    *)
LEMMA UnmountFacts ==
  ASSUME TypeOK, NEW k \in Keys, Unmount(k)
  PROVE  /\ local' \in [Keys -> Values \cup {NoValue}]
         /\ Mounted' = Mounted \ Subtree(k) /\ \A j \in Mounted' : local'[j] = local[j]
         /\ toWorker' \in Seq(Message) /\ Grows(toWorker, toWorker')
         /\ \A i \in New(toWorker, toWorker') : \E j \in Subtree(k) : toWorker'[i] = Delete(j)
         /\ \A j \in Subtree(k) : \E i \in New(toWorker, toWorker') : toWorker'[i] = Delete(j)
<1> DEFINE gone == Subtree(k)
<1>1. local \in [Keys -> Values \cup {NoValue}] /\ toWorker \in Seq(Message)
  BY DEF TypeOK
<1>2. gone \subseteq Mounted /\ gone \subseteq Keys
  BY DEF Subtree, Mounted
<1>3. local' = [j \in Keys |-> IF j \in gone THEN NoValue ELSE local[j]]
  BY DEF Unmount
<1>4. PICK order \in ParentsFirst(gone) : toWorker' = toWorker \o MapSeq(Delete, order)
  BY DEF Unmount
<1> HIDE DEF gone
<1>5. /\ local' \in [Keys -> Values \cup {NoValue}]
      /\ Mounted' = Mounted \ gone /\ \A j \in Mounted' : local'[j] = local[j]
  BY <1>1, <1>2, <1>3 DEF Mounted
<1>6. Cardinality(gone) \in Nat
  BY <1>2, AetherAssumption, FS_Subset, FS_CardinalityType
<1>7. order \in [1 .. Cardinality(gone) -> gone] /\ Range(order) = gone
  BY <1>4 DEF ParentsFirst
<1>8. /\ \A i \in 1 .. Cardinality(gone) : order[i] \in gone
      /\ \A j \in gone : \E i \in 1 .. Cardinality(gone) : order[i] = j
  BY <1>7 DEF Range
<1> DEFINE n == Cardinality(gone)
<1> DEFINE r == MapSeq(Delete, order)
<1>9. r = [i \in 1 .. n |-> Delete(order[i])]
  BY <1>7 DEF MapSeq
<1>10. \A i \in 1 .. n : Delete(order[i]) \in Message
  BY <1>2, <1>8, MessageFacts
<1> HIDE DEF n, r
<1>11. r \in Seq(Message) /\ Len(r) = n
  BY <1>6, <1>9, <1>10 DEF n
<1>12. toWorker' \in Seq(Message) /\ Joined(toWorker, r, toWorker')
  <2>1. toWorker' = toWorker \o r
    BY <1>4 DEF r
  <2> QED
    BY <1>1, <1>11, <2>1, ConcatFacts
<1>13. /\ Grows(toWorker, toWorker') /\ Len(toWorker') = Len(toWorker) + Len(r)
       /\ \A i \in 1 .. Len(r) : toWorker'[Len(toWorker) + i] = r[i]
       /\ \A i \in New(toWorker, toWorker') :
            i - Len(toWorker) \in 1 .. Len(r) /\ toWorker'[i] = r[i - Len(toWorker)]
  BY <1>12 DEF Joined
<1>14. ASSUME NEW i \in New(toWorker, toWorker')
       PROVE  \E j \in gone : toWorker'[i] = Delete(j)
  <2>1. i - Len(toWorker) \in 1 .. n /\ toWorker'[i] = r[i - Len(toWorker)]
    BY <1>11, <1>13
  <2> QED
    BY <1>8, <1>9, <2>1 DEF n
<1>15. ASSUME NEW j \in gone
       PROVE  \E i \in New(toWorker, toWorker') : toWorker'[i] = Delete(j)
  <2>1. PICK i \in 1 .. n : order[i] = j
    BY <1>8 DEF n
  <2>2. toWorker'[Len(toWorker) + i] = Delete(j)
    BY <1>9, <1>11, <1>13, <2>1
  <2>3. Len(toWorker) + i \in New(toWorker, toWorker')
    <3>1. Len(toWorker') = Len(toWorker) + n /\ Len(toWorker) \in Nat /\ n \in Nat
      BY <1>1, <1>6, <1>11, <1>13 DEF n
    <3> QED
      BY <2>1, <3>1 DEF New
  <2> QED
    BY <2>2, <2>3
<1> QED
  BY <1>5, <1>12, <1>13, <1>14, <1>15 DEF gone

(* A component is deleted and created again.                               *)
LEMMA RunEffectsFacts ==
  ASSUME TypeOK, NEW k \in Keys, RunEffects(k)
  PROVE  /\ toWorker' \in Seq(Message) /\ Grows(toWorker, toWorker')
         /\ Len(toWorker') > Len(toWorker)
         /\ \E v \in Values : toWorker'[Len(toWorker')] = Update(k, v)
         /\ \A i \in New(toWorker, toWorker') : toWorker'[i].key = k
                                                /\ toWorker'[i].path = PathOf(k)
         /\ \A i \in New(toWorker, toWorker') :
              i # Len(toWorker') => toWorker'[i].variant = "delete"
<1>1. toWorker \in Seq(Message)
  BY DEF TypeOK
<1>2. PICK v \in Values : toWorker' = toWorker \o EffectMessages(k, v)
  BY DEF RunEffects
<1>3. /\ Update(k, v) \in Message /\ Update(k, v).key = k /\ Update(k, v).path = PathOf(k)
      /\ Delete(k) \in Message /\ Delete(k).key = k /\ Delete(k).path = PathOf(k)
      /\ Delete(k).variant = "delete"
  BY MessageFacts
<1> DEFINE r == EffectMessages(k, v)
<1> DEFINE d == Delete(k)
<1> DEFINE u == Update(k, v)
<1> HIDE DEF d, u
<1>4. /\ r \in Seq(Message) /\ Len(r) \in {1, 2} /\ r[Len(r)] = u
      /\ \A i \in 1 .. Len(r) : i # Len(r) => r[i] = d
  <2>1. d \in Message /\ u \in Message
    BY <1>3 DEF d, u
  <2>2. r = (IF k \in cleanup THEN <<d>> ELSE <<>>) \o <<u>>
    BY DEF EffectMessages, d, u
  <2>3. CASE k \in cleanup
    <3> DEFINE s == <<d>>
    <3> DEFINE t == <<u>>
    <3>1. r = s \o t
      BY <2>2, <2>3
    <3>2. s \in Seq(Message) /\ t \in Seq(Message) /\ Len(s) = 1 /\ Len(t) = 1
          /\ s[1] = d /\ t[1] = u
      BY <2>1
    <3> HIDE DEF r, s, t
    <3>3. r \in Seq(Message) /\ Joined(s, t, r)
      BY <3>1, <3>2, ConcatFacts
    <3>4. Len(r) = 2 /\ r[1] = d /\ r[2] = u
      BY <3>2, <3>3 DEF Joined, Grows
    <3>5. \A i \in 1 .. Len(r) : i # Len(r) => r[i] = d
      BY <3>4
    <3>6. r \in Seq(Message)
      BY <3>3
    <3> QED
      BY <3>4, <3>5, <3>6
  <2>4. CASE k \notin cleanup
    <3>1. r = <<u>>
      BY <2>2, <2>4
    <3> HIDE DEF r
    <3> QED
      BY <2>1, <3>1
  <2> QED
    BY <2>3, <2>4
<1> HIDE DEF r
<1>5. toWorker' \in Seq(Message) /\ Joined(toWorker, r, toWorker')
  <2>1. r \in Seq(Message) /\ toWorker' = toWorker \o r
    BY <1>2, <1>4 DEF r
  <2> QED
    BY <1>1, <2>1, ConcatFacts
<1>6. /\ Grows(toWorker, toWorker') /\ Len(toWorker') = Len(toWorker) + Len(r)
      /\ \A i \in 1 .. Len(r) : toWorker'[Len(toWorker) + i] = r[i]
      /\ \A i \in New(toWorker, toWorker') :
           i - Len(toWorker) \in 1 .. Len(r) /\ toWorker'[i] = r[i - Len(toWorker)]
      /\ Len(toWorker) \in Nat
  BY <1>1, <1>5 DEF Joined
<1>7. Len(toWorker') > Len(toWorker) /\ toWorker'[Len(toWorker')] = u
  <2>1. Len(r) \in 1 .. Len(r) /\ r[Len(r)] = u /\ Len(r) > 0 /\ Len(r) \in Nat
    BY <1>4
  <2>2. toWorker'[Len(toWorker) + Len(r)] = u
    BY <1>6, <2>1
  <2> QED
    BY <1>6, <2>1, <2>2
<1>8. ASSUME NEW i \in New(toWorker, toWorker')
      PROVE  toWorker'[i] = u \/ toWorker'[i] = d
  <2>1. i - Len(toWorker) \in 1 .. Len(r) /\ toWorker'[i] = r[i - Len(toWorker)]
    BY <1>6
  <2> QED
    BY <1>4, <2>1
<1>9. ASSUME NEW i \in New(toWorker, toWorker'), i # Len(toWorker')
      PROVE  toWorker'[i] = d
  <2>1. i - Len(toWorker) \in 1 .. Len(r) /\ toWorker'[i] = r[i - Len(toWorker)]
    BY <1>6
  <2>2. i - Len(toWorker) # Len(r)
    BY <1>6, <1>9 DEF New
  <2> QED
    BY <1>4, <2>1, <2>2
<1> QED
  BY <1>3, <1>5, <1>6, <1>7, <1>8, <1>9 DEF u, d

(* The worker handles an update.                                           *)
LEMMA UpdateFacts ==
  ASSUME Base, HandleUpdate \/ HandleUpdateThrows,
         NEW msg, msg = Head(toWorker), NEW p, p = PathOf(msg.key)
  PROVE  /\ toWorker # <<>> /\ toWorker' = Tail(toWorker)
         /\ UNCHANGED <<local, effects, cleanup, registry, toMain, crossed, deleted>>
         /\ msg.variant = "update" /\ msg.key \in Keys /\ msg.state \in Values
         /\ Stateful'
         /\ \A q \in DOMAIN tree \ {p} : tree'[q].state = tree[q].state
         /\ HandleUpdateThrows =>
              /\ Front(p) \in DOMAIN tree /\ DOMAIN tree' = DOMAIN tree
              /\ p \in DOMAIN tree => tree'[p].state = msg.state
              /\ dirty' = dirty \cup {p} /\ left' = [left EXCEPT !["faults"] = @ - 1]
              /\ left.faults > 0
         /\ HandleUpdate /\ Front(p) \notin DOMAIN tree =>
              /\ tree' = tree /\ dirty' = IF Marred(p) THEN dirty \cup {p} ELSE dirty
         /\ HandleUpdate /\ Front(p) \in DOMAIN tree =>
              /\ DOMAIN tree' = DOMAIN tree \cup {p} /\ tree'[p].state = msg.state
              /\ dirty' \subseteq dirty /\ dirty \ dirty' \subseteq DOMAIN tree'
         /\ HandleUpdate => left' = left
<1>1. toWorker # <<>> /\ toWorker' = Tail(toWorker)
  BY DEF HandleUpdate, HandleUpdateThrows
<1>2. UNCHANGED <<local, effects, cleanup, registry, toMain, crossed, deleted>>
  BY DEF HandleUpdate, HandleUpdateThrows, mainVars
<1>3. msg.variant = "update"
  BY DEF HandleUpdate, HandleUpdateThrows
<1>4. msg \in Message /\ msg = toWorker[1] /\ 1 \in DOMAIN toWorker
  <2>1. toWorker \in Seq(Message)
    BY DEF Base, TypeOK
  <2>2. Head(toWorker) = toWorker[1] /\ Head(toWorker) \in Message /\ 1 \in 1 .. Len(toWorker)
        /\ DOMAIN toWorker = 1 .. Len(toWorker)
    BY <1>1, <2>1, TailFacts
  <2> QED
    BY <2>2
<1>5. msg.key \in Keys /\ msg.state \in Values
  BY <1>3, <1>4 DEF Message
<1>6. msg.path = p
  BY <1>4 DEF Base, Registered
<1>7. HaveState(tree)
  BY DEF Base, Stateful
<1>8. ASSUME NEW ps, tree' = applyUpdate(tree, p, msg.key, msg.state, ps)
      PROVE  /\ DOMAIN tree' = DOMAIN tree \cup {p} /\ tree'[p].state = msg.state /\ Stateful'
             /\ \A q \in DOMAIN tree \ {p} : tree'[q].state = tree[q].state
  <2>1. /\ DOMAIN tree' = DOMAIN tree \cup {p}
        /\ HaveState(tree')
        /\ tree'[p].state = msg.state
        /\ \A q \in DOMAIN tree \ {p} : tree'[q].state = tree[q].state
    <3> DEFINE k == msg.key
    <3> DEFINE v == msg.state
    <3> DEFINE w == applyUpdate(tree, p, k, v, ps)
    <3> HIDE DEF k, v
    <3>1. Updated(tree, w, p, v)
      BY <1>7, applyUpdateFacts
    <3> HIDE DEF w
    <3>2. /\ DOMAIN w = DOMAIN tree \cup {p} /\ HaveState(w) /\ w[p].state = v
          /\ \A q \in DOMAIN tree \ {p} : w[q].state = tree[q].state
      BY <3>1 DEF Updated
    <3>3. tree' = w
      BY <1>8 DEF k, v, w
    <3> QED
      BY <3>2, <3>3 DEF v
  <2> QED
    BY <2>1 DEF Stateful
<1>9. CASE HandleUpdateThrows
  <2>1. /\ Front(p) \in DOMAIN tree /\ dirty' = dirty \cup {p} /\ left.faults > 0
        /\ left' = [left EXCEPT !["faults"] = @ - 1]
        /\ \E done : tree' = IF p \notin DOMAIN tree THEN tree
                             ELSE applyUpdate(tree, p, msg.key, msg.state, done)
    BY <1>6, <1>9 DEF HandleUpdateThrows, Reachable, Spend
  <2>2. /\ DOMAIN tree' = DOMAIN tree /\ Stateful'
        /\ p \in DOMAIN tree => tree'[p].state = msg.state
        /\ \A q \in DOMAIN tree \ {p} : tree'[q].state = tree[q].state
    <3>1. CASE p \notin DOMAIN tree
      <4>1. tree' = tree
        BY <2>1, <3>1
      <4> QED
        BY <1>7, <3>1, <4>1 DEF Stateful
    <3>2. CASE p \in DOMAIN tree
      <4>1. PICK done : tree' = applyUpdate(tree, p, msg.key, msg.state, done)
        BY <2>1, <3>2
      <4> QED
        BY <1>8, <3>2, <4>1
    <3> QED
      BY <3>1, <3>2
  <2>3. left' # left
    BY <2>1 DEF Base, TypeOK
  <2>4. ~HandleUpdate
    BY <2>3 DEF HandleUpdate
  <2> QED
    BY <1>1, <1>2, <1>3, <1>5, <1>9, <2>1, <2>2, <2>4
<1>10. CASE HandleUpdate
  <2>1. left' = left
    BY <1>10 DEF HandleUpdate
  <2>2. ~HandleUpdateThrows
    BY <2>1 DEF HandleUpdateThrows, Spend, Base, TypeOK
  <2>3. \/ /\ Front(p) \in DOMAIN tree
           /\ tree' = applyUpdate(tree, p, msg.key, msg.state, Descendants(tree, p))
           /\ dirty' = dirty \ ({p} \cup IF Announces[msg.key] = {} THEN {} ELSE Descendants(tree, p))
        \/ /\ Front(p) \notin DOMAIN tree /\ tree' = tree
           /\ dirty' = IF Marred(p) THEN dirty \cup {p} ELSE dirty
    BY <1>6, <1>10 DEF HandleUpdate, Reachable
  <2>4. CASE Front(p) \in DOMAIN tree
    <3>1. Descendants(tree, p) \subseteq DOMAIN tree
      BY DEF Descendants
    <3>2. /\ DOMAIN tree' = DOMAIN tree \cup {p} /\ tree'[p].state = msg.state /\ Stateful'
          /\ \A q \in DOMAIN tree \ {p} : tree'[q].state = tree[q].state
      BY <1>8, <2>3, <2>4
    <3>3. dirty' \subseteq dirty /\ dirty \ dirty' \subseteq {p} \cup Descendants(tree, p)
      BY <2>3, <2>4
    <3> QED
      BY <1>1, <1>2, <1>3, <1>5, <2>1, <2>2, <2>4, <3>1, <3>2, <3>3
  <2>5. CASE Front(p) \notin DOMAIN tree
    <3>1. Stateful'
      BY <1>7, <2>3, <2>5 DEF Stateful
    <3> QED
      BY <1>1, <1>2, <1>3, <1>5, <2>1, <2>2, <2>3, <2>5, <3>1
  <2> QED
    BY <2>4, <2>5
<1> QED
  BY <1>9, <1>10

(* The worker handles a deletion.                                          *)
DeletedFrom(p) ==
  \A k \in deleted' : k \in deleted \/ \E q \in DOMAIN tree : AtOrBelow(p, q) /\ k = Last(q)

LEMMA DeleteFacts ==
  ASSUME Base, HandleDelete, NEW msg, msg = Head(toWorker), NEW p, p = PathOf(msg.key)
  PROVE  /\ toWorker # <<>> /\ toWorker' = Tail(toWorker)
         /\ UNCHANGED <<local, effects, cleanup, registry, toMain, crossed, left>>
         /\ msg.variant = "delete" /\ msg.key \in Keys /\ msg.path = p
         /\ DOMAIN tree' = {q \in DOMAIN tree : ~AtOrBelow(p, q)}
         /\ \A q \in DOMAIN tree' : tree'[q] = tree[q]
         /\ DeletedFrom(p)
         /\ dirty' = {q \in dirty : ~AtOrBelow(p, q)}
<1>1. /\ toWorker # <<>> /\ toWorker' = Tail(toWorker) /\ msg.variant = "delete"
      /\ UNCHANGED <<local, effects, cleanup, registry, toMain, crossed, left>>
  BY DEF HandleDelete, mainVars
<1>2. msg \in Message /\ msg = toWorker[1] /\ 1 \in DOMAIN toWorker
  <2>1. toWorker \in Seq(Message)
    BY DEF Base, TypeOK
  <2>2. Head(toWorker) = toWorker[1] /\ Head(toWorker) \in Message /\ 1 \in 1 .. Len(toWorker)
        /\ DOMAIN toWorker = 1 .. Len(toWorker)
    BY <1>1, <2>1, TailFacts
  <2> QED
    BY <2>2
<1>3. msg.key \in Keys
  BY <1>2 DEF Message
<1>4. msg.path = p
  BY <1>2 DEF Base, Registered
<1>5. /\ tree' = [q \in {x \in DOMAIN tree : ~AtOrBelow(p, x)} |-> tree[q]]
      /\ deleted' = deleted \cup {Last(q) : q \in {x \in DOMAIN tree : AtOrBelow(p, x)}}
      /\ dirty' = {q \in dirty : ~AtOrBelow(p, q)}
  BY <1>4 DEF HandleDelete, applyDelete
<1>6. DOMAIN tree' = {q \in DOMAIN tree : ~AtOrBelow(p, q)}
      /\ \A q \in DOMAIN tree' : tree'[q] = tree[q]
  BY <1>5
<1>7. DeletedFrom(p)
  BY <1>5 DEF DeletedFrom
<1> QED
  BY <1>1, <1>3, <1>4, <1>5, <1>6, <1>7

-----------------------------------------------------------------------------
(* What holds of any components: Base.                                     *)

LEMMA InitBase == ASSUME Init PROVE Base
<1> DEFINE r == <<Root>>
<1> DEFINE n == create(Root, NoCtx)
<1> HIDE DEF r, n
<1>1. tree = [q \in {r} |-> n]
  BY DEF Init, r, n
<1>2. DOMAIN tree = {r} /\ Stateful
  <2>1. "state" \in DOMAIN n
    BY createFacts DEF n
  <2> QED
    BY <1>1, <2>1 DEF Stateful, HaveState
<1>3. Mounted = {}
  BY DEF Init, Mounted
<1>4. toWorker = <<>> /\ toMain = <<>>
  BY DEF Init
<1>5. toWorker \in Seq(Message) /\ toMain \in Seq([key : Keys, state : Values])
      /\ DOMAIN toWorker = {} /\ DOMAIN toMain = {}
  BY <1>4
<1>6. TypeOK
  <2>1. left \in [renders : Nat, reports : Nat, faults : Nat]
    BY AetherAssumption DEF Init
  <2>2. DOMAIN tree \ {<<Root>>} = {}
    BY <1>2 DEF r
  <2> QED
    BY <1>3, <1>5, <2>1, <2>2 DEF Init, TypeOK
<1>7. Registered
  <2>1. DOMAIN tree = {<<Root>>}
    BY <1>2 DEF r
  <2>2. \A k \in Keys : registry[k] = "none"
    BY DEF Init
  <2>3. deleted = {}
    BY DEF Init
  <2> QED
    BY <1>3, <1>5, <2>1, <2>2, <2>3 DEF Registered
<1>8. Doomed
  <2> SUFFICES ASSUME NEW k \in Keys
               PROVE  PathOf(k) \notin DOMAIN tree
    BY <1>5 DEF Doomed
  <2>1. PathOf(k) # r
    BY PathFacts DEF r
  <2> QED
    BY <1>2, <2>1
<1> QED
  BY <1>2, <1>3, <1>6, <1>7, <1>8 DEF Base, Enclosed

(* The main thread sends more messages.                                    *)
LEMMA DoomedGrows ==
  ASSUME Doomed, Grows(toWorker, toWorker'), tree' = tree,
         \A k \in Keys \ Mounted' :
           /\ \A i \in New(toWorker, toWorker') : ~Creates(toWorker'[i], k)
           /\ k \in Mounted => \E j \in New(toWorker, toWorker') : Removes(toWorker'[j], k)
  PROVE  Doomed'
<1> SUFFICES ASSUME NEW k \in Keys \ Mounted',
                    \/ PathOf(k) \in DOMAIN tree
                    \/ \E i \in DOMAIN toWorker' : Creates(toWorker'[i], k)
             PROVE  \E j \in DOMAIN toWorker' :
                      /\ Removes(toWorker'[j], k)
                      /\ \A i \in DOMAIN toWorker' : Creates(toWorker'[i], k) => i < j
  BY DEF Doomed
<1>1. /\ Len(toWorker) \in Nat /\ Len(toWorker') \in Nat /\ Len(toWorker) <= Len(toWorker')
      /\ DOMAIN toWorker = 1 .. Len(toWorker) /\ DOMAIN toWorker' = 1 .. Len(toWorker')
      /\ \A i \in 1 .. Len(toWorker) : toWorker'[i] = toWorker[i]
  BY DEF Grows
<1>2. \A i \in DOMAIN toWorker' :
        Creates(toWorker'[i], k) => i \in DOMAIN toWorker /\ Creates(toWorker[i], k)
  <2> SUFFICES ASSUME NEW i \in DOMAIN toWorker', Creates(toWorker'[i], k)
               PROVE  i \in DOMAIN toWorker /\ Creates(toWorker[i], k)
    OBVIOUS
  <2>1. i \notin New(toWorker, toWorker')
    OBVIOUS
  <2>2. i \in 1 .. Len(toWorker)
    BY <1>1, <2>1 DEF New
  <2> QED
    BY <1>1, <2>2
<1>3. CASE k \in Mounted
  <2>1. PICK j \in New(toWorker, toWorker') : Removes(toWorker'[j], k)
    BY <1>3
  <2>2. j \in DOMAIN toWorker' /\ \A i \in DOMAIN toWorker : i < j
    BY <1>1 DEF New
  <2> QED
    BY <1>2, <2>1, <2>2
<1>4. CASE k \notin Mounted
  <2>1. PICK j \in DOMAIN toWorker :
          /\ Removes(toWorker[j], k)
          /\ \A i \in DOMAIN toWorker : Creates(toWorker[i], k) => i < j
    BY <1>2, <1>4 DEF Doomed
  <2>2. j \in DOMAIN toWorker' /\ toWorker'[j] = toWorker[j]
    BY <1>1
  <2> QED
    BY <1>2, <2>1, <2>2
<1> QED
  BY <1>3, <1>4

(* The worker handles the first message.                                   *)
LEMMA DoomedTail ==
  ASSUME Doomed, toWorker \in Seq(Message), toWorker # <<>>, toWorker' = Tail(toWorker),
         local' = local,
         \A k \in Keys \ Mounted :
           /\ PathOf(k) \in DOMAIN tree' =>
                PathOf(k) \in DOMAIN tree \/ Creates(Head(toWorker), k)
           /\ Removes(Head(toWorker), k) => PathOf(k) \notin DOMAIN tree'
  PROVE  Doomed'
<1>1. /\ Head(toWorker) = toWorker[1] /\ Len(toWorker) \in Nat \ {0}
      /\ DOMAIN toWorker = 1 .. Len(toWorker) /\ DOMAIN toWorker' = 1 .. Len(toWorker) - 1
      /\ \A i \in 1 .. Len(toWorker) - 1 : toWorker'[i] = toWorker[i + 1]
  BY TailFacts
<1>2. Mounted' = Mounted
  BY DEF Mounted
<1> SUFFICES ASSUME NEW k \in Keys \ Mounted,
                    \/ PathOf(k) \in DOMAIN tree'
                    \/ \E i \in DOMAIN toWorker' : Creates(toWorker'[i], k)
             PROVE  \E j \in DOMAIN toWorker' :
                      /\ Removes(toWorker'[j], k)
                      /\ \A i \in DOMAIN toWorker' : Creates(toWorker'[i], k) => i < j
  BY <1>2 DEF Doomed
<1>3. \A i \in DOMAIN toWorker' :
        /\ i \in Nat /\ i + 1 \in DOMAIN toWorker /\ toWorker'[i] = toWorker[i + 1]
  BY <1>1
<1>4. PathOf(k) \in DOMAIN tree \/ \E i \in DOMAIN toWorker : Creates(toWorker[i], k)
  <2>1. 1 \in DOMAIN toWorker
    BY <1>1
  <2> QED
    BY <1>1, <1>3, <2>1
<1>5. PICK j \in DOMAIN toWorker :
        /\ Removes(toWorker[j], k)
        /\ \A i \in DOMAIN toWorker : Creates(toWorker[i], k) => i < j
  BY <1>4 DEF Doomed
<1>6. j # 1
  <2> SUFFICES ASSUME j = 1 PROVE FALSE
    OBVIOUS
  <2>1. PathOf(k) \notin DOMAIN tree'
    BY <1>1, <1>5
  <2>2. PICK i \in DOMAIN toWorker' : Creates(toWorker'[i], k)
    BY <2>1
  <2>3. i + 1 < 1 /\ i \in Nat
    BY <1>3, <1>5, <2>2
  <2> QED
    BY <2>3
<1>7. j - 1 \in DOMAIN toWorker' /\ toWorker'[j - 1] = toWorker[j] /\ j \in Nat
  <2>1. j \in Nat /\ j - 1 \in 1 .. Len(toWorker) - 1 /\ (j - 1) + 1 = j
    BY <1>1, <1>6
  <2> QED
    BY <1>1, <2>1
<1>8. \A i \in DOMAIN toWorker' : Creates(toWorker'[i], k) => i < j - 1
  BY <1>3, <1>5, <1>7
<1> QED
  BY <1>5, <1>7, <1>8

LEMMA ToMainFacts ==
  ASSUME NEW q \in Seq([key : Keys, state : Values])
  PROVE  \A i \in DOMAIN q : q[i].key \in Keys /\ q[i].state \in Values
<1> DEFINE R == [key : Keys, state : Values]
<1>1. q \in Seq(R)
  OBVIOUS
<1> HIDE DEF R
<1>2. \A i \in DOMAIN q : q[i] \in R
  BY <1>1
<1> QED
  BY <1>2 DEF R

(* The registrations are kept when the main thread sends messages about    *)
(* what it has registered.                                                 *)
LEMMA RegisteredGrows ==
  ASSUME TypeOK, Registered, Grows(toWorker, toWorker'), tree' = tree, toMain' = toMain,
         deleted' = deleted,
         \A j \in Keys : registry[j] # "none" => registry'[j] # "none",
         \A j \in Keys : registry'[j] = "live" <=> j \in Mounted',
         \A i \in New(toWorker, toWorker') :
           registry'[toWorker'[i].key] # "none" /\ toWorker'[i].path = PathOf(toWorker'[i].key)
  PROVE  Registered'
<1>1. /\ Len(toWorker) \in Nat /\ Len(toWorker') \in Nat
      /\ DOMAIN toWorker = 1 .. Len(toWorker) /\ DOMAIN toWorker' = 1 .. Len(toWorker')
      /\ \A i \in 1 .. Len(toWorker) : toWorker'[i] = toWorker[i]
  BY DEF Grows
<1>2. \A i \in DOMAIN toMain : toMain[i].key \in Keys
  BY ToMainFacts DEF TypeOK
<1>3. \A i \in DOMAIN toWorker : toWorker[i].key \in Keys
  BY DEF TypeOK, Message
<1>4. ASSUME NEW i \in DOMAIN toWorker'
      PROVE  registry'[toWorker'[i].key] # "none" /\ toWorker'[i].path = PathOf(toWorker'[i].key)
  <2>1. CASE i \in New(toWorker, toWorker')
    BY <2>1
  <2>2. CASE i \notin New(toWorker, toWorker')
    <3>1. i \in DOMAIN toWorker /\ toWorker'[i] = toWorker[i]
      BY <1>1, <2>2 DEF New
    <3> QED
      BY <1>3, <3>1 DEF Registered
  <2> QED
    BY <2>1, <2>2
<1>5. deleted \subseteq Keys
  BY DEF TypeOK
<1> DEFINE r == <<Root>>
<1>6. /\ r \in DOMAIN tree'
      /\ \A p \in DOMAIN tree' \ {r} : \E j \in Keys : p = PathOf(j) /\ registry'[j] # "none"
  BY DEF Registered
<1> HIDE DEF r
<1>7. /\ \A i \in DOMAIN toMain' : registry'[toMain'[i].key] # "none"
      /\ \A j \in deleted' : registry'[j] # "none"
  BY <1>2, <1>5 DEF Registered
<1> QED
  BY <1>4, <1>6, <1>7 DEF Registered, r

(* One of the bounds is spent.                                             *)
LEMMA SpendFacts ==
  ASSUME left \in [renders : Nat, reports : Nat, faults : Nat],
         NEW what \in {"renders", "reports", "faults"}, left[what] > 0, Spend(what)
  PROVE  left' \in [renders : Nat, reports : Nat, faults : Nat]
BY DEF Spend

LEMMA MountBase == ASSUME Base, NEW k \in Keys, Mount(k) PROVE Base'
<1>1. PICK v \in Values :
        local' = [local EXCEPT ![k] = v] /\ toWorker' = Append(toWorker, Update(k, v))
  BY DEF Mount
<1>2. TypeOK /\ Registered
  BY DEF Base
<1>3. /\ local' \in [Keys -> Values \cup {NoValue}]
      /\ Mounted' = Mounted \cup {k}
      /\ toWorker' \in Seq(Message) /\ Grows(toWorker, toWorker')
      /\ Len(toWorker') = Len(toWorker) + 1
      /\ toWorker'[Len(toWorker) + 1] = Update(k, v)
      /\ New(toWorker, toWorker') = {Len(toWorker) + 1}
  BY <1>1, <1>2, SetFacts
<1>4. /\ Update(k, v).key = k /\ Update(k, v).path = PathOf(k)
  BY MessageFacts
<1>5. /\ registry' = [registry EXCEPT ![k] = "live"]
      /\ Spend("renders") /\ left.renders > 0
      /\ crossed' \subseteq crossed \cup {k} /\ Parent[k] \in Mounted \cup {Root}
      /\ UNCHANGED <<effects, cleanup, toMain, tree, deleted, dirty>>
  BY DEF Mount, CanRender
<1>6. left' \in [renders : Nat, reports : Nat, faults : Nat]
  BY <1>2, <1>5, SpendFacts DEF TypeOK
<1>7. TypeOK'
  BY <1>2, <1>3, <1>5, <1>6 DEF TypeOK
<1>8. Registered'
  <2>1. /\ \A j \in Keys : registry'[j] = IF j = k THEN "live" ELSE registry[j]
    BY <1>2, <1>5 DEF TypeOK
  <2>2. \A j \in Keys : registry'[j] = "live" <=> j \in Mounted'
    BY <1>2, <1>3, <2>1 DEF Registered
  <2> QED
    BY <1>2, <1>3, <1>4, <1>5, <2>1, <2>2, RegisteredGrows
<1>9. Enclosed'
  BY <1>3, <1>5 DEF Base, Enclosed
<1>10. Doomed'
  BY <1>3, <1>4, <1>5, DoomedGrows DEF Base, Creates
<1>11. Stateful'
  BY <1>5 DEF Base, Stateful
<1> QED
  BY <1>7, <1>8, <1>9, <1>10, <1>11 DEF Base

LEMMA SetStateBase == ASSUME Base, NEW k \in Keys, SetState(k) PROVE Base'
<1>1. PICK v \in Values :
        local' = [local EXCEPT ![k] = v] /\ toWorker' = Append(toWorker, Update(k, v))
  BY DEF SetState
<1>2. TypeOK /\ Registered /\ k \in Mounted
  BY DEF Base, SetState
<1>3. /\ local' \in [Keys -> Values \cup {NoValue}]
      /\ Mounted' = Mounted \cup {k}
      /\ toWorker' \in Seq(Message) /\ Grows(toWorker, toWorker')
      /\ Len(toWorker') = Len(toWorker) + 1
      /\ toWorker'[Len(toWorker) + 1] = Update(k, v)
      /\ New(toWorker, toWorker') = {Len(toWorker) + 1}
  BY <1>1, <1>2, SetFacts
<1>4. /\ Update(k, v).key = k /\ Update(k, v).path = PathOf(k)
  BY MessageFacts
<1>5. /\ Spend("renders") /\ left.renders > 0
      /\ crossed' \subseteq crossed \cup {k}
      /\ UNCHANGED <<effects, cleanup, registry, toMain, tree, deleted, dirty>>
  BY DEF SetState
<1>6. left' \in [renders : Nat, reports : Nat, faults : Nat]
  BY <1>2, <1>5, SpendFacts DEF TypeOK
<1>7. TypeOK'
  BY <1>2, <1>3, <1>5, <1>6 DEF TypeOK
<1>8. Registered'
  <2>1. Mounted' = Mounted
    BY <1>2, <1>3
  <2>2. registry[k] # "none"
    BY <1>2 DEF Registered
  <2>3. \A j \in Keys : registry'[j] = "live" <=> j \in Mounted'
    BY <1>2, <1>5, <2>1 DEF Registered
  <2> QED
    BY <1>2, <1>3, <1>4, <1>5, <2>2, <2>3, RegisteredGrows
<1>9. Enclosed'
  BY <1>2, <1>3 DEF Base, Enclosed
<1>10. Doomed'
  BY <1>3, <1>4, <1>5, DoomedGrows DEF Base, Creates
<1>11. Stateful'
  BY <1>5 DEF Base, Stateful
<1> QED
  BY <1>7, <1>8, <1>9, <1>10, <1>11 DEF Base

LEMMA ReidentifyBase == ASSUME Base, NEW k \in Keys, Reidentify(k) PROVE Base'
<1>1. /\ effects' = {k} /\ k \in Mounted /\ Spend("renders") /\ left.renders > 0
      /\ UNCHANGED <<local, cleanup, registry, toWorker, toMain, tree, deleted, dirty, crossed>>
  BY DEF Reidentify, CanRender
<1>2. left' \in [renders : Nat, reports : Nat, faults : Nat]
  BY <1>1, SpendFacts DEF Base, TypeOK
<1>3. Mounted' = Mounted
  BY <1>1 DEF Mounted
<1>4. TypeOK'
  BY <1>1, <1>2, <1>3 DEF Base, TypeOK
<1>5. Registered' /\ Enclosed' /\ Doomed' /\ Stateful'
  BY <1>1, <1>3 DEF Base, Registered, Enclosed, Doomed, Stateful
<1> QED
  BY <1>4, <1>5 DEF Base

LEMMA RunEffectsBase == ASSUME Base, NEW k \in Keys, RunEffects(k) PROVE Base'
<1>1. TypeOK /\ Registered /\ k \in Mounted
  BY DEF Base, RunEffects, TypeOK
<1>2. /\ toWorker' \in Seq(Message) /\ Grows(toWorker, toWorker')
      /\ \A i \in New(toWorker, toWorker') : toWorker'[i].key = k
                                             /\ toWorker'[i].path = PathOf(k)
  BY <1>1, RunEffectsFacts
<1>3. /\ registry' = [registry EXCEPT ![k] = "live"]
      /\ cleanup' = cleanup \cup {k} /\ effects' = effects \ {k} /\ crossed' = crossed \cup {k}
      /\ UNCHANGED <<local, toMain, tree, deleted, dirty, left>>
  BY DEF RunEffects
<1>4. Mounted' = Mounted
  BY <1>3 DEF Mounted
<1>5. TypeOK'
  BY <1>1, <1>2, <1>3, <1>4 DEF TypeOK
<1>6. Registered'
  <2>1. /\ \A j \in Keys : registry'[j] = IF j = k THEN "live" ELSE registry[j]
    BY <1>1, <1>3 DEF TypeOK
  <2>2. \A j \in Keys : registry'[j] = "live" <=> j \in Mounted'
    BY <1>1, <1>4, <2>1 DEF Registered
  <2> QED
    BY <1>1, <1>2, <1>3, <2>1, <2>2, RegisteredGrows
<1>7. Doomed'
  BY <1>1, <1>2, <1>3, <1>4, DoomedGrows DEF Base, Creates
<1>8. Enclosed' /\ Stateful'
  BY <1>3, <1>4 DEF Base, Enclosed, Stateful
<1> QED
  BY <1>5, <1>6, <1>7, <1>8 DEF Base

LEMMA UnmountBase == ASSUME Base, NEW k \in Keys, Unmount(k) PROVE Base'
<1>1. TypeOK /\ Registered /\ k \in Mounted
  BY DEF Base, Unmount
<1>2. /\ local' \in [Keys -> Values \cup {NoValue}]
      /\ Mounted' = Mounted \ Subtree(k)
      /\ toWorker' \in Seq(Message) /\ Grows(toWorker, toWorker')
      /\ \A i \in New(toWorker, toWorker') : \E j \in Subtree(k) : toWorker'[i] = Delete(j)
      /\ \A j \in Subtree(k) : \E i \in New(toWorker, toWorker') : toWorker'[i] = Delete(j)
  BY <1>1, UnmountFacts
<1>3. Subtree(k) \subseteq Mounted /\ Mounted \subseteq Keys
  BY DEF Subtree, Mounted
<1>4. /\ effects = {} /\ effects' = effects /\ cleanup' = cleanup \ Subtree(k)
      /\ registry' = Retire(Subtree(k)) /\ Spend("renders") /\ left.renders > 0
      /\ UNCHANGED <<effects, toMain, tree, deleted, dirty, crossed>>
  BY DEF Unmount, CanRender
<1>5. left' \in [renders : Nat, reports : Nat, faults : Nat]
  BY <1>1, <1>4, SpendFacts DEF TypeOK
<1>6. /\ registry' \in [Keys -> {"none", "live", "retired"}]
      /\ \A j \in Keys : registry'[j] = IF j \in Subtree(k) THEN "retired" ELSE registry[j]
  BY <1>1, <1>4 DEF Retire, TypeOK
<1>7. TypeOK'
  BY <1>1, <1>2, <1>4, <1>5, <1>6 DEF TypeOK
<1>8. \A j \in Keys : Delete(j).key = j /\ Delete(j).path = PathOf(j) /\ Delete(j).variant = "delete"
  BY MessageFacts
<1>9. Registered'
  <2>1. \A j \in Keys : registry'[j] = "live" <=> j \in Mounted'
    BY <1>1, <1>2, <1>6 DEF Registered
  <2>2. ASSUME NEW i \in New(toWorker, toWorker')
        PROVE  /\ registry'[toWorker'[i].key] # "none"
               /\ toWorker'[i].path = PathOf(toWorker'[i].key)
    <3>1. PICK j \in Subtree(k) : toWorker'[i] = Delete(j)
      BY <1>2
    <3> QED
      BY <1>3, <1>6, <1>8, <3>1
  <2> QED
    BY <1>1, <1>2, <1>4, <1>6, <2>1, <2>2, RegisteredGrows
<1>10. Enclosed'
  <2> SUFFICES ASSUME NEW j \in Mounted', Parent[j] \notin Mounted' \cup {Root} PROVE FALSE
    BY DEF Enclosed
  <2>1. j \in Keys /\ j \in Mounted /\ Parent[j] \in Subtree(k)
    BY <1>2, <1>3 DEF Base, Enclosed
  <2>2. AtOrBelow(PathOf(k), PathOf(Parent[j]))
    BY <2>1 DEF Subtree
  <2>3. PathOf(k) \in Paths /\ PathOf(j) \in Paths /\ PathOf(Parent[j]) \in Paths
        /\ AtOrBelow(PathOf(Parent[j]), PathOf(j))
    BY <2>1, PathFacts
  <2>4. AtOrBelow(PathOf(k), PathOf(j))
    BY <2>2, <2>3, PrefixTransitive
  <2>5. j \in Subtree(k)
    BY <2>1, <2>4 DEF Subtree
  <2> QED
    BY <1>2, <2>5
<1>11. Doomed'
  <2> SUFFICES ASSUME NEW j \in Keys \ Mounted'
               PROVE  /\ \A i \in New(toWorker, toWorker') : ~Creates(toWorker'[i], j)
                      /\ j \in Mounted =>
                           \E i \in New(toWorker, toWorker') : Removes(toWorker'[i], j)
    BY <1>2, <1>4, DoomedGrows DEF Base
  <2>1. \A i \in New(toWorker, toWorker') : ~Creates(toWorker'[i], j)
    BY <1>2, <1>3, <1>8 DEF Creates
  <2>2. ASSUME j \in Mounted
        PROVE  \E i \in New(toWorker, toWorker') : Removes(toWorker'[i], j)
    <3>1. PICK i \in New(toWorker, toWorker') : toWorker'[i] = Delete(j)
      BY <1>2, <2>2
    <3>2. AtOrBelow(PathOf(j), PathOf(j))
      BY PathFacts, PrefixReflexive
    <3> QED
      BY <1>8, <3>1, <3>2 DEF Removes
  <2> QED
    BY <2>1, <2>2
<1>12. Stateful'
  BY <1>4 DEF Base, Stateful
<1> QED
  BY <1>7, <1>9, <1>10, <1>11, <1>12 DEF Base

LEMMA ReceiveFacts ==
  ASSUME Base, ReceiveMain
  PROVE  /\ toMain # <<>> /\ toMain \in Seq([key : Keys, state : Values])
         /\ toMain' = Tail(toMain) /\ Head(toMain).key \in Keys
         /\ local' \in [Keys -> Values \cup {NoValue}] /\ Mounted' = Mounted
         /\ \A j \in Keys \ {Head(toMain).key} : local'[j] = local[j]
         /\ Head(toMain).key \in Mounted \ crossed' => local'[Head(toMain).key] = Head(toMain).state
         /\ crossed \subseteq crossed' /\ crossed' \subseteq Keys
         /\ UNCHANGED <<effects, cleanup, registry, toWorker, tree, deleted, dirty, left>>
<1> DEFINE msg == Head(toMain)
<1>1. /\ toMain # <<>> /\ toMain' = Tail(toMain)
      /\ UNCHANGED <<effects, cleanup, registry, toWorker, tree, deleted, dirty, left>>
      /\ \/ /\ local' = IF registry[msg.key] = "live"
                         THEN [local EXCEPT ![msg.key] = msg.state] ELSE local
            /\ crossed' = crossed
         \/ local' = local /\ crossed' = crossed \cup {msg.key}
  BY DEF ReceiveMain
<1>2. /\ toMain \in Seq([key : Keys, state : Values]) /\ crossed \subseteq Keys
      /\ local \in [Keys -> Values \cup {NoValue}]
  BY DEF Base, TypeOK
<1>3. msg = toMain[1] /\ 1 \in DOMAIN toMain
  <2>1. Head(toMain) = toMain[1] /\ Len(toMain) \in Nat \ {0} /\ DOMAIN toMain = 1 .. Len(toMain)
    BY <1>1, <1>2, TailFacts
  <2> QED
    BY <2>1
<1>4. msg.key \in Keys /\ msg.state \in Values
  BY <1>2, <1>3, ToMainFacts
<1> HIDE DEF msg
<1>5. NoValue \notin Values
  BY AetherAssumption
<1>6. registry[msg.key] = "live" <=> msg.key \in Mounted
  BY <1>4 DEF Base, Registered
<1>7. crossed \subseteq crossed' /\ crossed' \subseteq Keys
  BY <1>1, <1>2, <1>4
<1>8. CASE local' = [local EXCEPT ![msg.key] = msg.state] /\ msg.key \in Mounted
  <2>1. Mounted' = Mounted
    BY <1>2, <1>4, <1>5, <1>8 DEF Mounted
  <2> QED
    BY <1>1, <1>2, <1>4, <1>7, <1>8, <2>1 DEF msg
<1>9. CASE local' = local /\ msg.key \notin Mounted \ crossed'
  <2>1. Mounted' = Mounted
    BY <1>9 DEF Mounted
  <2> QED
    BY <1>1, <1>2, <1>4, <1>7, <1>9, <2>1 DEF msg
<1> QED
  BY <1>1, <1>6, <1>8, <1>9

LEMMA ReceiveMainBase == ASSUME Base, ReceiveMain PROVE Base'
<1>1. /\ toMain # <<>> /\ toMain \in Seq([key : Keys, state : Values])
      /\ toMain' = Tail(toMain)
      /\ local' \in [Keys -> Values \cup {NoValue}] /\ Mounted' = Mounted
      /\ crossed' \subseteq Keys
      /\ UNCHANGED <<effects, cleanup, registry, toWorker, tree, deleted, dirty, left>>
  BY ReceiveFacts
<1>2. /\ toMain' \in Seq([key : Keys, state : Values])
      /\ \A i \in DOMAIN toMain' : i + 1 \in DOMAIN toMain /\ toMain'[i] = toMain[i + 1]
  <2>1. /\ Tail(toMain) \in Seq([key : Keys, state : Values])
        /\ Len(toMain) \in Nat \ {0} /\ DOMAIN toMain = 1 .. Len(toMain)
        /\ DOMAIN Tail(toMain) = 1 .. Len(toMain) - 1
        /\ \A i \in 1 .. Len(toMain) - 1 : Tail(toMain)[i] = toMain[i + 1]
    BY <1>1, TailFacts
  <2> QED
    BY <1>1, <2>1
<1>3. TypeOK'
  BY <1>1, <1>2 DEF Base, TypeOK
<1>4. \A i \in DOMAIN toMain' : registry'[toMain'[i].key] # "none"
  BY <1>1, <1>2 DEF Base, Registered
<1>5. Registered'
  BY <1>1, <1>4 DEF Base, Registered
<1>6. Enclosed' /\ Doomed' /\ Stateful'
  BY <1>1 DEF Base, Enclosed, Doomed, Stateful
<1> QED
  BY <1>3, <1>5, <1>6 DEF Base

(* The worker takes the first message: the registrations are kept.         *)
LEMMA RegisteredTail ==
  ASSUME Base, toWorker # <<>>, toWorker' = Tail(toWorker),
         UNCHANGED <<local, registry, toMain>>,
         <<Root>> \in DOMAIN tree',
         \A p \in DOMAIN tree' : p \in DOMAIN tree \/ p = PathOf(Head(toWorker).key),
         \A k \in deleted' : registry[k] # "none"
  PROVE  Registered' /\ toWorker' \in Seq(Message)
<1>1. toWorker \in Seq(Message) /\ Registered
  BY DEF Base, TypeOK
<1>2. /\ Head(toWorker) = toWorker[1] /\ Len(toWorker) \in Nat \ {0}
      /\ toWorker' \in Seq(Message) /\ Head(toWorker) \in Message
      /\ DOMAIN toWorker = 1 .. Len(toWorker) /\ DOMAIN toWorker' = 1 .. Len(toWorker) - 1
      /\ \A i \in 1 .. Len(toWorker) - 1 : toWorker'[i] = toWorker[i + 1]
  BY <1>1, TailFacts
<1>3. \A i \in DOMAIN toWorker' : i + 1 \in DOMAIN toWorker /\ toWorker'[i] = toWorker[i + 1]
  BY <1>2
<1>4. \A i \in DOMAIN toWorker' :
        registry'[toWorker'[i].key] # "none" /\ toWorker'[i].path = PathOf(toWorker'[i].key)
  BY <1>1, <1>3 DEF Registered
<1>5. Head(toWorker).key \in Keys /\ registry[Head(toWorker).key] # "none"
  <2>1. 1 \in DOMAIN toWorker
    BY <1>2
  <2> QED
    BY <1>1, <1>2, <2>1 DEF Registered, Message
<1> DEFINE r == <<Root>>
<1>6. \A p \in DOMAIN tree \ {r} : \E k \in Keys : p = PathOf(k) /\ registry[k] # "none"
  BY <1>1 DEF Registered
<1> HIDE DEF r
<1>7. \A p \in DOMAIN tree' \ {r} : \E k \in Keys : p = PathOf(k) /\ registry'[k] # "none"
  BY <1>5, <1>6
<1>8. Mounted' = Mounted
  BY DEF Mounted
<1>9. /\ \A k \in Keys : registry'[k] = "live" <=> k \in Mounted'
      /\ \A i \in DOMAIN toMain' : registry'[toMain'[i].key] # "none"
      /\ \A k \in deleted' : registry'[k] # "none"
  BY <1>1, <1>8 DEF Registered
<1> QED
  BY <1>2, <1>4, <1>7, <1>9 DEF Registered, r

LEMMA UpdateBase == ASSUME Base, HandleUpdate \/ HandleUpdateThrows PROVE Base'
<1> DEFINE msg == Head(toWorker)
<1> DEFINE p == PathOf(msg.key)
<1> DEFINE r == <<Root>>
<1> HIDE DEF msg, p, r
<1>1. msg = Head(toWorker) /\ p = PathOf(msg.key)
  BY DEF msg, p
<1>2. /\ toWorker # <<>> /\ toWorker' = Tail(toWorker)
      /\ UNCHANGED <<local, effects, cleanup, registry, toMain, crossed, deleted>>
      /\ msg.variant = "update" /\ msg.key \in Keys
      /\ Stateful'
      /\ HandleUpdateThrows =>
           /\ Front(p) \in DOMAIN tree /\ DOMAIN tree' = DOMAIN tree
           /\ left' = [left EXCEPT !["faults"] = @ - 1] /\ left.faults > 0
      /\ HandleUpdate /\ Front(p) \notin DOMAIN tree => tree' = tree
      /\ HandleUpdate /\ Front(p) \in DOMAIN tree => DOMAIN tree' = DOMAIN tree \cup {p}
      /\ HandleUpdate => left' = left
  BY <1>1, UpdateFacts
<1>3. \/ DOMAIN tree' = DOMAIN tree
      \/ DOMAIN tree' = DOMAIN tree \cup {p} /\ Front(p) \in DOMAIN tree
  BY <1>2
<1>4. left' \in [renders : Nat, reports : Nat, faults : Nat]
  <2>1. left \in [renders : Nat, reports : Nat, faults : Nat]
    BY DEF Base, TypeOK
  <2>2. CASE HandleUpdate
    BY <1>2, <2>1, <2>2
  <2>3. CASE HandleUpdateThrows
    BY <1>2, <2>1, <2>3
  <2> QED
    BY <2>2, <2>3
<1>5. Mounted' = Mounted
  BY <1>2 DEF Mounted
<1>6. r \in DOMAIN tree' /\ \A q \in DOMAIN tree' : q \in DOMAIN tree \/ q = PathOf(msg.key)
  BY <1>1, <1>3 DEF Base, Registered, r
<1>7. Registered' /\ toWorker' \in Seq(Message)
  <2>1. \A k \in deleted' : registry[k] # "none"
    BY <1>2 DEF Base, Registered
  <2> QED
    BY <1>1, <1>2, <1>6, <2>1, RegisteredTail DEF r
<1>8. TypeOK'
  <2>1. \A q \in DOMAIN tree \ {r} : Front(q) \in DOMAIN tree
    BY DEF Base, TypeOK, r
  <2>2. \A q \in DOMAIN tree' \ {r} : Front(q) \in DOMAIN tree'
    BY <1>3, <2>1
  <2>3. \A q \in DOMAIN tree' \ {<<Root>>} : Front(q) \in DOMAIN tree'
    BY <2>2 DEF r
  <2> QED
    BY <1>2, <1>4, <1>5, <1>7, <2>3 DEF Base, TypeOK
<1>9. Doomed'
  <2> SUFFICES ASSUME NEW k \in Keys \ Mounted
               PROVE  /\ PathOf(k) \in DOMAIN tree' => PathOf(k) \in DOMAIN tree \/ Creates(msg, k)
                      /\ ~Removes(msg, k)
    BY <1>1, <1>2, DoomedTail DEF Base, TypeOK
  <2>1. ~Removes(msg, k)
    BY <1>2 DEF Removes
  <2>2. PathOf(k) \in DOMAIN tree' => PathOf(k) \in DOMAIN tree \/ msg.key = k
    BY <1>2, <1>6, PathsDiffer
  <2> QED
    BY <1>2, <2>1, <2>2 DEF Creates
<1>10. Enclosed'
  BY <1>5 DEF Base, Enclosed
<1> QED
  BY <1>2, <1>7, <1>8, <1>9, <1>10 DEF Base

LEMMA DeleteBase == ASSUME Base, HandleDelete PROVE Base'
<1> DEFINE msg == Head(toWorker)
<1> DEFINE p == PathOf(msg.key)
<1> DEFINE r == <<Root>>
<1> HIDE DEF msg, p, r
<1>1. msg = Head(toWorker) /\ p = PathOf(msg.key)
  BY DEF msg, p
<1>2. /\ toWorker # <<>> /\ toWorker' = Tail(toWorker)
      /\ UNCHANGED <<local, effects, cleanup, registry, toMain, crossed, left>>
      /\ msg.variant = "delete" /\ msg.key \in Keys /\ msg.path = p
      /\ DOMAIN tree' = {q \in DOMAIN tree : ~AtOrBelow(p, q)}
      /\ \A q \in DOMAIN tree' : tree'[q] = tree[q]
  BY <1>1, DeleteFacts
<1>3. \A k \in deleted' : k \in deleted \/ \E q \in DOMAIN tree : AtOrBelow(p, q) /\ k = Last(q)
  <2>1. DeletedFrom(p)
    BY <1>1, DeleteFacts
  <2> QED
    BY <2>1 DEF DeletedFrom
<1>4. Mounted' = Mounted
  BY <1>2 DEF Mounted
<1>5. p \in Paths /\ ~AtOrBelow(p, r)
  BY <1>1, <1>2, PathFacts DEF r
<1>6. r \in DOMAIN tree'
  BY <1>2, <1>5 DEF Base, Registered, r
<1>7. \A q \in DOMAIN tree \ {r} : \E k \in Keys : q = PathOf(k) /\ registry[k] # "none"
  BY DEF Base, Registered, r
<1>8. deleted' \subseteq Keys /\ \A k \in deleted' : registry[k] # "none"
  <2>1. ASSUME NEW q \in DOMAIN tree, AtOrBelow(p, q)
        PROVE  Last(q) \in Keys /\ registry[Last(q)] # "none"
    <3>1. PICK k \in Keys : q = PathOf(k) /\ registry[k] # "none"
      BY <1>5, <1>7, <2>1
    <3> QED
      BY <3>1, PathFacts
  <2>2. deleted \subseteq Keys /\ \A k \in deleted : registry[k] # "none"
    BY DEF Base, TypeOK, Registered
  <2> QED
    BY <1>3, <2>1, <2>2
<1>9. Registered' /\ toWorker' \in Seq(Message)
  <2>1. \A q \in DOMAIN tree' : q \in DOMAIN tree
    BY <1>2
  <2> QED
    BY <1>2, <1>6, <1>8, <2>1, RegisteredTail DEF r
<1>10. TypeOK'
  <2>1. \A q \in DOMAIN tree \ {r} : Front(q) \in DOMAIN tree
    BY DEF Base, TypeOK, r
  <2>2. ASSUME NEW q \in DOMAIN tree' \ {r}
        PROVE  Front(q) \in DOMAIN tree'
    <3>1. q \in DOMAIN tree /\ ~AtOrBelow(p, q) /\ Front(q) \in DOMAIN tree
      BY <1>2, <2>1, <2>2
    <3>2. PICK k \in Keys : q = PathOf(k)
      BY <1>7, <2>2, <3>1
    <3>3. /\ PathOf(k) \in Paths /\ PathOf(Parent[k]) \in Paths
          /\ Front(q) = PathOf(Parent[k]) /\ AtOrBelow(PathOf(Parent[k]), PathOf(k))
      BY <3>2, PathFacts
    <3>4. ~AtOrBelow(p, Front(q))
      BY <1>5, <3>1, <3>2, <3>3, PrefixTransitive
    <3> QED
      BY <1>2, <3>1, <3>4
  <2>3. \A q \in DOMAIN tree' \ {<<Root>>} : Front(q) \in DOMAIN tree'
    BY <2>2 DEF r
  <2> QED
    BY <1>2, <1>4, <1>8, <1>9, <2>3 DEF Base, TypeOK
<1>11. Doomed'
  <2> SUFFICES ASSUME NEW k \in Keys \ Mounted
               PROVE  /\ PathOf(k) \in DOMAIN tree' => PathOf(k) \in DOMAIN tree
                      /\ Removes(msg, k) => PathOf(k) \notin DOMAIN tree'
    BY <1>1, <1>2, DoomedTail DEF Base, TypeOK
  <2> QED
    BY <1>2 DEF Removes
<1>12. Stateful'
  BY <1>2 DEF Base, Stateful, HaveState
<1>13. Enclosed'
  BY <1>4 DEF Base, Enclosed
<1> QED
  BY <1>9, <1>10, <1>11, <1>12, <1>13 DEF Base

(* A worker's message about k joins those for the main thread.             *)
LEMMA ToMainGrows ==
  ASSUME TypeOK, NEW k \in Keys, NEW v \in Values,
         toMain' = Append(toMain, [key |-> k, state |-> v])
  PROVE  /\ toMain' \in Seq([key : Keys, state : Values]) /\ Grows(toMain, toMain')
         /\ Len(toMain') = Len(toMain) + 1
         /\ toMain'[Len(toMain')].key = k /\ toMain'[Len(toMain')].state = v
<1> DEFINE R == [key : Keys, state : Values]
<1> DEFINE m == [key |-> k, state |-> v]
<1>1. toMain \in Seq(R) /\ m \in R /\ m.key = k /\ m.state = v
  BY DEF TypeOK
<1>2. toMain' = Append(toMain, m)
  OBVIOUS
<1> HIDE DEF R, m
<1>3. /\ toMain' \in Seq(R) /\ Grows(toMain, toMain') /\ Len(toMain') = Len(toMain) + 1
      /\ toMain'[Len(toMain) + 1] = m
  BY <1>1, <1>2, AppendFacts
<1> QED
  BY <1>1, <1>3 DEF R

LEMMA ReportFacts ==
  ASSUME Base, NEW k \in Keys, Report(k)
  PROVE  \E v \in Values :
           /\ DOMAIN tree' = DOMAIN tree /\ PathOf(k) \in DOMAIN tree
           /\ tree'[PathOf(k)].state = v
           /\ \A q \in DOMAIN tree \ {PathOf(k)} : tree'[q] = tree[q]
           /\ Stateful' /\ toMain' = Append(toMain, [key |-> k, state |-> v])
<1> DEFINE p == PathOf(k)
<1>1. PICK v \in Values : /\ tree' = [tree EXCEPT ![p].state = v]
                          /\ toMain' = Append(toMain, [key |-> k, state |-> v])
  BY DEF Report
<1>2. p \in DOMAIN tree
  BY DEF Report
<1> HIDE DEF p
<1>3. HaveState(tree)
  BY DEF Base, Stateful
<1>4. "state" \in DOMAIN tree[p]
  BY <1>2, <1>3 DEF HaveState
<1> DEFINE n == [tree[p] EXCEPT !.state = v]
<1>5. "state" \in DOMAIN n /\ n.state = v
  BY <1>4
<1>6. tree' = [tree EXCEPT ![p] = n]
  BY <1>1
<1> HIDE DEF n
<1>7. /\ DOMAIN tree' = DOMAIN tree /\ tree'[p] = n
      /\ \A q \in DOMAIN tree \ {p} : tree'[q] = tree[q]
  BY <1>2, <1>6
<1>8. HaveState(tree')
  BY <1>3, <1>5, <1>7 DEF HaveState
<1>9. Stateful'
  BY <1>8 DEF Stateful
<1> QED
  BY <1>1, <1>2, <1>5, <1>7, <1>9 DEF p

LEMMA ReportBase == ASSUME Base, NEW k \in Keys, Report(k) \/ ReportLate(k) PROVE Base'
<1>1. TypeOK /\ Registered
  BY DEF Base
<1>2. /\ Spend("reports") /\ left.reports > 0 /\ crossed' \subseteq crossed \cup {k}
      /\ UNCHANGED <<local, effects, cleanup, registry, toWorker, deleted, dirty>>
  BY DEF Report, ReportLate, mainVars
<1>3. \E v \in Values : toMain' = Append(toMain, [key |-> k, state |-> v])
  BY DEF Report, ReportLate
<1>4. DOMAIN tree' = DOMAIN tree /\ Stateful'
  <2>1. CASE Report(k)
    BY <2>1, ReportFacts
  <2>2. CASE ReportLate(k)
    <3>1. tree' = tree
      BY <2>2 DEF ReportLate
    <3> QED
      BY <3>1 DEF Base, Stateful
  <2> QED
    BY <2>1, <2>2
<1>5. registry[k] # "none"
  <2>1. CASE Report(k)
    <3>1. PathOf(k) \in DOMAIN tree /\ PathOf(k) # <<Root>>
      BY <2>1, PathFacts DEF Report
    <3>2. PICK j \in Keys : PathOf(k) = PathOf(j) /\ registry[j] # "none"
      BY <1>1, <3>1 DEF Registered
    <3> QED
      BY <3>2, PathsDiffer
  <2>2. CASE ReportLate(k)
    BY <1>1, <2>2 DEF ReportLate, Registered
  <2> QED
    BY <2>1, <2>2
<1>6. /\ toMain' \in Seq([key : Keys, state : Values]) /\ Grows(toMain, toMain')
      /\ Len(toMain') = Len(toMain) + 1 /\ toMain'[Len(toMain')].key = k
  BY <1>1, <1>3, ToMainGrows
<1>7. left' \in [renders : Nat, reports : Nat, faults : Nat]
  BY <1>1, <1>2, SpendFacts DEF TypeOK
<1>8. Mounted' = Mounted
  BY <1>2 DEF Mounted
<1>9. TypeOK'
  BY <1>1, <1>2, <1>4, <1>6, <1>7, <1>8 DEF TypeOK
<1>10. \A i \in DOMAIN toMain' : registry'[toMain'[i].key] # "none"
  <2> SUFFICES ASSUME NEW i \in DOMAIN toMain' PROVE registry[toMain'[i].key] # "none"
    BY <1>2
  <2>1. i = Len(toMain') \/ (i \in DOMAIN toMain /\ toMain'[i] = toMain[i])
    <3>1. /\ Len(toMain) \in Nat /\ Len(toMain') = Len(toMain) + 1
          /\ DOMAIN toMain = 1 .. Len(toMain) /\ DOMAIN toMain' = 1 .. Len(toMain')
          /\ \A j \in 1 .. Len(toMain) : toMain'[j] = toMain[j]
      BY <1>6 DEF Grows
    <3> QED
      BY <3>1
  <2> QED
    BY <1>1, <1>5, <1>6, <2>1 DEF Registered
<1>11. Registered'
  BY <1>1, <1>2, <1>4, <1>8, <1>10 DEF Registered
<1>12. Enclosed' /\ Doomed'
  BY <1>2, <1>4, <1>8 DEF Base, Enclosed, Doomed
<1> QED
  BY <1>4, <1>9, <1>11, <1>12 DEF Base

LEMMA NextBase == ASSUME Base, [Next]_vars PROVE Base'
<1>1. ASSUME NEW k \in Keys, Mount(k) \/ SetState(k) \/ Reidentify(k) \/ Unmount(k)
      PROVE  Base'
  BY <1>1, MountBase, SetStateBase, ReidentifyBase, UnmountBase
<1>2. ASSUME NEW k \in Keys, Report(k) \/ ReportLate(k) \/ RunEffects(k) PROVE Base'
  BY <1>2, ReportBase, RunEffectsBase
<1>3. ASSUME ReceiveMain \/ HandleUpdate \/ HandleUpdateThrows \/ HandleDelete PROVE Base'
  BY <1>3, ReceiveMainBase, UpdateBase, DeleteBase
<1>4. CASE UNCHANGED vars
  BY <1>4 DEF vars, Base, TypeOK, Registered, Enclosed, Doomed, Stateful, Mounted
<1> QED
  BY <1>1, <1>2, <1>3, <1>4 DEF Next

(* Types, registrations and pending deletions are as Base says at all      *)
(* times.                                                                  *)
THEOREM BaseHolds == Spec => []Base
<1>1. Init => Base
  BY InitBase
<1>2. Base /\ [Next]_vars => Base'
  BY NextBase
<1> QED
  BY <1>1, <1>2, PTL DEF Spec

(* The Provider has a registration for the key of every message of the     *)
(* worker: what the worker holds, was told to create, or deleted but still *)
(* reports was registered, and Retire never takes a registration back.     *)
THEOREM HandlersAreKept == Spec => []ReportsHaveHandler
<1>1. Base => ReportsHaveHandler
  BY DEF Base, Registered, ReportsHaveHandler
<1> QED
  BY <1>1, BaseHolds, PTL

(* Once the worker has caught up, no component of its tree outlives the    *)
(* unmount of the React component: useLifecycle's effect cleanup deletes   *)
(* it, whatever throws, is reidentified, or is mounted again meanwhile.    *)
NoneOutlivesUnmount ==
  Settled => \A k \in Keys : PathOf(k) \in DOMAIN tree => k \in Mounted

THEOREM UnmountedIsDeleted == Spec => []NoneOutlivesUnmount
<1>1. Base => NoneOutlivesUnmount
  <2> SUFFICES ASSUME Base, toWorker = <<>>, NEW k \in Keys, PathOf(k) \in DOMAIN tree
               PROVE  k \in Mounted
    BY DEF NoneOutlivesUnmount, Settled
  <2>1. DOMAIN toWorker = {}
    OBVIOUS
  <2> QED
    BY <2>1 DEF Base, Doomed
<1> QED
  BY <1>1, BaseHolds, PTL

-----------------------------------------------------------------------------
(* The worker follows the main thread: Followed.                           *)

(* Only what encloses nothing changes its type or onReceive.  A composite   *)
(* that does is deleted on the worker with all it encloses, and is created  *)
(* again alone (useLifecycle): its children are then missing there.         *)
LeavesOnly ==
  \A k \in Reidentified, j \in Keys : AtOrBelow(PathOf(k), PathOf(j)) => j = k

LEMMA InitFollowed == ASSUME Init PROVE Followed
<1>1. effects = {} /\ Mounted = {} /\ DOMAIN toWorker = {}
  BY DEF Init, Mounted
<1> QED
  BY <1>1 DEF Followed

(* The main thread sends more messages.                                    *)
LEMMA FollowedGrows ==
  ASSUME Followed, Grows(toWorker, toWorker'), UNCHANGED <<tree, dirty>>,
         effects' \subseteq Reidentified,
         \A k \in Mounted' :
           \/ k \in Mounted /\ \A i \in New(toWorker, toWorker') : ~Removes(toWorker'[i], k)
           \/ HeldAfter(toWorker', Held, k, Len(toWorker')),
         \A i \in New(toWorker, toWorker') :
           toWorker'[i].variant = "update" =>
             HeldAfter(toWorker', Held, Parent[toWorker'[i].key], i - 1)
  PROVE  Followed'
<1>1. /\ Len(toWorker) \in Nat /\ Len(toWorker') \in Nat /\ Len(toWorker) <= Len(toWorker')
      /\ DOMAIN toWorker = 1 .. Len(toWorker) /\ DOMAIN toWorker' = 1 .. Len(toWorker')
      /\ \A i \in 1 .. Len(toWorker) : toWorker'[i] = toWorker[i]
  BY DEF Grows
<1>2. Held' = Held
  BY DEF Held
<1>3. ASSUME NEW k \in Mounted'
      PROVE  HeldAfter(toWorker', Held, k, Len(toWorker'))
  <2> SUFFICES ASSUME k \in Mounted,
                      \A i \in New(toWorker, toWorker') : ~Removes(toWorker'[i], k)
               PROVE  HeldAfter(toWorker', Held, k, Len(toWorker'))
    BY <1>3
  <2>1. HeldAfter(toWorker, Held, k, Len(toWorker)) /\ Len(toWorker) \in 0 .. Len(toWorker)
    BY <1>1 DEF Followed
  <2>2. HeldAfter(toWorker', Held, k, Len(toWorker))
    BY <2>1, HeldGrows
  <2> QED
    BY <1>1, <2>2, HeldOn DEF New
<1>4. ASSUME NEW i \in DOMAIN toWorker', toWorker'[i].variant = "update"
      PROVE  HeldAfter(toWorker', Held, Parent[toWorker'[i].key], i - 1)
  <2>1. CASE i \in New(toWorker, toWorker')
    BY <1>4, <2>1
  <2>2. CASE i \notin New(toWorker, toWorker')
    <3>1. i \in DOMAIN toWorker /\ toWorker'[i] = toWorker[i] /\ i - 1 \in 0 .. Len(toWorker)
      BY <1>1, <2>2 DEF New
    <3>2. HeldAfter(toWorker, Held, Parent[toWorker'[i].key], i - 1)
      BY <1>4, <3>1 DEF Followed
    <3> QED
      BY <3>1, <3>2, HeldGrows
  <2> QED
    BY <2>1, <2>2
<1> QED
  BY <1>2, <1>3, <1>4 DEF Followed

(* The worker handles the first message.                                   *)
LEMMA FollowedTail ==
  ASSUME Followed, toWorker \in Seq(Message), toWorker # <<>>, toWorker' = Tail(toWorker),
         UNCHANGED <<local, effects>>,
         \A k \in Keys : PathOf(k) \in Held /\ ~Removes(Head(toWorker), k) => PathOf(k) \in Held',
         \A k \in Keys : Creates(Head(toWorker), k) => PathOf(k) \in Held'
  PROVE  Followed'
<1>1. /\ Len(toWorker) \in Nat \ {0} /\ Len(toWorker') = Len(toWorker) - 1
      /\ DOMAIN toWorker = 1 .. Len(toWorker) /\ DOMAIN toWorker' = 1 .. Len(toWorker) - 1
      /\ \A i \in 1 .. Len(toWorker) - 1 : toWorker'[i] = toWorker[i + 1]
  BY TailFacts
<1>2. Mounted' = Mounted /\ Mounted \subseteq Keys
  BY DEF Mounted
<1>3. ASSUME NEW k \in Keys \cup {Root}, NEW n \in 1 .. Len(toWorker),
             HeldAfter(toWorker, Held, k, n)
      PROVE  HeldAfter(toWorker', Held', k, n - 1)
  <2>1. CASE k = Root
    BY <2>1 DEF HeldAfter
  <2>2. CASE k \in Keys
    BY <1>3, <2>2, HeldTail
  <2> QED
    BY <2>1, <2>2
<1>4. ASSUME NEW k \in Mounted'
      PROVE  HeldAfter(toWorker', Held', k, Len(toWorker'))
  <2>1. HeldAfter(toWorker, Held, k, Len(toWorker)) /\ Len(toWorker) \in 1 .. Len(toWorker)
    BY <1>1, <1>2 DEF Followed
  <2> QED
    BY <1>1, <1>2, <1>3, <2>1
<1>5. ASSUME NEW i \in DOMAIN toWorker', toWorker'[i].variant = "update"
      PROVE  HeldAfter(toWorker', Held', Parent[toWorker'[i].key], i - 1)
  <2>1. /\ i + 1 \in DOMAIN toWorker /\ toWorker'[i] = toWorker[i + 1] /\ (i + 1) - 1 = i
        /\ i \in 1 .. Len(toWorker)
    BY <1>1
  <2>2. Parent[toWorker'[i].key] \in Keys \cup {Root}
    <3>1. toWorker[i + 1] \in Message
      BY <2>1
    <3>2. toWorker'[i].key \in Keys
      BY <2>1, <3>1 DEF Message
    <3> QED
      BY <3>2, AetherAssumption
  <2>3. HeldAfter(toWorker, Held, Parent[toWorker'[i].key], i)
    BY <1>5, <2>1 DEF Followed
  <2> QED
    BY <1>3, <2>1, <2>2, <2>3
<1>6. effects' \subseteq Reidentified
  BY DEF Followed
<1> QED
  BY <1>4, <1>5, <1>6 DEF Followed

(* The parent of what is mounted is held after all messages.               *)
LEMMA ParentHeld ==
  ASSUME Followed, toWorker \in Seq(Message), Grows(toWorker, toWorker'),
         NEW k \in Keys, Parent[k] \in Mounted \cup {Root}
  PROVE  HeldAfter(toWorker', Held, Parent[k], Len(toWorker))
<1>1. CASE Parent[k] = Root
  BY <1>1 DEF HeldAfter
<1>2. CASE Parent[k] \in Mounted
  <2>1. HeldAfter(toWorker, Held, Parent[k], Len(toWorker))
    BY <1>2 DEF Followed
  <2>2. Len(toWorker) \in 0 .. Len(toWorker)
    OBVIOUS
  <2> QED
    BY <2>1, <2>2, HeldGrows
<1> QED
  BY <1>1, <1>2

LEMMA SetFollowed ==
  ASSUME Base, Followed, NEW k \in Keys, Mount(k) \/ SetState(k)
  PROVE  Followed'
<1>1. PICK v \in Values :
        local' = [local EXCEPT ![k] = v] /\ toWorker' = Append(toWorker, Update(k, v))
  BY DEF Mount, SetState
<1>2. TypeOK /\ toWorker \in Seq(Message)
  BY DEF Base, TypeOK
<1>3. /\ Mounted' = Mounted \cup {k} /\ Grows(toWorker, toWorker')
      /\ Len(toWorker') = Len(toWorker) + 1
      /\ toWorker'[Len(toWorker) + 1] = Update(k, v)
      /\ New(toWorker, toWorker') = {Len(toWorker) + 1}
  BY <1>1, <1>2, SetFacts
<1>4. Update(k, v).key = k /\ Update(k, v).variant = "update"
  BY MessageFacts
<1>5. UNCHANGED <<effects, tree, dirty>> /\ Parent[k] \in Mounted \cup {Root}
  BY DEF Mount, SetState, Base, Enclosed
<1>6. HeldAfter(toWorker', Held, Parent[k], Len(toWorker))
  BY <1>2, <1>3, <1>5, ParentHeld
<1>7. Len(toWorker) \in Nat /\ (Len(toWorker) + 1) - 1 = Len(toWorker)
      /\ Len(toWorker') \in Nat \ {0}
  BY <1>3 DEF Grows
<1>8. HeldAfter(toWorker', Held, k, Len(toWorker'))
  BY <1>3, <1>4, <1>7, HeldCreated DEF Creates
<1>9. \A j \in Mounted' :
        \/ j \in Mounted /\ \A i \in New(toWorker, toWorker') : ~Removes(toWorker'[i], j)
        \/ HeldAfter(toWorker', Held, j, Len(toWorker'))
  BY <1>3, <1>4, <1>8 DEF Removes
<1>10. \A i \in New(toWorker, toWorker') :
         toWorker'[i].variant = "update" =>
           HeldAfter(toWorker', Held, Parent[toWorker'[i].key], i - 1)
  BY <1>3, <1>4, <1>6, <1>7
<1>11. effects' \subseteq Reidentified
  BY <1>5 DEF Followed
<1> QED
  BY <1>3, <1>5, <1>9, <1>10, <1>11, FollowedGrows

LEMMA RunEffectsFollowed ==
  ASSUME LeavesOnly, Base, Followed, NEW k \in Keys, RunEffects(k)
  PROVE  Followed'
<1>1. /\ TypeOK /\ toWorker \in Seq(Message) /\ k \in Reidentified
      /\ Parent[k] \in Mounted \cup {Root}
  BY DEF Base, TypeOK, Followed, RunEffects, Enclosed
<1>2. /\ Grows(toWorker, toWorker') /\ Len(toWorker') > Len(toWorker)
      /\ \E v \in Values : toWorker'[Len(toWorker')] = Update(k, v)
      /\ \A i \in New(toWorker, toWorker') : toWorker'[i].key = k
                                             /\ toWorker'[i].path = PathOf(k)
      /\ \A i \in New(toWorker, toWorker') :
           i # Len(toWorker') => toWorker'[i].variant = "delete"
  BY <1>1, RunEffectsFacts
<1>3. /\ effects' \subseteq effects /\ UNCHANGED <<local, tree, dirty>>
  BY DEF RunEffects
<1>4. Mounted' = Mounted /\ Mounted \subseteq Keys
  BY <1>3 DEF Mounted
<1>5. /\ Len(toWorker) \in Nat /\ Len(toWorker') \in Nat \ {0} /\ Len(toWorker') - 1 \in Nat
      /\ Len(toWorker) <= Len(toWorker') - 1
      /\ \A i \in Len(toWorker) + 1 .. Len(toWorker') - 1 : i \in New(toWorker, toWorker')
  <2>1. Len(toWorker) \in Nat /\ Len(toWorker') \in Nat /\ Len(toWorker') > Len(toWorker)
    BY <1>2 DEF Grows
  <2> QED
    BY <2>1 DEF New
<1>6. Creates(toWorker'[Len(toWorker')], k)
  BY <1>2, MessageFacts DEF Creates
<1>7. HeldAfter(toWorker', Held, k, Len(toWorker'))
  BY <1>5, <1>6, HeldCreated
<1>8. ASSUME NEW j \in Mounted', j # k, NEW i \in New(toWorker, toWorker')
      PROVE  ~Removes(toWorker'[i], j)
  BY <1>1, <1>2, <1>4, <1>8 DEF Removes, LeavesOnly
<1>9. HeldAfter(toWorker', Held, Parent[k], Len(toWorker') - 1)
  <2>1. HeldAfter(toWorker', Held, Parent[k], Len(toWorker))
    BY <1>1, <1>2, ParentHeld
  <2>2. \A i \in Len(toWorker) + 1 .. Len(toWorker') - 1 : ~Removes(toWorker'[i], Parent[k])
    BY <1>2, <1>5, PathFacts DEF Removes
  <2> QED
    BY <1>5, <2>1, <2>2, HeldOn
<1>10. \A i \in New(toWorker, toWorker') :
         toWorker'[i].variant = "update" =>
           HeldAfter(toWorker', Held, Parent[toWorker'[i].key], i - 1)
  BY <1>2, <1>9
<1>11. \A j \in Mounted' :
         \/ j \in Mounted /\ \A i \in New(toWorker, toWorker') : ~Removes(toWorker'[i], j)
         \/ HeldAfter(toWorker', Held, j, Len(toWorker'))
  BY <1>4, <1>7, <1>8
<1>12. effects' \subseteq Reidentified
  BY <1>3 DEF Followed
<1> QED
  BY <1>2, <1>3, <1>10, <1>11, <1>12, FollowedGrows

LEMMA UnmountFollowed ==
  ASSUME Base, Followed, NEW k \in Keys, Unmount(k)
  PROVE  Followed'
<1>1. /\ Mounted' = Mounted \ Subtree(k) /\ Grows(toWorker, toWorker')
      /\ \A i \in New(toWorker, toWorker') : \E j \in Subtree(k) : toWorker'[i] = Delete(j)
  BY UnmountFacts DEF Base
<1>2. UNCHANGED <<effects, tree, dirty>>
  BY DEF Unmount
<1>3. Mounted \subseteq Keys /\ Subtree(k) \subseteq Keys
  BY DEF Mounted, Subtree
<1>4. ASSUME NEW m \in Mounted', NEW i \in New(toWorker, toWorker'), Removes(toWorker'[i], m)
      PROVE  FALSE
  <2>1. PICK j \in Subtree(k) : toWorker'[i] = Delete(j)
    BY <1>1
  <2>2. AtOrBelow(PathOf(j), PathOf(m)) /\ AtOrBelow(PathOf(k), PathOf(j))
    BY <1>3, <1>4, <2>1, MessageFacts DEF Removes, Subtree
  <2>3. PathOf(k) \in Paths /\ PathOf(j) \in Paths /\ PathOf(m) \in Paths
    BY <1>1, <1>3, PathFacts
  <2>4. AtOrBelow(PathOf(k), PathOf(m))
    BY <2>2, <2>3, PrefixTransitive
  <2> QED
    BY <1>1, <2>4 DEF Subtree
<1>5. \A m \in Mounted' :
        m \in Mounted /\ \A i \in New(toWorker, toWorker') : ~Removes(toWorker'[i], m)
  BY <1>1, <1>4
<1>6. \A i \in New(toWorker, toWorker') : toWorker'[i].variant # "update"
  BY <1>1, <1>3, MessageFacts
<1>7. effects' \subseteq Reidentified
  BY <1>2 DEF Followed
<1> QED
  BY <1>1, <1>2, <1>5, <1>6, <1>7, FollowedGrows

LEMMA UpdateFollowed ==
  ASSUME Base, Followed, HandleUpdate \/ HandleUpdateThrows
  PROVE  Followed'
<1> DEFINE msg == Head(toWorker)
<1> DEFINE p == PathOf(msg.key)
<1> HIDE DEF msg, p
<1>1. msg = Head(toWorker) /\ p = PathOf(msg.key)
  BY DEF msg, p
<1>2. /\ toWorker # <<>> /\ toWorker' = Tail(toWorker) /\ UNCHANGED <<local, effects>>
      /\ msg.variant = "update" /\ msg.key \in Keys
      /\ HandleUpdateThrows => DOMAIN tree' = DOMAIN tree /\ dirty' = dirty \cup {p}
      /\ HandleUpdate /\ Front(p) \notin DOMAIN tree =>
           /\ tree' = tree /\ dirty' = IF Marred(p) THEN dirty \cup {p} ELSE dirty
      /\ HandleUpdate /\ Front(p) \in DOMAIN tree =>
           /\ DOMAIN tree' = DOMAIN tree \cup {p}
           /\ dirty' \subseteq dirty /\ dirty \ dirty' \subseteq DOMAIN tree'
  BY <1>1, UpdateFacts
<1>3. toWorker \in Seq(Message)
  BY DEF Base, TypeOK
<1>4. Held \subseteq Held'
  BY <1>2 DEF Held
<1>5. p \in Held'
  <2>1. CASE HandleUpdateThrows
    BY <1>2, <2>1 DEF Held
  <2>2. CASE HandleUpdate /\ Front(p) \in DOMAIN tree
    BY <1>2, <2>2 DEF Held
  <2>3. CASE HandleUpdate /\ Front(p) \notin DOMAIN tree
    <3>1. Front(p) = PathOf(Parent[msg.key]) /\ AtOrBelow(PathOf(Parent[msg.key]), p)
      BY <1>1, <1>2, PathFacts
    <3>2. Parent[msg.key] # Root
      BY <2>3, <3>1, PathRecursion DEF Base, Registered
    <3>3. HeldAfter(toWorker, Held, Parent[msg.key], 0)
      <4>1. 1 \in DOMAIN toWorker /\ toWorker[1] = msg
        <5>1. Head(toWorker) = toWorker[1] /\ 1 \in 1 .. Len(toWorker)
              /\ DOMAIN toWorker = 1 .. Len(toWorker)
          BY <1>2, <1>3, TailFacts
        <5> QED
          BY <1>1, <5>1
      <4>2. HeldAfter(toWorker, Held, Parent[msg.key], 1 - 1)
        BY <1>2, <4>1 DEF Followed
      <4> QED
        BY <4>2
    <3>4. PathOf(Parent[msg.key]) \in Held
      BY <3>2, <3>3 DEF HeldAfter
    <3>5. Marred(p)
      BY <2>3, <3>1, <3>4 DEF Held, Marred
    <3> QED
      BY <1>2, <2>3, <3>5 DEF Held
  <2> QED
    BY <2>1, <2>2, <2>3
<1> QED
  BY <1>1, <1>2, <1>3, <1>4, <1>5, FollowedTail DEF Creates

LEMMA DeleteFollowed ==
  ASSUME Base, Followed, HandleDelete
  PROVE  Followed'
<1> DEFINE msg == Head(toWorker)
<1> DEFINE p == PathOf(msg.key)
<1> HIDE DEF msg, p
<1>1. msg = Head(toWorker) /\ p = PathOf(msg.key)
  BY DEF msg, p
<1>2. /\ toWorker # <<>> /\ toWorker' = Tail(toWorker) /\ UNCHANGED <<local, effects>>
      /\ msg.variant = "delete" /\ msg.path = p
      /\ DOMAIN tree' = {q \in DOMAIN tree : ~AtOrBelow(p, q)}
      /\ dirty' = {q \in dirty : ~AtOrBelow(p, q)}
  BY <1>1, DeleteFacts
<1>3. toWorker \in Seq(Message)
  BY DEF Base, TypeOK
<1>4. \A k \in Keys : PathOf(k) \in Held /\ ~Removes(msg, k) => PathOf(k) \in Held'
  BY <1>2 DEF Held, Removes
<1>5. \A k \in Keys : ~Creates(msg, k)
  BY <1>2 DEF Creates
<1> QED
  BY <1>1, <1>2, <1>3, <1>4, <1>5, FollowedTail

LEMMA OthersFollowed ==
  ASSUME Followed, UNCHANGED <<toWorker, dirty>>, DOMAIN tree' = DOMAIN tree,
         Mounted' = Mounted, effects' \subseteq Reidentified
  PROVE  Followed'
BY DEF Followed, Held

LEMMA NextFollowed == ASSUME LeavesOnly, Base, Followed, [Next]_vars PROVE Followed'
<1>1. ASSUME NEW k \in Keys, Mount(k) \/ SetState(k) PROVE Followed'
  BY <1>1, SetFollowed
<1>2. ASSUME NEW k \in Keys, Reidentify(k) PROVE Followed'
  <2>1. UNCHANGED <<local, toWorker, tree, dirty>> /\ effects' \subseteq Reidentified
    BY <1>2 DEF Reidentify
  <2>2. Mounted' = Mounted
    BY <2>1 DEF Mounted
  <2> QED
    BY <2>1, <2>2, OthersFollowed
<1>3. ASSUME NEW k \in Keys, Unmount(k) PROVE Followed'
  BY <1>3, UnmountFollowed
<1>4. ASSUME NEW k \in Keys, Report(k) \/ ReportLate(k) PROVE Followed'
  <2>1. UNCHANGED <<local, effects, toWorker, dirty>>
    BY <1>4 DEF Report, ReportLate, mainVars
  <2>2. DOMAIN tree' = DOMAIN tree
    BY <1>4, ReportFacts DEF ReportLate
  <2>3. Mounted' = Mounted
    BY <2>1 DEF Mounted
  <2> QED
    BY <2>1, <2>2, <2>3, OthersFollowed DEF Followed
<1>5. ASSUME NEW k \in Keys, RunEffects(k) PROVE Followed'
  BY <1>5, RunEffectsFollowed
<1>6. ASSUME ReceiveMain PROVE Followed'
  <2>1. Mounted' = Mounted /\ UNCHANGED <<effects, toWorker, tree, dirty>>
    BY <1>6, ReceiveFacts
  <2> QED
    BY <2>1, OthersFollowed DEF Followed
<1>7. ASSUME HandleUpdate \/ HandleUpdateThrows \/ HandleDelete PROVE Followed'
  BY <1>7, UpdateFollowed, DeleteFollowed
<1>8. CASE UNCHANGED vars
  <2>1. UNCHANGED <<local, effects, toWorker, tree, dirty>>
    BY <1>8 DEF vars
  <2>2. Mounted' = Mounted
    BY <2>1 DEF Mounted
  <2> QED
    BY <2>1, <2>2, OthersFollowed DEF Followed
<1> QED
  BY <1>1, <1>2, <1>3, <1>4, <1>5, <1>6, <1>7, <1>8 DEF Next

(* Once the worker has caught up its tree holds exactly the mounted        *)
(* components, but for those at or below an update that an afterUpdate cut *)
(* short.  Reidentified components must have none inside: useLifecycle's   *)
(* cleanup deletes a composite with its children, and only it comes back.  *)
THEOREM WorkerFollows == ASSUME LeavesOnly PROVE Spec => []TreesMatch
<1>1. Init => Base /\ Followed
  BY InitBase, InitFollowed
<1>2. (Base /\ Followed) /\ [Next]_vars => (Base /\ Followed)'
  BY NextBase, NextFollowed
<1>3. Base /\ Followed => TreesMatch
  <2> SUFFICES ASSUME Base, Followed, Settled, NEW k \in Keys
               PROVE  Marred(PathOf(k)) \/ (PathOf(k) \in DOMAIN tree <=> k \in Mounted)
    BY DEF TreesMatch, Base
  <2>1. DOMAIN toWorker = {} /\ Len(toWorker) = 0
    BY DEF Settled
  <2>2. PathOf(k) \in DOMAIN tree => k \in Mounted
    BY <2>1 DEF Base, Doomed
  <2>3. ASSUME k \in Mounted PROVE PathOf(k) \in DOMAIN tree \/ Marred(PathOf(k))
    <3>1. HeldAfter(toWorker, Held, k, 0)
      BY <2>1, <2>3 DEF Followed
    <3>2. k # Root
      BY AetherAssumption
    <3>3. PathOf(k) \in Held
      BY <3>1, <3>2 DEF HeldAfter
    <3>4. AtOrBelow(PathOf(k), PathOf(k))
      BY PathFacts, PrefixReflexive
    <3> QED
      BY <3>3, <3>4 DEF Held, Marred
  <2> QED
    BY <2>2, <2>3
<1> QED
  BY <1>1, <1>2, <1>3, PTL DEF Spec

-----------------------------------------------------------------------------
(* The two states of a component: States.                                  *)

(* The messages about k in s are those in q, or the last of those.         *)
SameOf(q, s, k) ==
  /\ Sent(s, k) <=> Sent(q, k)
  /\ \A i \in DOMAIN s :
       IsLast(s, i, k) => \E j \in DOMAIN q : IsLast(q, j, k) /\ s[i] = q[j]

LEMMA SameRefl == ASSUME NEW q, NEW k PROVE SameOf(q, q, k)
BY DEF SameOf

LEMMA SameGrows ==
  ASSUME NEW q, NEW s, NEW k, Grows(q, s), \A i \in New(q, s) : s[i].key # k
  PROVE  SameOf(q, s, k)
<1>1. /\ Len(q) \in Nat /\ Len(s) \in Nat /\ Len(q) <= Len(s)
      /\ DOMAIN q = 1 .. Len(q) /\ DOMAIN s = 1 .. Len(s)
      /\ \A i \in 1 .. Len(q) : s[i] = q[i]
  BY DEF Grows
<1>2. \A i \in DOMAIN q : i \in DOMAIN s /\ s[i] = q[i]
  BY <1>1
<1>3. \A i \in DOMAIN s : s[i].key = k => i \in DOMAIN q /\ s[i] = q[i]
  BY <1>1 DEF New
<1>4. Sent(s, k) <=> Sent(q, k)
  BY <1>2, <1>3 DEF Sent
<1>5. ASSUME NEW i \in DOMAIN s, IsLast(s, i, k)
      PROVE  \E j \in DOMAIN q : IsLast(q, j, k) /\ s[i] = q[j]
  <2>1. i \in DOMAIN q /\ s[i] = q[i] /\ q[i].key = k
    BY <1>3, <1>5 DEF IsLast
  <2>2. IsLast(q, i, k)
    BY <1>2, <1>5, <2>1 DEF IsLast
  <2> QED
    BY <2>1, <2>2
<1> QED
  BY <1>4, <1>5 DEF SameOf

(* What is left of q, s, after its first message, m, has about k.          *)
RestOf(q, m, s, k) ==
  /\ Sent(s, k) => Sent(q, k)
  /\ m.key = k => Sent(q, k)
  /\ \A i \in DOMAIN s :
       IsLast(s, i, k) => \E j \in DOMAIN q : IsLast(q, j, k) /\ s[i] = q[j]
  /\ m.key = k /\ ~Sent(s, k) => \E j \in DOMAIN q : IsLast(q, j, k) /\ m = q[j]
  /\ m.key # k => SameOf(q, s, k)

LEMMA TailOf ==
  ASSUME NEW S, NEW q \in Seq(S), q # <<>>, NEW k
  PROVE  RestOf(q, Head(q), Tail(q), k)
<1> DEFINE t == Tail(q)
<1>1. /\ Head(q) = q[1] /\ Len(q) \in Nat \ {0}
      /\ DOMAIN q = 1 .. Len(q) /\ DOMAIN t = 1 .. Len(q) - 1
      /\ \A i \in 1 .. Len(q) - 1 : t[i] = q[i + 1]
  BY TailFacts
<1> HIDE DEF t
<1>2. \A i \in DOMAIN t : i \in Nat /\ i + 1 \in DOMAIN q /\ t[i] = q[i + 1]
  BY <1>1
<1>3. \A j \in DOMAIN q : j \in Nat /\ j >= 1
                          /\ (j # 1 => j - 1 \in DOMAIN t /\ t[j - 1] = q[j])
  <2> SUFFICES ASSUME NEW j \in DOMAIN q
               PROVE  j \in Nat /\ j >= 1 /\ (j # 1 => j - 1 \in DOMAIN t /\ t[j - 1] = q[j])
    OBVIOUS
  <2>1. j \in Nat /\ j >= 1
    BY <1>1
  <2>2. ASSUME j # 1 PROVE j - 1 \in 1 .. Len(q) - 1 /\ (j - 1) + 1 = j
    BY <1>1, <2>2
  <2> QED
    BY <1>1, <2>1, <2>2
<1>4. 1 \in DOMAIN q
  BY <1>1
<1>5. Sent(t, k) => Sent(q, k)
  BY <1>2 DEF Sent
<1>6. Head(q).key = k => Sent(q, k)
  BY <1>1, <1>4 DEF Sent
<1>7. ASSUME NEW i \in DOMAIN t, IsLast(t, i, k)
      PROVE  \E j \in DOMAIN q : IsLast(q, j, k) /\ t[i] = q[j]
  <2>1. i + 1 \in DOMAIN q /\ t[i] = q[i + 1] /\ q[i + 1].key = k /\ i \in Nat
    BY <1>2, <1>7 DEF IsLast
  <2>2. ASSUME NEW j \in DOMAIN q, j > i + 1 PROVE q[j].key # k
    <3>1. j \in Nat /\ j # 1
      BY <1>3, <2>1, <2>2
    <3>2. j - 1 \in DOMAIN t /\ t[j - 1] = q[j] /\ j - 1 > i
      BY <1>3, <2>1, <2>2, <3>1
    <3> QED
      BY <1>7, <3>2 DEF IsLast
  <2>3. IsLast(q, i + 1, k)
    BY <2>1, <2>2 DEF IsLast
  <2> QED
    BY <2>1, <2>3
<1>8. ASSUME Head(q).key = k, ~Sent(t, k)
      PROVE  \E j \in DOMAIN q : IsLast(q, j, k) /\ Head(q) = q[j]
  <2>1. \A j \in DOMAIN q : j > 1 => q[j].key # k
    BY <1>3, <1>8 DEF Sent
  <2>2. IsLast(q, 1, k)
    BY <1>1, <1>4, <1>8, <2>1 DEF IsLast
  <2> QED
    BY <1>1, <1>4, <2>2
<1>9. ASSUME Head(q).key # k PROVE SameOf(q, t, k)
  <2>1. Sent(q, k) => Sent(t, k)
    BY <1>1, <1>3, <1>9 DEF Sent
  <2> QED
    BY <1>5, <1>7, <2>1 DEF SameOf
<1> QED
  BY <1>5, <1>6, <1>7, <1>8, <1>9 DEF t, RestOf

(* A step about another component.                                         *)
LEMMA AgreedOther ==
  ASSUME NEW k \in Keys, Agreed(k), local'[k] = local[k],
         SameOf(toMain, toMain', k), SameOf(toWorker, toWorker', k),
         PathOf(k) \in DOMAIN tree' =>
           PathOf(k) \in DOMAIN tree /\ tree'[PathOf(k)].state = tree[PathOf(k)].state
  PROVE  Agreed(k)'
<1>1. ~Sent(toMain', k) \/ ~Sent(toWorker', k)
  BY DEF Agreed, SameOf
<1>2. \A i \in DOMAIN toWorker' :
        IsLast(toWorker', i, k) =>
          toWorker'[i].variant = "update" /\ toWorker'[i].state = local'[k]
  BY DEF Agreed, SameOf
<1>3. ASSUME PathOf(k) \in DOMAIN tree'
      PROVE  /\ \A i \in DOMAIN toMain' :
                  IsLast(toMain', i, k) => toMain'[i].state = tree'[PathOf(k)].state
             /\ ~Sent(toMain', k) /\ ~Sent(toWorker', k) => tree'[PathOf(k)].state = local'[k]
  BY <1>3 DEF Agreed, SameOf
<1> QED
  BY <1>1, <1>2, <1>3 DEF Agreed

(* The last message is about k.                                            *)
LEMMA LastIsNew ==
  ASSUME NEW q, NEW s, NEW k, Grows(q, s), Len(s) = Len(q) + 1, s[Len(s)].key = k
  PROVE  Sent(s, k) /\ \A i \in DOMAIN s : IsLast(s, i, k) => i = Len(s)
<1>1. Len(s) \in Nat \ {0} /\ DOMAIN s = 1 .. Len(s)
  BY DEF Grows
<1>2. Len(s) \in DOMAIN s /\ \A i \in DOMAIN s : i = Len(s) \/ Len(s) > i
  BY <1>1
<1> QED
  BY <1>2 DEF Sent, IsLast

(* Nothing about k is on its way.                                          *)
LEMMA NotSent ==
  ASSUME NEW q, NEW k, ~Sent(q, k)
  PROVE  \A i \in DOMAIN q : ~IsLast(q, i, k)
BY DEF Sent, IsLast

LEMMA SetStates ==
  ASSUME Base, States, NEW k \in Keys, Mount(k) \/ SetState(k)
  PROVE  States'
<1>1. PICK v \in Values :
        local' = [local EXCEPT ![k] = v] /\ toWorker' = Append(toWorker, Update(k, v))
  BY DEF Mount, SetState
<1>2. /\ local'[k] = v /\ \A j \in Keys \ {k} : local'[j] = local[j]
      /\ Mounted' = Mounted \cup {k} /\ Grows(toWorker, toWorker')
      /\ Len(toWorker') = Len(toWorker) + 1
      /\ toWorker'[Len(toWorker) + 1] = Update(k, v)
      /\ New(toWorker, toWorker') = {Len(toWorker) + 1}
  BY <1>1, SetFacts DEF Base
<1>3. Update(k, v).key = k /\ Update(k, v).variant = "update" /\ Update(k, v).state = v
  BY MessageFacts
<1>4. /\ UNCHANGED <<toMain, tree>>
      /\ k \notin crossed' => ~Sent(toMain, k)
      /\ crossed \ {k} \subseteq crossed'
  BY DEF Mount, SetState
<1>5. Mounted \subseteq Keys
  BY DEF Mounted
<1>6. ASSUME NEW j \in Mounted' \ crossed', j # k
      PROVE  Agreed(j)'
  <2>1. j \in Keys /\ Agreed(j) /\ local'[j] = local[j]
    BY <1>2, <1>4, <1>5, <1>6 DEF States
  <2>2. SameOf(toWorker, toWorker', j)
    BY <1>2, <1>3, <1>6, SameGrows
  <2>3. SameOf(toMain, toMain', j)
    BY <1>4, SameRefl
  <2> QED
    BY <1>4, <2>1, <2>2, <2>3, AgreedOther
<1>7. ASSUME k \notin crossed'
      PROVE  Agreed(k)'
  <2>1. ~Sent(toMain', k)
    BY <1>4, <1>7
  <2>2. toWorker'[Len(toWorker')] = Update(k, v)
    BY <1>2
  <2>3. Sent(toWorker', k) /\ \A i \in DOMAIN toWorker' : IsLast(toWorker', i, k) => i = Len(toWorker')
    BY <1>2, <1>3, <2>2, LastIsNew
  <2>4. \A i \in DOMAIN toMain' : ~IsLast(toMain', i, k)
    BY <2>1, NotSent
  <2> QED
    BY <1>2, <1>3, <2>1, <2>2, <2>3, <2>4 DEF Agreed
<1> QED
  BY <1>6, <1>7 DEF States

LEMMA SendStates ==
  ASSUME States, Grows(toWorker, toWorker'), UNCHANGED <<toMain, tree>>,
         Mounted' \subseteq Mounted, \A j \in Mounted' : local'[j] = local[j],
         crossed \subseteq crossed',
         \A i \in New(toWorker, toWorker') : toWorker'[i].key \notin Mounted' \ crossed'
  PROVE  States'
<1> SUFFICES ASSUME NEW j \in Mounted' \ crossed' PROVE Agreed(j)'
  BY DEF States
<1>1. j \in Keys /\ Agreed(j)
  BY DEF States, Mounted
<1>2. SameOf(toWorker, toWorker', j)
  BY SameGrows
<1>3. SameOf(toMain, toMain', j)
  BY SameRefl
<1> QED
  BY <1>1, <1>2, <1>3, AgreedOther

LEMMA RunEffectsStates ==
  ASSUME Base, States, NEW k \in Keys, RunEffects(k)
  PROVE  States'
<1>1. /\ Grows(toWorker, toWorker')
      /\ \A i \in New(toWorker, toWorker') : toWorker'[i].key = k
  BY RunEffectsFacts DEF Base
<1>2. UNCHANGED <<local, toMain, tree>> /\ crossed' = crossed \cup {k}
  BY DEF RunEffects
<1>3. Mounted' = Mounted
  BY <1>2 DEF Mounted
<1> QED
  BY <1>1, <1>2, <1>3, SendStates

LEMMA UnmountStates ==
  ASSUME Base, States, NEW k \in Keys, Unmount(k)
  PROVE  States'
<1>1. /\ Mounted' = Mounted \ Subtree(k) /\ \A j \in Mounted' : local'[j] = local[j]
      /\ Grows(toWorker, toWorker')
      /\ \A i \in New(toWorker, toWorker') : \E j \in Subtree(k) : toWorker'[i] = Delete(j)
  BY UnmountFacts DEF Base
<1>2. UNCHANGED <<toMain, tree, crossed>>
  BY DEF Unmount
<1>3. Subtree(k) \subseteq Keys
  BY DEF Subtree, Mounted
<1>4. \A i \in New(toWorker, toWorker') : toWorker'[i].key \in Subtree(k)
  BY <1>1, <1>3, MessageFacts
<1> QED
  BY <1>1, <1>2, <1>4, SendStates

LEMMA ReceiveStates == ASSUME Base, States, ReceiveMain PROVE States'
<1> DEFINE R == [key : Keys, state : Values]
<1> DEFINE msg == Head(toMain)
<1>1. /\ toMain # <<>> /\ toMain \in Seq(R) /\ toMain' = Tail(toMain) /\ msg.key \in Keys
      /\ Mounted' = Mounted /\ \A j \in Keys \ {msg.key} : local'[j] = local[j]
      /\ msg.key \in Mounted \ crossed' => local'[msg.key] = msg.state
      /\ crossed \subseteq crossed' /\ UNCHANGED <<toWorker, tree>>
  BY ReceiveFacts
<1> SUFFICES ASSUME NEW k \in Mounted \ crossed' PROVE Agreed(k)'
  BY <1>1 DEF States
<1>2. k \in Keys /\ Agreed(k)
  BY <1>1 DEF Mounted, States
<1> HIDE DEF R
<1>3. /\ Sent(toMain', k) => Sent(toMain, k)
      /\ msg.key = k => Sent(toMain, k)
      /\ \A i \in DOMAIN toMain' :
           IsLast(toMain', i, k) => \E j \in DOMAIN toMain : IsLast(toMain, j, k) /\ toMain'[i] = toMain[j]
      /\ msg.key = k /\ ~Sent(toMain', k) =>
           \E j \in DOMAIN toMain : IsLast(toMain, j, k) /\ msg = toMain[j]
      /\ msg.key # k => SameOf(toMain, toMain', k)
  <2>1. RestOf(toMain, msg, toMain', k)
    BY <1>1, TailOf
  <2> QED
    BY <2>1 DEF RestOf
<1> HIDE DEF msg
<1>4. CASE msg.key # k
  <2>1. SameOf(toWorker, toWorker', k)
    BY <1>1, SameRefl
  <2> QED
    BY <1>1, <1>2, <1>3, <1>4, <2>1, AgreedOther
<1>5. CASE msg.key = k
  <2>1. ~Sent(toWorker, k) /\ local'[k] = msg.state
    BY <1>1, <1>2, <1>3, <1>5 DEF Agreed
  <2>2. \A i \in DOMAIN toWorker' : ~IsLast(toWorker', i, k)
    BY <1>1, <2>1, NotSent
  <2>3. ASSUME PathOf(k) \in DOMAIN tree'
        PROVE  /\ \A i \in DOMAIN toMain' :
                    IsLast(toMain', i, k) => toMain'[i].state = tree'[PathOf(k)].state
               /\ ~Sent(toMain', k) => tree'[PathOf(k)].state = local'[k]
    BY <1>1, <1>2, <1>3, <1>5, <2>1, <2>3 DEF Agreed
  <2> QED
    BY <1>1, <2>1, <2>2, <2>3 DEF Agreed
<1> QED
  BY <1>4, <1>5

LEMMA UpdateStates ==
  ASSUME Base, States, HandleUpdate \/ HandleUpdateThrows
  PROVE  States'
<1> DEFINE msg == Head(toWorker)
<1> DEFINE p == PathOf(msg.key)
<1> DEFINE r == <<Root>>
<1> HIDE DEF p, r
<1>1. msg = Head(toWorker) /\ p = PathOf(msg.key)
  BY DEF msg, p
<1>2. /\ toWorker # <<>> /\ toWorker' = Tail(toWorker) /\ UNCHANGED <<local, toMain, crossed>>
      /\ msg.key \in Keys
      /\ \A q \in DOMAIN tree \ {p} : tree'[q].state = tree[q].state
      /\ HandleUpdateThrows => /\ DOMAIN tree' = DOMAIN tree
                               /\ p \in DOMAIN tree => tree'[p].state = msg.state
      /\ HandleUpdate /\ Front(p) \notin DOMAIN tree => tree' = tree
      /\ HandleUpdate /\ Front(p) \in DOMAIN tree =>
           DOMAIN tree' = DOMAIN tree \cup {p} /\ tree'[p].state = msg.state
  BY <1>1, UpdateFacts
<1>3. toWorker \in Seq(Message) /\ Mounted' = Mounted
  BY <1>2 DEF Base, TypeOK, Mounted
<1>4. DOMAIN tree' \subseteq DOMAIN tree \cup {p}
  BY <1>2
<1>5. p \in DOMAIN tree' => tree'[p].state = msg.state
  <2>1. p # r /\ \A q \in DOMAIN tree \ {r} : Front(q) \in DOMAIN tree
    BY <1>1, <1>2, PathFacts DEF Base, TypeOK, r
  <2> QED
    BY <1>2, <2>1
<1> SUFFICES ASSUME NEW k \in Mounted \ crossed PROVE Agreed(k)'
  BY <1>2, <1>3 DEF States
<1>6. k \in Keys /\ Agreed(k)
  BY DEF Mounted, States
<1>7. /\ Sent(toWorker', k) => Sent(toWorker, k)
      /\ msg.key = k => Sent(toWorker, k)
      /\ \A i \in DOMAIN toWorker' :
           IsLast(toWorker', i, k) =>
             \E j \in DOMAIN toWorker : IsLast(toWorker, j, k) /\ toWorker'[i] = toWorker[j]
      /\ msg.key = k /\ ~Sent(toWorker', k) =>
           \E j \in DOMAIN toWorker : IsLast(toWorker, j, k) /\ msg = toWorker[j]
      /\ msg.key # k => SameOf(toWorker, toWorker', k)
  <2>1. RestOf(toWorker, msg, toWorker', k)
    BY <1>2, <1>3, TailOf
  <2> QED
    BY <2>1 DEF RestOf
<1> HIDE DEF msg
<1>8. CASE msg.key # k
  <2>1. SameOf(toMain, toMain', k)
    BY <1>2, SameRefl
  <2>2. PathOf(k) # p
    BY <1>1, <1>2, <1>6, <1>8, PathsDiffer
  <2> QED
    BY <1>2, <1>4, <1>6, <1>7, <1>8, <2>1, <2>2, AgreedOther
<1>9. CASE msg.key = k
  <2>1. ~Sent(toMain', k) /\ PathOf(k) = p
    BY <1>1, <1>2, <1>6, <1>7, <1>9 DEF Agreed
  <2>2. \A i \in DOMAIN toMain' : ~IsLast(toMain', i, k)
    BY <2>1, NotSent
  <2>3. \A i \in DOMAIN toWorker' :
          IsLast(toWorker', i, k) =>
            toWorker'[i].variant = "update" /\ toWorker'[i].state = local'[k]
    BY <1>2, <1>6, <1>7 DEF Agreed
  <2>4. ~Sent(toWorker', k) => msg.state = local'[k]
    BY <1>2, <1>6, <1>7, <1>9 DEF Agreed
  <2> QED
    BY <1>5, <2>1, <2>2, <2>3, <2>4 DEF Agreed
<1> QED
  BY <1>8, <1>9

LEMMA DeleteStates == ASSUME Base, States, HandleDelete PROVE States'
<1> DEFINE msg == Head(toWorker)
<1> DEFINE p == PathOf(msg.key)
<1> HIDE DEF p
<1>1. msg = Head(toWorker) /\ p = PathOf(msg.key)
  BY DEF msg, p
<1>2. /\ toWorker # <<>> /\ toWorker' = Tail(toWorker) /\ UNCHANGED <<local, toMain, crossed>>
      /\ msg.key \in Keys
      /\ DOMAIN tree' = {q \in DOMAIN tree : ~AtOrBelow(p, q)}
      /\ \A q \in DOMAIN tree' : tree'[q] = tree[q]
  BY <1>1, DeleteFacts
<1>3. toWorker \in Seq(Message) /\ Mounted' = Mounted
  BY <1>2 DEF Base, TypeOK, Mounted
<1> SUFFICES ASSUME NEW k \in Mounted \ crossed PROVE Agreed(k)'
  BY <1>2, <1>3 DEF States
<1>4. k \in Keys /\ Agreed(k)
  BY DEF Mounted, States
<1>5. /\ msg.key = k => Sent(toWorker, k)
      /\ \A i \in DOMAIN toWorker' :
           IsLast(toWorker', i, k) =>
             \E j \in DOMAIN toWorker : IsLast(toWorker, j, k) /\ toWorker'[i] = toWorker[j]
      /\ msg.key # k => SameOf(toWorker, toWorker', k)
  <2>1. RestOf(toWorker, msg, toWorker', k)
    BY <1>2, <1>3, TailOf
  <2> QED
    BY <2>1 DEF RestOf
<1> HIDE DEF msg
<1>6. CASE msg.key # k
  <2>1. SameOf(toMain, toMain', k)
    BY <1>2, SameRefl
  <2>2. PathOf(k) \in DOMAIN tree' =>
          PathOf(k) \in DOMAIN tree /\ tree'[PathOf(k)].state = tree[PathOf(k)].state
    BY <1>2
  <2>3. local'[k] = local[k]
    BY <1>2
  <2> QED
    BY <1>4, <1>5, <1>6, <2>1, <2>2, <2>3, AgreedOther
<1>7. CASE msg.key = k
  <2>1. ~Sent(toMain', k)
    BY <1>2, <1>4, <1>5, <1>7 DEF Agreed
  <2>2. AtOrBelow(PathOf(k), PathOf(k))
    BY <1>4, PathFacts, PrefixReflexive
  <2>3. PathOf(k) \notin DOMAIN tree'
    BY <1>1, <1>2, <1>7, <2>2
  <2>4. \A i \in DOMAIN toWorker' :
          IsLast(toWorker', i, k) =>
            toWorker'[i].variant = "update" /\ toWorker'[i].state = local'[k]
    BY <1>2, <1>4, <1>5 DEF Agreed
  <2> QED
    BY <2>1, <2>3, <2>4 DEF Agreed
<1> QED
  BY <1>6, <1>7

LEMMA ReportStates ==
  ASSUME Base, States, NEW k \in Keys, Report(k) \/ ReportLate(k)
  PROVE  States'
<1>1. UNCHANGED <<local, toWorker>> /\ crossed \subseteq crossed'
  BY DEF Report, ReportLate, mainVars
<1>2. /\ Report(k) /\ k \notin crossed' => ~Sent(toWorker, k)
      /\ ReportLate(k) => k \in crossed'
  BY DEF Report, ReportLate
<1>3. Mounted' = Mounted
  BY <1>1 DEF Mounted
<1>4. PICK v \in Values :
        /\ toMain' = Append(toMain, [key |-> k, state |-> v])
        /\ Report(k) => tree'[PathOf(k)].state = v
        /\ DOMAIN tree' = DOMAIN tree
        /\ \A q \in DOMAIN tree \ {PathOf(k)} : tree'[q] = tree[q]
  <2>1. CASE Report(k)
    BY <2>1, ReportFacts
  <2>2. CASE ReportLate(k) /\ ~Report(k)
    BY <2>2 DEF ReportLate
  <2> QED
    BY <2>1, <2>2
<1>5. /\ Grows(toMain, toMain') /\ Len(toMain') = Len(toMain) + 1
      /\ toMain'[Len(toMain')].key = k /\ toMain'[Len(toMain')].state = v
  BY <1>4, ToMainGrows DEF Base
<1>6. ASSUME NEW j \in Mounted \ crossed', j # k
      PROVE  Agreed(j)'
  <2>1. j \in Keys /\ Agreed(j) /\ local'[j] = local[j]
    BY <1>1, <1>6 DEF Mounted, States
  <2>2. \A i \in New(toMain, toMain') : toMain'[i].key # j
    <3>1. New(toMain, toMain') = {Len(toMain')}
      BY <1>5 DEF New, Grows
    <3> QED
      BY <1>5, <1>6, <3>1
  <2>3. SameOf(toMain, toMain', j)
    BY <1>5, <2>2, SameGrows
  <2>4. SameOf(toWorker, toWorker', j)
    BY <1>1, SameRefl
  <2>5. PathOf(j) # PathOf(k)
    BY <1>6, <2>1, PathsDiffer
  <2>6. PathOf(j) \in DOMAIN tree' =>
          PathOf(j) \in DOMAIN tree /\ tree'[PathOf(j)].state = tree[PathOf(j)].state
    BY <1>4, <2>5
  <2> QED
    BY <2>1, <2>3, <2>4, <2>6, AgreedOther
<1>7. ASSUME k \in Mounted \ crossed'
      PROVE  Agreed(k)'
  <2>1. ~Sent(toWorker', k) /\ tree'[PathOf(k)].state = v
    BY <1>1, <1>2, <1>4, <1>7
  <2>2. \A i \in DOMAIN toWorker' : ~IsLast(toWorker', i, k)
    BY <2>1, NotSent
  <2>3. Sent(toMain', k) /\ \A i \in DOMAIN toMain' : IsLast(toMain', i, k) => i = Len(toMain')
    BY <1>5, LastIsNew
  <2> QED
    BY <1>5, <2>1, <2>2, <2>3 DEF Agreed
<1> QED
  BY <1>3, <1>6, <1>7 DEF States

LEMMA NextStates == ASSUME Base, States, [Next]_vars PROVE States'
<1>1. ASSUME NEW k \in Keys, Mount(k) \/ SetState(k) PROVE States'
  BY <1>1, SetStates
<1>2. ASSUME UNCHANGED <<local, toWorker, toMain, tree, crossed>> PROVE States'
  BY <1>2 DEF States, Agreed, Mounted
<1>3. ASSUME NEW k \in Keys, Reidentify(k) PROVE States'
  BY <1>2, <1>3 DEF Reidentify
<1>4. ASSUME NEW k \in Keys, Unmount(k) \/ RunEffects(k) PROVE States'
  BY <1>4, UnmountStates, RunEffectsStates
<1>5. ASSUME NEW k \in Keys, Report(k) \/ ReportLate(k) PROVE States'
  BY <1>5, ReportStates
<1>6. ASSUME ReceiveMain \/ HandleUpdate \/ HandleUpdateThrows \/ HandleDelete PROVE States'
  BY <1>6, ReceiveStates, UpdateStates, DeleteStates
<1>7. CASE UNCHANGED vars
  BY <1>2, <1>7 DEF vars
<1> QED
  BY <1>1, <1>3, <1>4, <1>5, <1>6, <1>7 DEF Next

(* When nothing is under way the React state and the worker's state of a   *)
(* component are equal, unless use's setState and Leaf.setState crossed,   *)
(* the worker set a state that nothing on the main thread takes, a deleted *)
(* component's callback reported, or an afterUpdate threw.                 *)
THEOREM StatesAgree == ASSUME LeavesOnly PROVE Spec => []AgreeUnlessCrossed
<1>1. Init => States
  BY DEF Init, States, Mounted
<1>2. States /\ Base /\ [Next]_vars => States'
  BY NextStates
<1>3. States /\ TreesMatch => AgreeUnlessCrossed
  <2> SUFFICES ASSUME States, TreesMatch, Quiet, NEW k \in Mounted \ crossed,
                      ~Marred(PathOf(k))
               PROVE  tree[PathOf(k)].state = local[k]
    BY DEF AgreeUnlessCrossed
  <2>1. k \in Keys /\ Agreed(k) /\ PathOf(k) \in DOMAIN tree
    BY DEF States, Mounted, TreesMatch, Quiet
  <2>2. DOMAIN toMain = {} /\ DOMAIN toWorker = {}
    BY DEF Quiet, Settled
  <2> QED
    BY <2>1, <2>2 DEF Agreed, Sent
<1> QED
  BY <1>1, <1>2, <1>3, BaseHolds, WorkerFollows, PTL DEF Spec

-----------------------------------------------------------------------------
(* Contexts: induction along paths.                                        *)

LEMMA Least ==
  ASSUME NEW T, T \subseteq Nat, T # {}
  PROVE  \E m \in T : \A n \in T : m <= n
<1> DEFINE R == OpToRel(<, Nat)
<1>1. IsWellFoundedOn(R, Nat)
  BY NatLessThanWellFounded
<1>2. \A x, y \in Nat : x < y => <<x, y>> \in R
  BY DEF OpToRel
<1> HIDE DEF R
<1>3. PICK m \in T : \A y \in T : ~(<<y, m>> \in R)
  BY <1>1, WFMin
<1>4. ASSUME NEW n \in T PROVE m <= n
  <2>1. ~(n < m)
    BY <1>2, <1>3
  <2> QED
    BY <2>1
<1> QED
  BY <1>4

(* Of any paths one is the shortest.                                       *)
LEMMA Shortest ==
  ASSUME NEW S, S \subseteq Paths, S # {}
  PROVE  \E p \in S : \A q \in S : Len(p) <= Len(q)
<1> DEFINE T == {Len(q) : q \in S}
<1>1. \A q \in S : Len(q) \in Nat
  BY DEF Paths
<1>2. T \subseteq Nat /\ T # {}
  BY <1>1
<1>3. PICK m \in T : \A n \in T : m <= n
  BY <1>2, Least
<1>4. PICK p \in S : Len(p) = m
  BY <1>3
<1>5. \A q \in S : Len(q) \in T
  OBVIOUS
<1> QED
  BY <1>3, <1>4, <1>5

rootPath == <<Root>>

(* A tree of components, each with all that encloses it.                   *)
Shaped(t) ==
  /\ rootPath \in DOMAIN t
  /\ \A p \in DOMAIN t \ {rootPath} : Front(p) \in DOMAIN t /\ \E k \in Keys : p = PathOf(k)

LEMMA BaseShaped == ASSUME Base PROVE Shaped(tree)
BY DEF Base, TypeOK, Registered, Shaped, rootPath

LEMMA RootPath == rootPath \in Paths /\ Len(rootPath) = 1
BY DEF rootPath, Paths

(* What is above a component: what encloses it and what is above that.     *)
LEMMA KeyPath ==
  ASSUME NEW k \in Keys, NEW p, p = PathOf(k)
  PROVE  /\ p \in Paths /\ p # rootPath /\ Last(p) = k /\ Front(p) \in Paths
         /\ Len(p) = Len(Front(p)) + 1 /\ Len(Front(p)) >= 1
         /\ \A i \in 1 .. Len(Front(p)) : Front(p)[i] = p[i]
<1> DEFINE s == PathOf(Parent[k])
<1>1. /\ p \in Paths /\ Last(p) = k /\ p # rootPath /\ s \in Paths /\ Front(p) = s
      /\ AtOrBelow(s, p) /\ ~AtOrBelow(p, s) /\ ~AtOrBelow(p, rootPath)
  BY PathFacts DEF rootPath
<1>2. p = Append(s, k) /\ k \in Keys \cup {Root}
  BY PathRecursion
<1> HIDE DEF s
<1>3. Len(p) = Len(s) + 1 /\ \A i \in 1 .. Len(s) : s[i] = p[i]
  BY <1>1, <1>2 DEF Paths
<1>4. Len(s) \in Nat /\ Len(s) # 0
  <2>1. Len(s) \in Nat
    BY <1>1 DEF Paths
  <2>2. ASSUME Len(s) = 0 PROVE FALSE
    <3>3. PICK j \in Keys \cup {Root} : s = PathOf(j)
      BY PathFacts DEF s
    <3>4. CASE j = Root
      <4>1. s = rootPath
        BY <3>3, <3>4, PathRecursion DEF rootPath
      <4> QED
        BY <4>1, <2>2, RootPath
    <3>5. CASE j \in Keys
      <4>1. s = Append(PathOf(Parent[j]), j) /\ PathOf(Parent[j]) \in Paths
        BY <3>3, <3>5, PathRecursion, PathFacts
      <4>2. Len(s) # 0
        BY <4>1, <3>5 DEF Paths
      <4> QED
        BY <4>2, <2>2
    <3> QED
      BY <3>3, <3>4, <3>5
  <2> QED
    BY <2>1, <2>2
<1> QED
  BY <1>1, <1>3, <1>4

LEMMA ShapedFacts ==
  ASSUME NEW t, Shaped(t), NEW p \in DOMAIN t
  PROVE  /\ p \in Paths /\ Len(p) \in Nat /\ Len(p) >= 1
         /\ p # rootPath => /\ Front(p) \in DOMAIN t /\ Front(p) \in Paths /\ Last(p) \in Keys
                            /\ p = PathOf(Last(p))
                            /\ Len(p) = Len(Front(p)) + 1 /\ Len(Front(p)) \in Nat
<1>1. CASE p = rootPath
  BY <1>1, RootPath
<1>2. CASE p # rootPath
  <2>1. PICK k \in Keys : p = PathOf(k)
    BY <1>2 DEF Shaped
  <2>2. /\ p \in Paths /\ p # rootPath /\ Last(p) = k /\ Front(p) \in Paths
        /\ Len(p) = Len(Front(p)) + 1 /\ Len(Front(p)) >= 1
    BY <2>1, KeyPath
  <2>3. Len(p) \in Nat /\ Len(Front(p)) \in Nat
    BY <2>2 DEF Paths
  <2> QED
    BY <1>2, <2>1, <2>2, <2>3 DEF Shaped
<1> QED
  BY <1>1, <1>2

LEMMA BelowFront ==
  ASSUME NEW k \in Keys, NEW p, p = PathOf(k), NEW q \in Paths
  PROVE  Below(q, p) <=> q = Front(p) \/ Below(q, Front(p))
<1> DEFINE s == Front(p)
<1>1. /\ p \in Paths /\ s \in Paths /\ Len(p) = Len(s) + 1 /\ \A i \in 1 .. Len(s) : s[i] = p[i]
  BY KeyPath
<1>2. Len(p) \in Nat /\ Len(s) \in Nat /\ Len(q) \in Nat
  BY <1>1 DEF Paths
<1>3. /\ AtOrBelow(q, p) <=> Len(q) <= Len(p) /\ \A i \in 1 .. Len(q) : q[i] = p[i]
      /\ AtOrBelow(q, s) <=> Len(q) <= Len(s) /\ \A i \in 1 .. Len(q) : q[i] = s[i]
  BY <1>1, PathPrefix
<1> HIDE DEF s
<1>4. ASSUME AtOrBelow(q, p), q # p PROVE AtOrBelow(q, s)
  <2>1. Len(q) # Len(p)
    <3>1. ASSUME Len(q) = Len(p) PROVE q = p
      BY <1>1, <1>3, <1>4, <3>1, SameElements DEF Paths
    <3> QED
      BY <3>1, <1>4
  <2> QED
    BY <2>1, <1>1, <1>2, <1>3, <1>4
<1>5. ASSUME AtOrBelow(q, s) PROVE AtOrBelow(q, p) /\ q # p
  <2>1. Len(q) <= Len(p) /\ Len(q) # Len(p)
    BY <1>1, <1>2, <1>3, <1>5
  <2> QED
    BY <2>1, <1>1, <1>2, <1>3, <1>5
<1>6. AtOrBelow(s, s)
  BY <1>1, PrefixReflexive
<1> QED
  BY <1>4, <1>5, <1>6 DEF Below, AtOrBelow, IsStrictPrefix, s

LEMMA BelowShorter ==
  ASSUME NEW p \in Paths, NEW q \in Paths, Below(q, p)
  PROVE  AtOrBelow(q, p) /\ Len(q) < Len(p)
<1>1. AtOrBelow(q, p) /\ q # p
  BY DEF Below, AtOrBelow, IsStrictPrefix
<1>2. Len(q) <= Len(p) /\ \A i \in 1 .. Len(q) : q[i] = p[i]
  BY <1>1, PathPrefix
<1>3. Len(q) # Len(p)
  BY <1>1, <1>2, SameElements DEF Paths
<1>4. Len(q) \in Nat /\ Len(p) \in Nat
  BY DEF Paths
<1> QED
  BY <1>1, <1>2, <1>3, <1>4

(* The worker holds what is above a component it holds.                    *)
LEMMA Ancestors ==
  ASSUME NEW t, Shaped(t), NEW k \in Keys, NEW p, p = PathOf(k), NEW q \in DOMAIN t, AtOrBelow(p, q)
  PROVE  p \in DOMAIN t
<1> DEFINE S == {x \in DOMAIN t : AtOrBelow(p, x)}
<1> SUFFICES ASSUME p \notin DOMAIN t PROVE FALSE
  OBVIOUS
<1>1. p \in Paths /\ p # rootPath /\ ~AtOrBelow(p, rootPath)
  BY KeyPath, PathFacts DEF rootPath
<1>2. S \subseteq Paths /\ S # {}
  BY ShapedFacts
<1>3. PICK x \in S : \A y \in S : Len(x) <= Len(y)
  BY <1>2, Shortest
<1>4. x \in DOMAIN t /\ AtOrBelow(p, x) /\ x # rootPath /\ x # p
  BY <1>1
<1>5. /\ Front(x) \in DOMAIN t /\ Len(x) = Len(Front(x)) + 1 /\ Len(Front(x)) \in Nat
      /\ Last(x) \in Keys /\ x = PathOf(Last(x))
  BY <1>4, ShapedFacts
<1>6. p = Front(x) \/ Below(p, Front(x))
  BY <1>1, <1>4, <1>5, BelowFront DEF Below, AtOrBelow, IsStrictPrefix
<1>7. Front(x) \in S
  BY <1>5, <1>6 DEF Below, AtOrBelow, IsStrictPrefix
<1> QED
  BY <1>3, <1>5, <1>7

-----------------------------------------------------------------------------
(* Contexts: what a component keeps and what it is handed.                 *)

Provided == UNION {Provides[k] : k \in Keys}

LEMMA CtxFacts ==
  ASSUME NEW f
  PROVE  f \in Ctx <=> /\ f = [x \in DOMAIN f |-> f[x]] /\ DOMAIN f \subseteq Provided
                       /\ \A x \in DOMAIN f : f[x] \in Values
<1>1. f \in Ctx <=> \E c \in SUBSET Provided : f \in [c -> Values]
  BY DEF Ctx, Provided
<1> QED
  BY <1>1

LEMMA SameCtx ==
  ASSUME NEW f \in Ctx, NEW g \in Ctx, DOMAIN f = DOMAIN g, \A x \in DOMAIN f : f[x] = g[x]
  PROVE  f = g
<1>1. f = [x \in DOMAIN f |-> f[x]] /\ g = [x \in DOMAIN g |-> g[x]]
  BY CtxFacts
<1> QED
  BY <1>1

LEMMA NoCtxFacts == NoCtx \in Ctx /\ DOMAIN NoCtx = {}
BY DEF NoCtx, Ctx

LEMMA OverFacts ==
  ASSUME NEW f \in Ctx, NEW g \in Ctx
  PROVE  /\ Over(f, g) \in Ctx /\ DOMAIN Over(f, g) = DOMAIN f \cup DOMAIN g
         /\ \A x \in DOMAIN f : Over(f, g)[x] = f[x]
         /\ \A x \in DOMAIN g \ DOMAIN f : Over(f, g)[x] = g[x]
         /\ DOMAIN g \subseteq DOMAIN f => Over(f, g) = f
<1> DEFINE h == Over(f, g)
<1>1. /\ h = [x \in DOMAIN f \cup DOMAIN g |-> IF x \in DOMAIN f THEN f[x] ELSE g[x]]
  BY DEF Over
<1> HIDE DEF h
<1>2. /\ DOMAIN h = DOMAIN f \cup DOMAIN g
      /\ \A x \in DOMAIN f : h[x] = f[x]
      /\ \A x \in DOMAIN g \ DOMAIN f : h[x] = g[x]
      /\ h = [x \in DOMAIN h |-> h[x]]
  BY <1>1
<1>3. /\ DOMAIN f \subseteq Provided /\ DOMAIN g \subseteq Provided
      /\ \A x \in DOMAIN f : f[x] \in Values
      /\ \A x \in DOMAIN g : g[x] \in Values
  BY CtxFacts
<1>4. h \in Ctx
  <2>1. DOMAIN h \subseteq Provided /\ \A x \in DOMAIN h : h[x] \in Values
    BY <1>2, <1>3
  <2> QED
    BY <1>2, <2>1, CtxFacts
<1>5. DOMAIN g \subseteq DOMAIN f => h = f
  BY <1>2, <1>4, SameCtx
<1> QED
  BY <1>2, <1>4, <1>5 DEF h

(* What is true of a component by itself.                                  *)
Alive(n) == n \in Node /\ n.key \in Keys /\ n.state \in Values

LEMMA NodeFacts ==
  ASSUME NEW n \in Node
  PROVE  /\ n.key \in Keys \cup {Root} /\ n.state \in Values \cup {NoValue}
         /\ n.parent \in Ctx /\ n.child \in Ctx /\ n.seen.ctx \in Ctx
         /\ childCtx(n) \in Ctx /\ DOMAIN childCtx(n) = DOMAIN n.child \cup DOMAIN n.parent
         /\ \A x \in DOMAIN n.child : childCtx(n)[x] = n.child[x]
         /\ \A x \in DOMAIN n.parent \ DOMAIN n.child : childCtx(n)[x] = n.parent[x]
<1>1. /\ n.key \in Keys \cup {Root} /\ n.state \in Values \cup {NoValue}
      /\ n.parent \in Ctx /\ n.child \in Ctx /\ n.seen.ctx \in Ctx
  BY DEF Node
<1> QED
  BY <1>1, OverFacts DEF childCtx

LEMMA afterUpdateNode ==
  ASSUME NEW n, Alive(n)
  PROVE  /\ Alive(afterUpdate(n)) /\ afterUpdate(n).key = n.key
         /\ afterUpdate(n).parent = n.parent /\ afterUpdate(n).seen.ctx = n.parent
         /\ DOMAIN n.child \subseteq DOMAIN afterUpdate(n).child
<1> DEFINE own == [x \in Provides[n.key] |-> n.state]
<1> DEFINE c == Over(own, n.child)
<1> DEFINE sn == [state |-> n.state, ctx |-> n.parent]
<1> DEFINE w == afterUpdate(n)
<1>1. /\ n \in Node /\ n.key \in Keys /\ n.state \in Values /\ n.parent \in Ctx /\ n.child \in Ctx
  BY NodeFacts DEF Alive
<1>2. own \in Ctx /\ DOMAIN own = Provides[n.key]
  <2>1. DOMAIN own = Provides[n.key] /\ own = [x \in DOMAIN own |-> own[x]]
    OBVIOUS
  <2>2. \A x \in DOMAIN own : own[x] \in Values
    BY <1>1
  <2>3. Provides[n.key] \subseteq Provided
    BY <1>1 DEF Provided
  <2> HIDE DEF own
  <2> QED
    BY <2>1, <2>2, <2>3, CtxFacts
<1>3. w = [n EXCEPT !.child = c, !.seen = sn]
  BY DEF afterUpdate
<1> HIDE DEF own
<1>4. /\ c \in Ctx /\ DOMAIN c = DOMAIN own \cup DOMAIN n.child
  BY <1>1, <1>2, OverFacts
<1>6. sn \in [state : Values \cup {NoValue}, ctx : Ctx] /\ sn.ctx = n.parent
  BY <1>1
<1> HIDE DEF c, sn, w
<1>7. /\ w \in Node /\ w.key = n.key /\ w.state = n.state /\ w.parent = n.parent
      /\ w.child = c /\ w.seen = sn
  BY <1>1, <1>3, <1>4, <1>6 DEF Node
<1>8. DOMAIN n.child \subseteq DOMAIN w.child
  BY <1>4, <1>7
<1> QED
  BY <1>1, <1>6, <1>7, <1>8 DEF Alive, w

LEMMA updateContextNode ==
  ASSUME NEW n, Alive(n), NEW values \in Ctx
  PROVE  /\ Alive(updateContext(n, values)) /\ updateContext(n, values).key = n.key
         /\ updateContext(n, values).seen.ctx = updateContext(n, values).parent
         /\ DOMAIN n.child \subseteq DOMAIN updateContext(n, values).child
         /\ DOMAIN values \subseteq DOMAIN updateContext(n, values).parent
         /\ DOMAIN n.parent \subseteq DOMAIN updateContext(n, values).parent
         /\ DOMAIN n.parent \subseteq DOMAIN values => updateContext(n, values).parent = values
<1> DEFINE ps == Over(values, n.parent)
<1> DEFINE m == [n EXCEPT !.parent = ps]
<1>1. n \in Node /\ n.parent \in Ctx /\ n.child \in Ctx /\ n.key \in Keys /\ n.state \in Values
  BY NodeFacts DEF Alive
<1>2. /\ ps \in Ctx /\ DOMAIN ps = DOMAIN values \cup DOMAIN n.parent
      /\ DOMAIN n.parent \subseteq DOMAIN values => ps = values
  BY <1>1, OverFacts
<1>3. updateContext(n, values) = afterUpdate(m)
  BY DEF updateContext
<1> HIDE DEF ps
<1>4. m \in Node /\ m.key = n.key /\ m.state = n.state /\ m.parent = ps /\ m.child = n.child
  BY <1>1, <1>2 DEF Node
<1> HIDE DEF m
<1>5. Alive(m)
  BY <1>1, <1>4 DEF Alive
<1> QED
  BY <1>2, <1>3, <1>4, <1>5, afterUpdateNode

LEMMA updateStateNode ==
  ASSUME NEW n \in Node, n.key \in Keys, NEW v \in Values
  PROVE  /\ Alive(updateState(n, v)) /\ updateState(n, v).key = n.key
         /\ updateState(n, v).parent = n.parent /\ updateState(n, v).seen.ctx = n.parent
         /\ DOMAIN n.child \subseteq DOMAIN updateState(n, v).child
<1> DEFINE m == [n EXCEPT !.state = v]
<1>1. m \in Node /\ m.key = n.key /\ m.state = v /\ m.parent = n.parent /\ m.child = n.child
  BY DEF Node
<1>2. updateState(n, v) = afterUpdate(m)
  BY DEF updateState
<1> HIDE DEF m
<1>3. Alive(m)
  BY <1>1 DEF Alive
<1> QED
  BY <1>1, <1>2, <1>3, afterUpdateNode

LEMMA createNode ==
  ASSUME NEW k \in Keys \cup {Root}, NEW ctx \in Ctx
  PROVE  create(k, ctx) \in Node /\ create(k, ctx).key = k /\ create(k, ctx).parent = ctx
         /\ create(k, ctx).child = NoCtx
BY NoCtxFacts DEF create, Node

-----------------------------------------------------------------------------
(* updateChildContexts: each component is handed what its parent has then. *)

LEMMA GivenExists ==
  ASSUME NEW t, Shaped(t), NEW ps, rootPath \notin ps
  PROVE  \E g : g = [q \in DOMAIN t |->
                       childCtx(IF q \in ps THEN updateContext(t[q], g[Front(q)]) ELSE t[q])]
<1> DEFINE D == DOMAIN t
           E(h, q) == childCtx(IF q \in ps THEN updateContext(t[q], h[Front(q)]) ELSE t[q])
           Sol(h, n) == \A q \in D : Len(q) <= n => h[q] = E(h, q)
<1>1. /\ \A q \in D : q \in Paths /\ Len(q) \in Nat /\ Len(q) >= 1
      /\ \A q \in D \cap ps : /\ Front(q) \in D /\ Len(Front(q)) \in Nat
                              /\ Len(q) = Len(Front(q)) + 1
  BY ShapedFacts
<1>2. ASSUME NEW h, NEW g, NEW q \in D \cap ps, h[Front(q)] = g[Front(q)]
      PROVE  E(h, q) = E(g, q)
  BY <1>2
<1>3. ASSUME NEW h, NEW g, NEW q \in D, q \notin ps
      PROVE  E(h, q) = E(g, q)
  BY <1>3
<1> HIDE DEF D, E
<1>4. \A n \in Nat : \E h : Sol(h, n)
  <2> DEFINE T == {n \in Nat : ~ \E h : Sol(h, n)}
  <2> SUFFICES ASSUME T # {} PROVE FALSE
    OBVIOUS
  <2>1. PICK n \in T : \A m \in T : n <= m
    BY Least
  <2>2. n \in Nat /\ ~ \E h : Sol(h, n)
    OBVIOUS
  <2>3. n # 0
    <3>1. \A q \in D : ~(Len(q) <= 0)
      BY <1>1
    <3>2. Sol(t, 0)
      BY <3>1
    <3> QED
      BY <2>2, <3>2
  <2>4. n - 1 \in Nat /\ n - 1 \notin T
    <3> HIDE DEF T
    <3> QED
      BY <2>1, <2>2, <2>3
  <2>5. PICK h : Sol(h, n - 1)
    BY <2>4
  <2> DEFINE g == [q \in D |-> E(h, q)]
  <2>6. ASSUME NEW q \in D, Len(q) <= n PROVE g[q] = E(g, q)
    <3>1. g[q] = E(h, q)
      OBVIOUS
    <3>2. CASE q \in ps
      <4>1. Front(q) \in D /\ Len(Front(q)) <= n - 1
        <5>1. Front(q) \in D /\ Len(q) = Len(Front(q)) + 1 /\ Len(Front(q)) \in Nat
          BY <1>1, <3>2
        <5> QED
          BY <5>1, <2>2, <2>6
      <4>2. h[Front(q)] = E(h, Front(q))
        BY <2>5, <4>1
      <4>3. g[Front(q)] = h[Front(q)]
        BY <4>1, <4>2
      <4> HIDE DEF g
      <4> QED
        BY <1>2, <3>1, <3>2, <4>3
    <3>3. CASE q \notin ps
      BY <1>3, <3>1, <3>3
    <3> QED
      BY <3>2, <3>3
  <2> HIDE DEF g
  <2>7. Sol(g, n)
    BY <2>6
  <2> QED
    BY <2>2, <2>7
<1>5. ASSUME NEW h, NEW g, NEW m \in Nat, NEW n \in Nat, Sol(h, m), Sol(g, n),
             NEW p \in D, Len(p) <= m, Len(p) <= n
      PROVE  h[p] = g[p]
  <2> DEFINE S == {q \in D : Len(q) <= m /\ Len(q) <= n /\ h[q] # g[q]}
  <2> SUFFICES ASSUME S # {} PROVE FALSE
    BY <1>5
  <2>1. S \subseteq Paths
    BY <1>1
  <2>2. PICK q \in S : \A r \in S : Len(q) <= Len(r)
    BY <2>1, Shortest
  <2>3. q \in D /\ Len(q) <= m /\ Len(q) <= n /\ h[q] # g[q] /\ Len(q) \in Nat
    BY <1>1
  <2>4. h[q] = E(h, q) /\ g[q] = E(g, q)
    BY <1>5, <2>3
  <2>5. q \in ps
    BY <1>3, <2>3, <2>4
  <2>6. h[Front(q)] # g[Front(q)]
    BY <1>2, <2>3, <2>4, <2>5
  <2>7. Front(q) \in D /\ Len(q) = Len(Front(q)) + 1 /\ Len(Front(q)) \in Nat
    BY <1>1, <2>3, <2>5
  <2>8. Len(Front(q)) <= m /\ Len(Front(q)) <= n
    BY <2>3, <2>7
  <2>9. Front(q) \in S
    BY <2>6, <2>7, <2>8
  <2> HIDE DEF S
  <2>10. Len(q) <= Len(Front(q))
    BY <2>2, <2>9
  <2> QED
    BY <2>7, <2>10
<1> DEFINE At(n) == CHOOSE h : Sol(h, n)
<1>6. \A n \in Nat : Sol(At(n), n)
  BY <1>4
<1> HIDE DEF At
<1> DEFINE H == [q \in D |-> At(Len(q))[q]]
<1>7. ASSUME NEW q \in D PROVE H[q] = E(H, q)
  <2>1. Len(q) \in Nat /\ H[q] = At(Len(q))[q] /\ Sol(At(Len(q)), Len(q))
    BY <1>1, <1>6
  <2>2. Len(q) <= Len(q)
    BY <2>1
  <2>3. H[q] = E(At(Len(q)), q)
    BY <2>1, <2>2
  <2>4. CASE q \in ps
    <3>1. Front(q) \in D /\ Len(q) = Len(Front(q)) + 1 /\ Len(Front(q)) \in Nat
      BY <1>1, <2>4
    <3>2. Len(Front(q)) <= Len(q) /\ Len(Front(q)) <= Len(Front(q))
      BY <2>1, <3>1
    <3>3. Sol(At(Len(Front(q))), Len(Front(q)))
      BY <1>6, <3>1
    <3> HIDE DEF Sol
    <3>4. At(Len(q))[Front(q)] = At(Len(Front(q)))[Front(q)]
      BY <1>5, <2>1, <3>1, <3>2, <3>3
    <3>5. H[Front(q)] = At(Len(q))[Front(q)]
      BY <3>1, <3>4
    <3> HIDE DEF H
    <3> QED
      BY <1>2, <2>3, <2>4, <3>5
  <2>5. CASE q \notin ps
    BY <1>3, <2>3, <2>5
  <2> QED
    BY <2>4, <2>5
<1>8. H = [q \in D |-> H[q]]
  OBVIOUS
<1> HIDE DEF H
<1>9. H = [q \in D |-> E(H, q)]
  BY <1>7, <1>8
<1>10. H = [q \in DOMAIN t |-> childCtx(IF q \in ps THEN updateContext(t[q], H[Front(q)]) ELSE t[q])]
  BY <1>9 DEF D, E
<1> QED
  BY <1>10, Zenon

LEMMA ChildContexts ==
  ASSUME NEW t, Shaped(t), NEW p, NEW ps, rootPath \notin ps, NEW u, u = updateChildContexts(t, p, ps)
  PROVE  /\ DOMAIN u = DOMAIN t
         /\ \A q \in DOMAIN t \cap ps : u[q] = updateContext(t[q], childCtx(u[Front(q)]))
         /\ \A q \in DOMAIN t \ ps : u[q] = t[q]
<1> DEFINE G(g) == g = [q \in DOMAIN t |->
                       childCtx(IF q \in ps THEN updateContext(t[q], g[Front(q)]) ELSE t[q])]
<1> DEFINE given == CHOOSE g : G(g)
<1>1. G(given)
  BY GivenExists
<1>2. u = [q \in DOMAIN t |-> IF q \in ps THEN updateContext(t[q], given[Front(q)]) ELSE t[q]]
  BY DEF updateChildContexts
<1> HIDE DEF given
<1>3. \A q \in DOMAIN t : given[q] = childCtx(u[q])
  <2> SUFFICES ASSUME NEW q \in DOMAIN t PROVE given[q] = childCtx(u[q])
    OBVIOUS
  <2>1. given[q] = childCtx(IF q \in ps THEN updateContext(t[q], given[Front(q)]) ELSE t[q])
    BY <1>1
  <2>2. u[q] = IF q \in ps THEN updateContext(t[q], given[Front(q)]) ELSE t[q]
    BY <1>2
  <2> QED
    BY <2>1, <2>2
<1>4. \A q \in DOMAIN t \cap ps : Front(q) \in DOMAIN t
  BY ShapedFacts
<1> HIDE DEF G
<1> QED
  BY <1>2, <1>3, <1>4

-----------------------------------------------------------------------------
(* The invariant of the contexts.                                          *)

(* A component has seen the context it has, and what it was ever handed    *)
(* its parent still has a value for.                                       *)
NodeOK(t, p) ==
  /\ Alive(t[p]) /\ t[p].key = Last(p) /\ t[p].seen.ctx = t[p].parent
  /\ DOMAIN t[p].parent \subseteq DOMAIN childCtx(t[Front(p)])

NodesOK(t) ==
  /\ Shaped(t)
  /\ t[rootPath] = create(Root, NoCtx)
  /\ \A p \in DOMAIN t \ {rootPath} : NodeOK(t, p)

(* A component has what its parent hands down, other than what that has    *)
(* set without trigger, or an update of something above it that announces  *)
(* values was cut short.                                                   *)
Silent(n, x) == x \in DOMAIN n.child /\ x \notin Announces[n.key]
Handed(t, p) ==
  LET above == t[Front(p)]
  IN \A x \in DOMAIN childCtx(above) :
       Silent(above, x) \/ (x \in DOMAIN t[p].parent /\ t[p].parent[x] = childCtx(above)[x])
Spoilt(ds, p) == \E d \in ds : Below(d, p) /\ Announces[Last(d)] # {}

CtxOK(t, ds) ==
  /\ NodesOK(t)
  /\ \A d \in ds : \E k \in Keys : d = PathOf(k)
  /\ \A p \in DOMAIN t \ {rootPath} : Handed(t, p) \/ Spoilt(ds, p)

LEMMA NodesAre ==
  ASSUME NEW t, NodesOK(t), NEW p \in DOMAIN t
  PROVE  t[p] \in Node
<1>1. CASE p = rootPath
  BY <1>1, createNode, NoCtxFacts DEF NodesOK
<1>2. CASE p # rootPath
  BY <1>2 DEF NodesOK, NodeOK, Alive
<1> QED
  BY <1>1, <1>2

(* One component is replaced by one that hands down no less.               *)
LEMMA SetOne ==
  ASSUME NEW t, NodesOK(t), NEW p \in DOMAIN t \ {rootPath}, NEW n, Alive(n), n.key = t[p].key,
         n.parent = t[p].parent, n.seen.ctx = n.parent,
         DOMAIN t[p].child \subseteq DOMAIN n.child,
         NEW w, w = [t EXCEPT ![p] = n]
  PROVE  /\ NodesOK(w) /\ DOMAIN w = DOMAIN t /\ w[p] = n
         /\ \A q \in DOMAIN t \ {p} : w[q] = t[q]
<1>1. /\ DOMAIN w = DOMAIN t /\ w[p] = n
      /\ \A q \in DOMAIN t \ {p} : w[q] = t[q]
  OBVIOUS
<1>2. Shaped(w)
  BY <1>1 DEF Shaped, NodesOK
<1>3. w[rootPath] = create(Root, NoCtx)
  BY <1>1 DEF NodesOK, Shaped
<1>4. DOMAIN childCtx(t[p]) \subseteq DOMAIN childCtx(n)
  <2>1. t[p] \in Node /\ n \in Node
    BY NodesAre DEF Alive
  <2>2. /\ DOMAIN childCtx(t[p]) = DOMAIN t[p].child \cup DOMAIN t[p].parent
        /\ DOMAIN childCtx(n) = DOMAIN n.child \cup DOMAIN n.parent
    BY <2>1, NodeFacts
  <2> QED
    BY <2>2
<1>5. ASSUME NEW q \in DOMAIN t \ {rootPath} PROVE NodeOK(w, q)
  <2>1. Front(q) \in DOMAIN t /\ NodeOK(t, q)
    BY ShapedFacts DEF NodesOK
  <2>2. DOMAIN childCtx(t[Front(q)]) \subseteq DOMAIN childCtx(w[Front(q)])
    BY <1>1, <1>4, <2>1
  <2>3. CASE q = p
    BY <1>1, <2>1, <2>2, <2>3 DEF NodeOK
  <2>4. CASE q # p
    <3>1. w[q] = t[q]
      BY <1>1, <2>4
    <3> QED
      BY <2>1, <2>2, <3>1 DEF NodeOK
  <2> QED
    BY <2>3, <2>4
<1> QED
  BY <1>1, <1>2, <1>3, <1>5 DEF NodesOK

(* Contexts are handed down to the components of ps.                       *)
LEMMA Cascade ==
  ASSUME NEW t, NodesOK(t), NEW p, NEW ps, ps \subseteq DOMAIN t \ {rootPath},
         NEW u, u = updateChildContexts(t, p, ps)
  PROVE  /\ NodesOK(u) /\ DOMAIN u = DOMAIN t
         /\ \A q \in ps : Handed(u, q)
         /\ \A q \in DOMAIN t \ ps : u[q] = t[q]
<1> DEFINE D == DOMAIN t
           Good(q) == /\ u[q] \in Node
                      /\ DOMAIN childCtx(t[q]) \subseteq DOMAIN childCtx(u[q])
                      /\ q # rootPath => NodeOK(u, q)
                      /\ q \in ps => Handed(u, q)
<1>1. /\ DOMAIN u = DOMAIN t
      /\ \A q \in ps : u[q] = updateContext(t[q], childCtx(u[Front(q)]))
      /\ \A q \in DOMAIN t \ ps : u[q] = t[q]
  BY ChildContexts DEF NodesOK
<1>3. t[rootPath] = create(Root, NoCtx) /\ rootPath \in D
  BY DEF NodesOK, Shaped
<1>4. ASSUME NEW q \in D, q = rootPath \/ Good(Front(q)) PROVE Good(q)
  <2>1. t[q] \in Node
    BY NodesAre
  <2>2. CASE q = rootPath
    <3>1. u[q] = t[q]
      BY <1>1, <2>2
    <3> QED
      BY <2>1, <2>2, <3>1
  <2>3. CASE q # rootPath /\ q \notin ps
    <3>1. u[q] = t[q] /\ NodeOK(t, q) /\ Good(Front(q))
      BY <1>1, <1>4, <2>3 DEF NodesOK
    <3>2. NodeOK(u, q)
      BY <3>1 DEF NodeOK
    <3> QED
      BY <2>1, <2>3, <3>1, <3>2
  <2>4. CASE q \in ps
    <3> DEFINE c == childCtx(u[Front(q)])
    <3>1. u[q] = updateContext(t[q], c) /\ NodeOK(t, q) /\ Good(Front(q)) /\ q # rootPath
      BY <1>1, <1>4, <2>4 DEF NodesOK
    <3>2. c \in Ctx /\ DOMAIN t[q].parent \subseteq DOMAIN c /\ Alive(t[q])
      BY <3>1, NodeFacts DEF NodeOK
    <3> HIDE DEF c
    <3>3. /\ Alive(u[q]) /\ u[q].key = t[q].key /\ u[q].seen.ctx = u[q].parent /\ u[q].parent = c
          /\ DOMAIN t[q].child \subseteq DOMAIN u[q].child
          /\ DOMAIN t[q].parent \subseteq DOMAIN u[q].parent
      BY <3>1, <3>2, updateContextNode
    <3>4. u[q] \in Node
      BY <3>3 DEF Alive
    <3>5. DOMAIN childCtx(t[q]) \subseteq DOMAIN childCtx(u[q])
      <4>1. /\ DOMAIN childCtx(t[q]) = DOMAIN t[q].child \cup DOMAIN t[q].parent
            /\ DOMAIN childCtx(u[q]) = DOMAIN u[q].child \cup DOMAIN u[q].parent
        BY <2>1, <3>4, NodeFacts
      <4> QED
        BY <3>3, <4>1
    <3>6. Handed(u, q)
      BY <3>3 DEF Handed, c
    <3>7. NodeOK(u, q)
      BY <3>1, <3>3 DEF NodeOK, c
    <3> QED
      BY <3>4, <3>5, <3>6, <3>7
  <2> QED
    BY <2>2, <2>3, <2>4
<1> HIDE DEF Good
<1>5. \A q \in D : Good(q)
  <2> DEFINE S == {q \in D : ~Good(q)}
  <2> SUFFICES ASSUME S # {} PROVE FALSE
    OBVIOUS
  <2>1. S \subseteq Paths
    BY ShapedFacts DEF NodesOK
  <2>2. PICK q \in S : \A r \in S : Len(q) <= Len(r)
    BY <2>1, Shortest
  <2>3. q \in D /\ q # rootPath /\ ~Good(Front(q))
    BY <1>4
  <2>4. Front(q) \in D /\ Len(q) = Len(Front(q)) + 1 /\ Len(Front(q)) \in Nat
    BY <2>3, ShapedFacts DEF NodesOK
  <2>5. Front(q) \in S
    BY <2>3, <2>4
  <2> HIDE DEF S
  <2>6. Len(q) <= Len(Front(q))
    BY <2>2, <2>5
  <2> QED
    BY <2>4, <2>6
<1>6. Shaped(u)
  BY <1>1 DEF Shaped, NodesOK
<1>7. u[rootPath] = create(Root, NoCtx)
  BY <1>1, <1>3
<1>8. \A q \in DOMAIN u \ {rootPath} : NodeOK(u, q)
  BY <1>1, <1>5 DEF Good
<1>9. \A q \in ps : Handed(u, q)
  BY <1>5 DEF Good
<1> QED
  BY <1>1, <1>6, <1>7, <1>8, <1>9 DEF NodesOK

(* A component takes a new state, and hands it down as far as it gets.     *)
LEMMA UpdateHeld ==
  ASSUME NEW t, NodesOK(t), NEW k \in Keys, NEW p, p = PathOf(k), p \in DOMAIN t,
         NEW v \in Values, NEW ps, ps \subseteq Descendants(t, p),
         NEW w, w = applyUpdate(t, p, k, v, ps)
  PROVE  /\ NodesOK(w) /\ DOMAIN w = DOMAIN t
         /\ \A q \in DOMAIN t \ {rootPath} :
               Handed(t, q) /\ (~Below(p, q) \/ Announces[k] = {}) => Handed(w, q)
         /\ Announces[k] # {} => \A q \in ps : Handed(w, q)
<1> DEFINE n == updateState(t[p], v)
           u == [t EXCEPT ![p] = n]
<1>1. p # rootPath /\ p \in Paths /\ Last(p) = k /\ ~AtOrBelow(p, rootPath)
  BY KeyPath, PathFacts DEF rootPath
<1>2. NodeOK(t, p) /\ t[p] \in Node /\ t[p].key = k
  BY <1>1, NodesAre DEF NodesOK, NodeOK
<1>3. /\ Alive(n) /\ n.key = k /\ n.parent = t[p].parent /\ n.seen.ctx = n.parent
      /\ DOMAIN t[p].child \subseteq DOMAIN n.child
  BY <1>2, updateStateNode
<1>4. w = IF Announces[k] = {} THEN u ELSE updateChildContexts(u, p, ps)
  BY DEF applyUpdate
<1> HIDE DEF n
<1>5. /\ NodesOK(u) /\ DOMAIN u = DOMAIN t /\ u[p] = n
      /\ \A q \in DOMAIN t \ {p} : u[q] = t[q]
  BY <1>1, <1>2, <1>3, SetOne
<1> HIDE DEF u
<1>6. \A q \in DOMAIN t \ {rootPath} : Front(q) \in DOMAIN t
  BY ShapedFacts DEF NodesOK
<1>7. \A q \in DOMAIN t : u[q].parent = t[q].parent
  BY <1>3, <1>5
<1>8. ASSUME Announces[k] = {}, NEW q \in DOMAIN t \ {rootPath}, Handed(t, q) PROVE Handed(u, q)
  <2>1. Front(q) \in DOMAIN t /\ q \in DOMAIN t /\ u[q].parent = t[q].parent
    BY <1>6, <1>7
  <2>2. CASE Front(q) # p
    <3>1. u[Front(q)] = t[Front(q)]
      BY <1>5, <2>1, <2>2
    <3> QED
      BY <1>8, <2>1, <3>1 DEF Handed
  <2>3. CASE Front(q) = p
    <3> SUFFICES ASSUME NEW x \in DOMAIN childCtx(n), ~Silent(n, x)
                 PROVE  x \in DOMAIN t[q].parent /\ t[q].parent[x] = childCtx(n)[x]
      BY <1>5, <2>1, <2>3 DEF Handed
    <3>1. /\ DOMAIN childCtx(n) = DOMAIN n.child \cup DOMAIN n.parent
          /\ \A y \in DOMAIN n.parent \ DOMAIN n.child : childCtx(n)[y] = n.parent[y]
      BY <1>3, NodeFacts DEF Alive
    <3>2. /\ DOMAIN childCtx(t[p]) = DOMAIN t[p].child \cup DOMAIN t[p].parent
          /\ \A y \in DOMAIN t[p].parent \ DOMAIN t[p].child : childCtx(t[p])[y] = t[p].parent[y]
      BY <1>2, NodeFacts
    <3>3. x \notin DOMAIN n.child
      BY <1>3, <1>8 DEF Silent
    <3>4. x \in DOMAIN t[p].parent \ DOMAIN t[p].child /\ childCtx(n)[x] = t[p].parent[x]
      BY <1>3, <3>1, <3>3
    <3>5. ~Silent(t[p], x) /\ x \in DOMAIN childCtx(t[p]) /\ childCtx(t[p])[x] = t[p].parent[x]
      BY <3>2, <3>4 DEF Silent
    <3> QED
      BY <1>8, <2>3, <3>4, <3>5 DEF Handed
  <2> QED
    BY <2>2, <2>3
<1>9. CASE Announces[k] = {}
  BY <1>4, <1>5, <1>8, <1>9
<1>10. CASE Announces[k] # {}
  <2>1. ps \subseteq DOMAIN u \ {rootPath}
    BY <1>1, <1>5 DEF Descendants, Below, AtOrBelow, IsStrictPrefix
  <2>2. /\ NodesOK(w) /\ DOMAIN w = DOMAIN u /\ \A q \in ps : Handed(w, q)
        /\ \A q \in DOMAIN u \ ps : w[q] = u[q]
    BY <1>4, <1>5, <1>10, <2>1, Cascade
  <2>3. ASSUME NEW q \in DOMAIN t \ {rootPath}, Handed(t, q), ~Below(p, q)
        PROVE  Handed(w, q)
    <3>1. /\ Front(q) \in DOMAIN t /\ Last(q) \in Keys /\ q = PathOf(Last(q))
      BY ShapedFacts DEF NodesOK
    <3>2. p # Front(q) /\ ~Below(p, Front(q))
      BY <1>1, <2>3, <3>1, BelowFront
    <3>3. q \notin ps /\ Front(q) \notin ps
      BY <2>3, <3>2 DEF Descendants
    <3>4. w[q] = u[q] /\ w[Front(q)] = t[Front(q)]
      BY <1>5, <2>2, <3>1, <3>2, <3>3
    <3> QED
      BY <1>7, <2>3, <3>4 DEF Handed
  <2> QED
    BY <1>5, <1>10, <2>2, <2>3
<1> QED
  BY <1>9, <1>10

(* A component is created.                                                 *)
LEMMA UpdateNew ==
  ASSUME NEW t, NodesOK(t), NEW k \in Keys, NEW p, p = PathOf(k), p \notin DOMAIN t,
         Front(p) \in DOMAIN t, NEW v \in Values, NEW ps,
         NEW w, w = applyUpdate(t, p, k, v, ps)
  PROVE  /\ NodesOK(w) /\ DOMAIN w = DOMAIN t \cup {p} /\ Handed(w, p)
         /\ \A q \in DOMAIN t \ {rootPath} : Handed(t, q) => Handed(w, q)
<1> DEFINE c == childCtx(t[Front(p)])
           n == updateState(create(k, c), v)
<1>1. p # rootPath /\ p \in Paths /\ Last(p) = k /\ Front(p) # p
  <2>1. /\ p # rootPath /\ p \in Paths /\ Last(p) = k
    BY KeyPath
  <2> QED
    BY <2>1
<1>2. t[Front(p)] \in Node /\ c \in Ctx
  BY NodesAre, NodeFacts
<1>3. w = [q \in DOMAIN t \cup {p} |-> IF q = p THEN n ELSE t[q]]
  BY DEF applyUpdate
<1>4. Alive(n) /\ n.key = k /\ n.parent = c /\ n.seen.ctx = n.parent
  <2>1. create(k, c) \in Node /\ create(k, c).key = k /\ create(k, c).parent = c
    BY <1>2, createNode
  <2> QED
    BY <2>1, updateStateNode
<1> HIDE DEF n
<1>5. /\ DOMAIN w = DOMAIN t \cup {p} /\ w[p] = n
      /\ \A q \in DOMAIN t : w[q] = t[q]
  BY <1>3
<1>6. NodeOK(w, p) /\ Handed(w, p)
  BY <1>1, <1>4, <1>5 DEF NodeOK, Handed
<1>7. Shaped(w)
  BY <1>5 DEF Shaped, NodesOK
<1>8. w[rootPath] = create(Root, NoCtx)
  BY <1>5 DEF NodesOK, Shaped
<1>9. ASSUME NEW q \in DOMAIN t \ {rootPath}
      PROVE  NodeOK(w, q) /\ (Handed(t, q) => Handed(w, q))
  <2>1. w[q] = t[q] /\ w[Front(q)] = t[Front(q)]
    BY <1>5, ShapedFacts DEF NodesOK
  <2> QED
    BY <2>1 DEF NodesOK, NodeOK, Handed
<1> QED
  BY <1>5, <1>6, <1>7, <1>8, <1>9 DEF NodesOK

-----------------------------------------------------------------------------
(* Contexts is an invariant.                                               *)

Contexts == CtxOK(tree, dirty)

LEMMA InitContexts == ASSUME Init PROVE Contexts
<1>1. tree = [p \in {rootPath} |-> create(Root, NoCtx)] /\ dirty = {}
  BY DEF Init, rootPath
<1> QED
  BY <1>1 DEF Contexts, CtxOK, NodesOK, Shaped

LEMMA UpdateContexts == ASSUME Base, Contexts, HandleUpdate PROVE Contexts'
<1> DEFINE msg == Head(toWorker)
           k == msg.key
           v == msg.state
           p == PathOf(k)
<1>1. k \in Keys /\ v \in Values
  BY UpdateFacts
<1>2. msg.path = p
  <2>1. toWorker # <<>> /\ toWorker \in Seq(Message)
    BY DEF HandleUpdate, Base, TypeOK
  <2>2. Head(toWorker) = toWorker[1] /\ 1 \in DOMAIN toWorker
    BY <2>1
  <2> QED
    BY <2>2 DEF Base, Registered
<1>3. \/ /\ Front(p) \in DOMAIN tree
         /\ tree' = applyUpdate(tree, p, k, v, Descendants(tree, p))
         /\ dirty' = dirty \ ({p} \cup IF Announces[k] = {} THEN {} ELSE Descendants(tree, p))
      \/ tree' = tree /\ (dirty' = dirty \cup {p} \/ dirty' = dirty)
  BY <1>2 DEF HandleUpdate, Reachable
<1> HIDE DEF k, v, msg
<1>4. NodesOK(tree) /\ p \in Paths /\ Last(p) = k
  BY <1>1, KeyPath DEF Contexts, CtxOK
<1>5. CASE tree' = tree /\ (dirty' = dirty \cup {p} \/ dirty' = dirty)
  <2>1. \A d \in dirty' : \E j \in Keys : d = PathOf(j)
    BY <1>1, <1>5 DEF Contexts, CtxOK
  <2>2. \A q : Spoilt(dirty, q) => Spoilt(dirty', q)
    BY <1>5 DEF Spoilt
  <2> QED
    BY <1>5, <2>1, <2>2 DEF Contexts, CtxOK
<1>6. CASE /\ Front(p) \in DOMAIN tree
           /\ tree' = applyUpdate(tree, p, k, v, Descendants(tree, p))
           /\ dirty' = dirty \ ({p} \cup IF Announces[k] = {} THEN {} ELSE Descendants(tree, p))
  <2>1. \A d \in dirty' : \E j \in Keys : d = PathOf(j)
    BY <1>6 DEF Contexts, CtxOK
  <2>2. ASSUME NEW q \in DOMAIN tree \ {rootPath}, Spoilt(dirty, q), ~Below(p, q) \/ Announces[k] = {}
        PROVE  Spoilt(dirty', q)
    <3>1. PICK d \in dirty : Below(d, q) /\ Announces[Last(d)] # {}
      BY <2>2 DEF Spoilt
    <3>2. d \in Paths /\ q \in Paths
      BY <1>4, KeyPath, ShapedFacts DEF Contexts, CtxOK, NodesOK
    <3>3. CASE Announces[k] = {}
      <4>1. d # p
        BY <1>4, <3>1, <3>3
      <4> QED
        BY <1>6, <3>1, <3>3, <4>1 DEF Spoilt
    <3>4. CASE ~Below(p, q)
      <4>1. d # p
        BY <3>1, <3>4
      <4>2. d \notin Descendants(tree, p)
        <5> SUFFICES ASSUME Below(p, d) PROVE FALSE
          BY DEF Descendants
        <5>1. /\ AtOrBelow(p, d) /\ Len(p) < Len(d)
              /\ AtOrBelow(d, q) /\ Len(d) < Len(q)
          BY <1>4, <3>1, <3>2, BelowShorter
        <5>2. AtOrBelow(p, q)
          BY <1>4, <3>2, <5>1, PrefixTransitive
        <5>3. p # q
          <6>1. Len(p) \in Nat /\ Len(d) \in Nat /\ Len(q) \in Nat
            BY <1>4, <3>2 DEF Paths
          <6> HIDE DEF p
          <6> QED
            BY <5>1, <6>1
        <5> QED
          BY <3>4, <5>2, <5>3 DEF Below, AtOrBelow, IsStrictPrefix
      <4> QED
        BY <1>6, <3>1, <4>1, <4>2 DEF Spoilt
    <3> QED
      BY <2>2, <3>3, <3>4
  <2>3. CASE p \in DOMAIN tree
    <3>1. /\ NodesOK(tree') /\ DOMAIN tree' = DOMAIN tree
          /\ \A q \in DOMAIN tree \ {rootPath} :
               Handed(tree, q) /\ (~Below(p, q) \/ Announces[k] = {}) => Handed(tree', q)
          /\ Announces[k] # {} => \A q \in Descendants(tree, p) : Handed(tree', q)
      <4> HIDE DEF p
      <4> QED
        BY <1>1, <1>4, <1>6, <2>3, UpdateHeld DEF p
    <3>2. ASSUME NEW q \in DOMAIN tree \ {rootPath} PROVE Handed(tree', q) \/ Spoilt(dirty', q)
      <4>1. CASE ~Below(p, q) \/ Announces[k] = {}
        BY <2>2, <3>1, <4>1 DEF Contexts, CtxOK
      <4>2. CASE Below(p, q) /\ Announces[k] # {}
        BY <3>1, <4>2 DEF Descendants
      <4> QED
        BY <4>1, <4>2
    <3> QED
      BY <2>1, <3>1, <3>2 DEF Contexts, CtxOK
  <2>4. CASE p \notin DOMAIN tree
    <3>1. /\ NodesOK(tree') /\ DOMAIN tree' = DOMAIN tree \cup {p} /\ Handed(tree', p)
          /\ \A q \in DOMAIN tree \ {rootPath} : Handed(tree, q) => Handed(tree', q)
      BY <1>1, <1>4, <1>6, <2>4, UpdateNew
    <3>2. ASSUME NEW q \in DOMAIN tree \ {rootPath} PROVE Handed(tree', q) \/ Spoilt(dirty', q)
      <4>1. ~AtOrBelow(p, q)
        BY <1>1, <1>4, <2>4, Ancestors DEF NodesOK
      <4>2. ~Below(p, q)
        BY <4>1 DEF Below, AtOrBelow, IsStrictPrefix
      <4> QED
        BY <2>2, <3>1, <4>2 DEF Contexts, CtxOK
    <3> QED
      BY <2>1, <3>1, <3>2 DEF Contexts, CtxOK
  <2> QED
    BY <2>3, <2>4
<1> QED
  BY <1>3, <1>5, <1>6

LEMMA ThrowsContexts == ASSUME Base, Contexts, HandleUpdateThrows PROVE Contexts'
<1> DEFINE msg == Head(toWorker)
           k == msg.key
           v == msg.state
           p == PathOf(k)
<1>1. k \in Keys /\ v \in Values
  BY UpdateFacts
<1>2. msg.path = p
  <2>1. toWorker # <<>> /\ toWorker \in Seq(Message)
    BY DEF HandleUpdateThrows, Base, TypeOK
  <2>2. Head(toWorker) = toWorker[1] /\ 1 \in DOMAIN toWorker
    BY <2>1
  <2> QED
    BY <2>2 DEF Base, Registered
<1>3. dirty' = dirty \cup {p}
  BY <1>2 DEF HandleUpdateThrows
<1>4. PICK done \in SUBSET Descendants(tree, p) :
        tree' = IF p \notin DOMAIN tree THEN tree ELSE applyUpdate(tree, p, k, v, done)
  BY <1>2 DEF HandleUpdateThrows
<1> HIDE DEF k, v, msg
<1>5. NodesOK(tree) /\ p \in Paths /\ Last(p) = k
  BY <1>1, KeyPath DEF Contexts, CtxOK
<1>6. \A d \in dirty' : \E j \in Keys : d = PathOf(j)
  BY <1>1, <1>3 DEF Contexts, CtxOK
<1>7. \A q : Spoilt(dirty, q) => Spoilt(dirty', q)
  BY <1>3 DEF Spoilt
<1>8. CASE p \notin DOMAIN tree
  <2>1. tree' = tree
    BY <1>4, <1>8
  <2> QED
    BY <2>1, <1>6, <1>7 DEF Contexts, CtxOK
<1>9. CASE p \in DOMAIN tree
  <2>1. /\ NodesOK(tree') /\ DOMAIN tree' = DOMAIN tree
        /\ \A q \in DOMAIN tree \ {rootPath} :
             Handed(tree, q) /\ (~Below(p, q) \/ Announces[k] = {}) => Handed(tree', q)
    <3> HIDE DEF p
    <3> QED
      BY <1>1, <1>4, <1>5, <1>9, UpdateHeld DEF p
  <2>2. ASSUME NEW q \in DOMAIN tree \ {rootPath} PROVE Handed(tree', q) \/ Spoilt(dirty', q)
    <3>1. CASE ~Below(p, q) \/ Announces[k] = {}
      BY <1>7, <2>1, <3>1 DEF Contexts, CtxOK
    <3>2. CASE Below(p, q) /\ Announces[k] # {}
      BY <1>3, <1>5, <3>2 DEF Spoilt
    <3> QED
      BY <3>1, <3>2
  <2> QED
    BY <1>6, <2>1, <2>2 DEF Contexts, CtxOK
<1> QED
  BY <1>8, <1>9

LEMMA DeleteContexts == ASSUME Base, Contexts, HandleDelete PROVE Contexts'
<1> DEFINE k == Head(toWorker).key
           p == PathOf(k)
<1>1. /\ k \in Keys /\ DOMAIN tree' = {q \in DOMAIN tree : ~AtOrBelow(p, q)}
      /\ \A q \in DOMAIN tree' : tree'[q] = tree[q]
      /\ dirty' = {q \in dirty : ~AtOrBelow(p, q)}
  BY DeleteFacts
<1> HIDE DEF k
<1>2. NodesOK(tree) /\ Shaped(tree) /\ p \in Paths /\ ~AtOrBelow(p, rootPath)
  BY <1>1, KeyPath, PathFacts DEF Contexts, CtxOK, NodesOK, rootPath
<1>3. ASSUME NEW q \in DOMAIN tree' \ {rootPath}
      PROVE  /\ q \in DOMAIN tree \ {rootPath} /\ q \in Paths /\ Front(q) \in DOMAIN tree'
             /\ q = PathOf(Last(q)) /\ Last(q) \in Keys
  <2>1. q \in DOMAIN tree \ {rootPath} /\ ~AtOrBelow(p, q)
    BY <1>1
  <2>2. /\ q \in Paths /\ Front(q) \in DOMAIN tree /\ Front(q) \in Paths
        /\ q = PathOf(Last(q)) /\ Last(q) \in Keys
    BY <1>2, <2>1, ShapedFacts
  <2>3. AtOrBelow(Front(q), q)
    BY <2>2, PathFacts
  <2>4. ~AtOrBelow(p, Front(q))
    BY <1>2, <2>1, <2>2, <2>3, PrefixTransitive
  <2> QED
    BY <1>1, <2>1, <2>2, <2>4
<1>4. Shaped(tree')
  <2>1. rootPath \in DOMAIN tree'
    BY <1>1, <1>2 DEF Shaped
  <2> QED
    BY <1>3, <2>1 DEF Shaped
<1>5. NodesOK(tree')
  <2>1. tree'[rootPath] = create(Root, NoCtx)
    BY <1>1, <1>2, <1>4 DEF NodesOK, Shaped
  <2>2. ASSUME NEW q \in DOMAIN tree' \ {rootPath} PROVE NodeOK(tree', q)
    <3>1. tree'[q] = tree[q] /\ tree'[Front(q)] = tree[Front(q)] /\ NodeOK(tree, q)
      BY <1>1, <1>2, <1>3 DEF NodesOK
    <3> QED
      BY <3>1 DEF NodeOK
  <2> QED
    BY <1>4, <2>1, <2>2 DEF NodesOK
<1>6. \A d \in dirty' : \E j \in Keys : d = PathOf(j)
  BY <1>1 DEF Contexts, CtxOK
<1>7. ASSUME NEW q \in DOMAIN tree' \ {rootPath} PROVE Handed(tree', q) \/ Spoilt(dirty', q)
  <2>1. tree'[q] = tree[q] /\ tree'[Front(q)] = tree[Front(q)]
    BY <1>1, <1>3
  <2>2. CASE Handed(tree, q)
    BY <2>1, <2>2 DEF Handed
  <2>3. CASE Spoilt(dirty, q)
    <3>1. PICK d \in dirty : Below(d, q) /\ Announces[Last(d)] # {}
      BY <2>3 DEF Spoilt
    <3>2. d \in Paths /\ q \in Paths /\ ~AtOrBelow(p, q)
      BY <1>1, <1>3, KeyPath DEF Contexts, CtxOK
    <3>3. AtOrBelow(d, q)
      BY <3>1, <3>2, BelowShorter
    <3>4. ~AtOrBelow(p, d)
      BY <1>2, <3>2, <3>3, PrefixTransitive
    <3> QED
      BY <1>1, <3>1, <3>4 DEF Spoilt
  <2> QED
    BY <1>3, <2>2, <2>3 DEF Contexts, CtxOK
<1> QED
  BY <1>5, <1>6, <1>7 DEF Contexts, CtxOK

LEMMA ReportContexts == ASSUME Contexts, NEW k \in Keys, Report(k) PROVE Contexts'
<1> DEFINE p == PathOf(k)
<1>1. p \in DOMAIN tree /\ dirty' = dirty /\ p # rootPath
  BY KeyPath DEF Report
<1>2. PICK v \in Values : tree' = [tree EXCEPT ![p].state = v]
  BY DEF Report
<1> DEFINE n == [tree[p] EXCEPT !.state = v]
<1>3. NodesOK(tree) /\ NodeOK(tree, p)
  BY <1>1 DEF Contexts, CtxOK, NodesOK
<1>4. /\ Alive(n) /\ n.key = tree[p].key /\ n.parent = tree[p].parent /\ n.child = tree[p].child
      /\ n.seen = tree[p].seen
  BY <1>3 DEF NodeOK, Alive, Node
<1>5. tree' = [tree EXCEPT ![p] = n]
  BY <1>2
<1> HIDE DEF n, p
<1>6. /\ NodesOK(tree') /\ DOMAIN tree' = DOMAIN tree /\ tree'[p] = n
      /\ \A q \in DOMAIN tree \ {p} : tree'[q] = tree[q]
  <2>1. n.seen.ctx = n.parent /\ DOMAIN tree[p].child \subseteq DOMAIN n.child
    BY <1>3, <1>4 DEF NodeOK
  <2>2. p \in DOMAIN tree \ {rootPath}
    BY <1>1
  <2> QED
    BY <1>3, <1>4, <1>5, <2>1, <2>2, SetOne
<1>7. ASSUME NEW q \in DOMAIN tree \ {rootPath}, Handed(tree, q) PROVE Handed(tree', q)
  <2>1. Front(q) \in DOMAIN tree /\ q \in DOMAIN tree
    BY <1>3, ShapedFacts DEF NodesOK
  <2>2. \A r \in DOMAIN tree :
          /\ tree'[r].parent = tree[r].parent /\ tree'[r].child = tree[r].child
          /\ tree'[r].key = tree[r].key
    BY <1>4, <1>6
  <2> QED
    BY <1>7, <2>1, <2>2 DEF Handed, Silent, childCtx
<1> QED
  BY <1>1, <1>6, <1>7 DEF Contexts, CtxOK

LEMMA NextContexts == ASSUME Base, Contexts, [Next]_vars PROVE Contexts'
<1>1. CASE UNCHANGED <<tree, dirty>>
  BY <1>1 DEF Contexts
<1>2. ASSUME NEW k \in Keys,
             Mount(k) \/ SetState(k) \/ Reidentify(k) \/ Unmount(k) \/ RunEffects(k) \/ ReportLate(k)
      PROVE  UNCHANGED <<tree, dirty>>
  BY <1>2 DEF Mount, SetState, Reidentify, Unmount, RunEffects, ReportLate
<1>3. ReceiveMain => UNCHANGED <<tree, dirty>>
  BY DEF ReceiveMain
<1>4. UNCHANGED vars => UNCHANGED <<tree, dirty>>
  BY DEF vars
<1> QED
  BY <1>1, <1>2, <1>3, <1>4, UpdateContexts, ThrowsContexts, DeleteContexts, ReportContexts DEF Next

-----------------------------------------------------------------------------
(* What is handed down step by step is what the nearest above has set.     *)

(* What a component has of a value that the nearest above it announces.    *)
HasNearest(p, x) ==
  Setters(p, x) # {} /\ x \in Announces[tree[Nearest(p, x)].key] =>
    /\ x \in DOMAIN tree[p].parent
    /\ tree[p].parent[x] = tree[Nearest(p, x)].child[x]

(* Nothing is above the root.                                              *)
LEMMA RootHasNearest == ASSUME Contexts, NEW x PROVE HasNearest(rootPath, x)
<1>1. Shaped(tree)
  BY DEF Contexts, CtxOK, NodesOK
<1>2. ASSUME NEW r \in DOMAIN tree, Below(r, rootPath) PROVE FALSE
  <2>1. r \in Paths /\ Len(r) \in Nat /\ Len(r) >= 1
    BY <1>1, ShapedFacts
  <2>2. Len(r) < Len(rootPath) /\ Len(rootPath) = 1
    BY <1>2, <2>1, RootPath, BelowShorter
  <2> QED
    BY <2>1, <2>2
<1>3. Setters(rootPath, x) = {}
  BY <1>2 DEF Setters
<1> QED
  BY <1>3 DEF HasNearest

(* The nearest is the enclosing component if it has set the value, and the *)
(* nearest to that one if it has not.                                      *)
LEMMA NearestStep ==
  ASSUME Contexts, NEW p \in DOMAIN tree \ {rootPath}, NEW x
  PROVE  /\ x \in DOMAIN tree[Front(p)].child => Nearest(p, x) = Front(p)
         /\ x \notin DOMAIN tree[Front(p)].child =>
              Setters(p, x) = Setters(Front(p), x) /\ Nearest(p, x) = Nearest(Front(p), x)
<1> DEFINE s == Front(p)
<1>1. Shaped(tree)
  BY DEF Contexts, CtxOK, NodesOK
<1>2. /\ s \in DOMAIN tree /\ s \in Paths /\ p \in Paths
      /\ Last(p) \in Keys /\ p = PathOf(Last(p))
  BY <1>1, ShapedFacts
<1>3. \A r \in DOMAIN tree : r \in Paths /\ (Below(r, p) <=> r = s \/ Below(r, s))
  <2>1. \A r \in DOMAIN tree : r \in Paths
    BY <1>1, ShapedFacts
  <2> QED
    BY <1>2, <2>1, BelowFront
<1> HIDE DEF s
<1>4. ASSUME x \in DOMAIN tree[s].child PROVE Nearest(p, x) = s
  <2>1. s \in Setters(p, x)
    BY <1>2, <1>3, <1>4 DEF Setters
  <2>2. ASSUME NEW z \in Setters(p, x), z # s PROVE Len(z) < Len(s) /\ Len(z) \in Nat
    <3>1. Below(z, s) /\ z \in Paths
      BY <1>3, <2>2 DEF Setters
    <3> QED
      BY <1>2, <3>1, BelowShorter DEF Paths
  <2>3. Len(s) \in Nat
    BY <1>2 DEF Paths
  <2>4. \A z \in Setters(p, x) : Len(z) <= Len(s)
    BY <2>2, <2>3
  <2>5. \A r \in Setters(p, x) : (\A z \in Setters(p, x) : Len(z) <= Len(r)) => r = s
    BY <2>1, <2>2, <2>3
  <2> QED
    BY <2>1, <2>4, <2>5 DEF Nearest
<1>5. ASSUME x \notin DOMAIN tree[s].child
      PROVE  Setters(p, x) = Setters(s, x) /\ Nearest(p, x) = Nearest(s, x)
  <2>1. Setters(p, x) = Setters(s, x)
    BY <1>3, <1>5 DEF Setters
  <2> QED
    BY <2>1 DEF Nearest
<1> QED
  BY <1>4, <1>5 DEF s

LEMMA HandedDown ==
  ASSUME Contexts, NEW p \in DOMAIN tree \ {rootPath}, NEW x, Handed(tree, p), HasNearest(Front(p), x)
  PROVE  HasNearest(p, x)
<1> DEFINE s == Front(p)
           n == tree[s]
<1> SUFFICES ASSUME Setters(p, x) # {}, x \in Announces[tree[Nearest(p, x)].key]
             PROVE  x \in DOMAIN tree[p].parent /\ tree[p].parent[x] = tree[Nearest(p, x)].child[x]
  BY DEF HasNearest
<1>1. n \in Node
  BY ShapedFacts, NodesAre DEF Contexts, CtxOK, NodesOK
<1>2. /\ DOMAIN childCtx(n) = DOMAIN n.child \cup DOMAIN n.parent
      /\ \A y \in DOMAIN n.child : childCtx(n)[y] = n.child[y]
      /\ \A y \in DOMAIN n.parent \ DOMAIN n.child : childCtx(n)[y] = n.parent[y]
  BY <1>1, NodeFacts
<1>3. CASE x \in DOMAIN n.child
  <2>1. Nearest(p, x) = s
    BY <1>3, NearestStep
  <2>2. ~Silent(n, x)
    BY <2>1 DEF Silent
  <2> QED
    BY <1>2, <1>3, <2>1, <2>2 DEF Handed
<1>4. CASE x \notin DOMAIN n.child
  <2>1. Setters(p, x) = Setters(s, x) /\ Nearest(p, x) = Nearest(s, x)
    BY <1>4, NearestStep
  <2>2. x \in DOMAIN n.parent /\ n.parent[x] = tree[Nearest(s, x)].child[x]
    BY <2>1 DEF HasNearest
  <2>3. ~Silent(n, x)
    BY <1>4 DEF Silent
  <2> QED
    BY <1>2, <1>4, <2>1, <2>2, <2>3 DEF Handed
<1> QED
  BY <1>3, <1>4

LEMMA ContextsSuffice == ASSUME Contexts PROVE ContextsAgree
<1>1. NodesOK(tree) /\ Shaped(tree) /\ \A d \in dirty : d \in Paths
  BY KeyPath DEF Contexts, CtxOK, NodesOK
<1>2. \A p \in DOMAIN tree : tree[p] \in Node
  BY <1>1, NodesAre
<1>3. \A p \in DOMAIN tree \ {rootPath} :
        tree[p].key = Last(p) /\ tree[p].seen.ctx = tree[p].parent
  BY <1>1 DEF NodesOK, NodeOK
<1>4. ASSUME NEW x PROVE \A p \in DOMAIN tree : Marred(p) \/ HasNearest(p, x)
  <2> DEFINE S == {q \in DOMAIN tree : ~Marred(q) /\ ~HasNearest(q, x)}
  <2> SUFFICES ASSUME S # {} PROVE FALSE
    OBVIOUS
  <2>1. S \subseteq Paths
    BY <1>1, ShapedFacts
  <2>2. PICK q \in S : \A r \in S : Len(q) <= Len(r)
    BY <2>1, Shortest
  <2>3. q \in DOMAIN tree \ {rootPath} /\ ~Marred(q) /\ ~HasNearest(q, x)
    BY RootHasNearest
  <2>4. /\ Front(q) \in DOMAIN tree /\ Len(q) = Len(Front(q)) + 1 /\ Len(Front(q)) \in Nat
        /\ Front(q) \in Paths /\ q \in Paths /\ q = PathOf(Last(q)) /\ Last(q) \in Keys
    BY <1>1, <2>3, ShapedFacts
  <2>5. AtOrBelow(Front(q), q)
    BY <2>4, PathFacts
  <2>6. ~Marred(Front(q))
    BY <1>1, <2>3, <2>4, <2>5, PrefixTransitive DEF Marred
  <2>7. HasNearest(Front(q), x)
    <3>1. ~(Len(q) <= Len(Front(q)))
      BY <2>4
    <3>2. Front(q) \notin S
      BY <2>2, <3>1
    <3> QED
      BY <2>4, <2>6, <3>2
  <2>8. ~Spoilt(dirty, q)
    BY <1>1, <2>3, <2>4, BelowShorter DEF Spoilt, Marred
  <2>9. Handed(tree, q)
    BY <2>3, <2>8 DEF Contexts, CtxOK
  <2> QED
    BY <2>3, <2>7, <2>9, HandedDown
<1> QED
  BY <1>2, <1>3, <1>4 DEF ContextsAgree, HasNearest, rootPath

(* ContextsAgree, for any tree of components that set any values, with     *)
(* trigger or without, any renders and any afterUpdate that throws: handing *)
(* values down parent by parent gives each component the nearest value that *)
(* is announced above it, whatever silent ones are set on the way.          *)
THEOREM ContextsHold == Spec => []ContextsAgree
<1>1. Init => Base /\ Contexts
  BY InitBase, InitContexts
<1>2. Base /\ Contexts /\ [Next]_vars => Base' /\ Contexts'
  BY NextBase, NextContexts
<1>3. Contexts => ContextsAgree
  BY ContextsSuffice
<1> QED
  BY <1>1, <1>2, <1>3, PTL DEF Spec
=============================================================================
