----------------------------- MODULE DriftProofs -----------------------------
(***************************************************************************)
(* Proofs about Drift: actions are heard in the order they were dispatched *)
(* (ActionsInOrder) and no window is left that the main window's store     *)
(* does not know (NoOrphanWindow), for any windows, keys, actions, faults. *)
(***************************************************************************)
EXTENDS Drift, TLAPS

(* Queues and inboxes are sequences, of whatever.                          *)
IsSequence(q) == q \in Seq(Range(q))

LEMMA RangeFact == ASSUME NEW q, NEW i \in DOMAIN q PROVE q[i] \in Range(q)
BY DEF Range

LEMMA SeqFact == ASSUME NEW S, NEW q \in Seq(S) PROVE IsSequence(q)
<1>1. \A i \in 1 .. Len(q) : q[i] \in Range(q)
  BY RangeFact
<1> QED
  BY <1>1 DEF IsSequence

LEMMA EmptyFacts == IsSequence(<<>>) /\ DOMAIN <<>> = {} /\ Len(<<>>) = 0
BY DEF IsSequence

LEMMA SequenceFacts ==
  ASSUME NEW q, IsSequence(q)
  PROVE  /\ Len(q) \in Nat /\ DOMAIN q = 1 .. Len(q)
         /\ q = <<>> <=> Len(q) = 0
BY DEF IsSequence

LEMMA AppendFacts ==
  ASSUME NEW q, IsSequence(q), NEW x
  PROVE  /\ IsSequence(Append(q, x)) /\ Len(Append(q, x)) = Len(q) + 1
         /\ DOMAIN Append(q, x) = 1 .. Len(q) + 1
         /\ \A i \in DOMAIN q : Append(q, x)[i] = q[i]
         /\ Append(q, x)[Len(q) + 1] = x
<1>1. q \in Seq(Range(q) \cup {x})
  <2>1. \A i \in 1 .. Len(q) : q[i] \in Range(q) \cup {x}
    BY RangeFact DEF IsSequence
  <2> QED
    BY <2>1 DEF IsSequence
<1>2. /\ Append(q, x) \in Seq(Range(q) \cup {x}) /\ Len(Append(q, x)) = Len(q) + 1
      /\ DOMAIN Append(q, x) = 1 .. Len(q) + 1
      /\ \A i \in DOMAIN q : Append(q, x)[i] = q[i]
      /\ Append(q, x)[Len(q) + 1] = x
  BY <1>1
<1> QED
  BY <1>2, SeqFact

LEMMA TailFacts ==
  ASSUME NEW q, IsSequence(q), q # <<>>
  PROVE  /\ IsSequence(Tail(q)) /\ Len(Tail(q)) = Len(q) - 1
         /\ DOMAIN Tail(q) = 1 .. Len(q) - 1
         /\ \A i \in DOMAIN Tail(q) : Tail(q)[i] = q[i + 1] /\ i + 1 \in DOMAIN q
         /\ 1 \in DOMAIN q /\ Head(q) = q[1]
<1>1. /\ Tail(q) \in Seq(Range(q)) /\ Len(Tail(q)) = Len(q) - 1
      /\ DOMAIN Tail(q) = 1 .. Len(q) - 1
      /\ \A i \in DOMAIN Tail(q) : Tail(q)[i] = q[i + 1] /\ i + 1 \in DOMAIN q
      /\ 1 \in DOMAIN q /\ Head(q) = q[1]
  BY DEF IsSequence
<1> QED
  BY <1>1, SeqFact

LEMMA FirstFacts ==
  ASSUME NEW q, IsSequence(q), q # <<>>, NEW x
  PROVE  /\ IsSequence([q EXCEPT ![1] = x]) /\ DOMAIN [q EXCEPT ![1] = x] = DOMAIN q
         /\ [q EXCEPT ![1] = x][1] = x
         /\ \A i \in DOMAIN q : i # 1 => [q EXCEPT ![1] = x][i] = q[i]
<1> DEFINE r == [q EXCEPT ![1] = x]
<1>1. DOMAIN r = DOMAIN q /\ r[1] = x /\ \A i \in DOMAIN q : i # 1 => r[i] = q[i]
  BY TailFacts
<1>2. r \in Seq(Range(q) \cup {x})
  <2>1. q \in Seq(Range(q) \cup {x})
    <3>1. \A i \in 1 .. Len(q) : q[i] \in Range(q) \cup {x}
      BY RangeFact DEF IsSequence
    <3> QED
      BY <3>1 DEF IsSequence
  <2> QED
    BY <2>1, TailFacts
<1> QED
  BY <1>1, <1>2, SeqFact


-----------------------------------------------------------------------------
(* What a dispatch does to the queue and the clock.                        *)

IsCalls(c) ==
  c = [close |-> c.close, create |-> c.create, current |-> c.current, emit |-> c.emit]

IsLocal(loc) ==
  loc = [slice |-> loc.slice, queue |-> loc.queue, reload |-> loc.reload,
         fresh |-> loc.fresh, clock |-> loc.clock]

LEMMA SyncFacts ==
  ASSUME NEW w, NEW prev, NEW next
  PROVE  LET c == sync(w, prev, next) IN
         /\ IsCalls(c) /\ c.emit = {}
         /\ w = Main => /\ DOMAIN prev.windows \ DOMAIN next.windows \subseteq c.close
                        /\ c.create = DOMAIN next.windows \ DOMAIN prev.windows
         /\ w # Main => c.close = {} /\ c.create = {}
<1> DEFINE base == IF w = Main THEN syncMain(prev, next) ELSE NoCalls
           current == /\ w \in DOMAIN prev.windows \cap DOMAIN next.windows
                      /\ syncCurrent(prev.windows[w], next.windows[w])
<1>1. sync(w, prev, next) = [base EXCEPT !.current = current]
  BY DEF sync
<1>2. /\ IsCalls(base) /\ base.emit = {}
      /\ w = Main => /\ DOMAIN prev.windows \ DOMAIN next.windows \subseteq base.close
                     /\ base.create = DOMAIN next.windows \ DOMAIN prev.windows
      /\ w # Main => base.close = {} /\ base.create = {}
  BY DEF syncMain, NoCalls, IsCalls
<1> HIDE DEF base, current
<1>3. /\ IsCalls([base EXCEPT !.current = current])
      /\ [base EXCEPT !.current = current].emit = base.emit
      /\ [base EXCEPT !.current = current].close = base.close
      /\ [base EXCEPT !.current = current].create = base.create
  BY <1>2 DEF IsCalls
<1> QED
  BY <1>1, <1>2, <1>3

(* The calls that a dispatch of a in window w queues.                      *)
CallsOf(loc, w, a, emitted) ==
  LET s == loc.slice
      b == assignLabel(s, a, loc.fresh)
      t == reducer(s, b, loc.fresh)
  IN  [(IF a.type \in EXCLUDE_SYNC_ACTIONS THEN NoCalls ELSE sync(w, s, t))
       EXCEPT !.emit = IF ~emitted /\ a.type \notin EXCLUDED_ACTIONS
                       THEN {Put(b, "n", loc.clock + 1)} ELSE {}]

LEMMA CallsFacts ==
  ASSUME NEW loc, NEW w, NEW a, NEW emitted \in BOOLEAN
  PROVE  LET c == CallsOf(loc, w, a, emitted)
             s == loc.slice
             b == assignLabel(s, a, loc.fresh)
             t == reducer(s, b, loc.fresh) IN
         /\ IsCalls(c)
         /\ \/ ~emitted /\ a.type \notin EXCLUDED_ACTIONS /\ c.emit = {Put(b, "n", loc.clock + 1)}
            \/ (emitted \/ a.type \in EXCLUDED_ACTIONS) /\ c.emit = {}
         /\ w # Main \/ a.type \in EXCLUDE_SYNC_ACTIONS => c.close = {} /\ c.create = {}
         /\ w = Main /\ a.type \notin EXCLUDE_SYNC_ACTIONS =>
               /\ DOMAIN s.windows \ DOMAIN t.windows \subseteq c.close
               /\ c.create = DOMAIN t.windows \ DOMAIN s.windows
<1> DEFINE s == loc.slice
           b == assignLabel(s, a, loc.fresh)
           t == reducer(s, b, loc.fresh)
           base == IF a.type \in EXCLUDE_SYNC_ACTIONS THEN NoCalls ELSE sync(w, s, t)
           emit == IF ~emitted /\ a.type \notin EXCLUDED_ACTIONS
                   THEN {Put(b, "n", loc.clock + 1)} ELSE {}
<1>1. CallsOf(loc, w, a, emitted) = [base EXCEPT !.emit = emit]
  BY DEF CallsOf
<1>2. /\ IsCalls(base)
      /\ w # Main \/ a.type \in EXCLUDE_SYNC_ACTIONS => base.close = {} /\ base.create = {}
      /\ w = Main /\ a.type \notin EXCLUDE_SYNC_ACTIONS =>
            /\ DOMAIN s.windows \ DOMAIN t.windows \subseteq base.close
            /\ base.create = DOMAIN t.windows \ DOMAIN s.windows
  <2>1. CASE a.type \in EXCLUDE_SYNC_ACTIONS
    BY <2>1 DEF NoCalls, IsCalls
  <2>2. CASE a.type \notin EXCLUDE_SYNC_ACTIONS
    BY <2>2, SyncFacts
  <2> QED
    BY <2>1, <2>2
<1> HIDE DEF base, s, t, b, emit
<1>3. /\ IsCalls([base EXCEPT !.emit = emit]) /\ [base EXCEPT !.emit = emit].emit = emit
      /\ [base EXCEPT !.emit = emit].close = base.close
      /\ [base EXCEPT !.emit = emit].create = base.create
  BY <1>2 DEF IsCalls
<1> QED
  BY <1>1, <1>2, <1>3 DEF s, b, t, emit

LEMMA DispatchFacts ==
  ASSUME NEW loc, IsLocal(loc), NEW w, NEW a, NEW emitted \in BOOLEAN
  PROVE  LET D == Dispatch(loc, w, a, emitted)
             s == loc.slice
             b == assignLabel(s, a, loc.fresh)
             c == CallsOf(loc, w, a, emitted) IN
         /\ IsLocal(D) /\ D.fresh = loc.fresh + Drawn(s, a)
         /\ \/ D.slice = s /\ D.queue = loc.queue /\ D.clock = loc.clock /\ D.reload = loc.reload
            \/ /\ ~Throws(s, b)
               /\ D.slice = reducer(s, b, loc.fresh)
               /\ D.queue = Enqueue(loc.queue, c)
               /\ D.reload = (loc.reload \/ Reloads(s, b))
               /\ D.clock = IF ~emitted /\ a.type \notin EXCLUDED_ACTIONS
                            THEN loc.clock + 1 ELSE loc.clock
<1> DEFINE s == loc.slice
           b == assignLabel(s, a, loc.fresh)
<1>1. CASE Throws(s, b)
  BY <1>1 DEF Dispatch, IsLocal
<1>2. CASE ~Throws(s, b)
  BY <1>2 DEF Dispatch, CallsOf, IsLocal
<1> QED
  BY <1>1, <1>2


-----------------------------------------------------------------------------
(* The inductive invariant behind ActionsInOrder.                          *)

UserTypes == {"focusWindow", "registerProcess", "completeProcess", "reloadWindow",
              "closeWindow", "setWindowVisible", "setWindowAlwaysOnTop",
              "setWindowTitle", "createWindow", "setWindowProps"}

Emitted == {"runtimeSetWindowProps", "setWindowStage", "setWindowError", "closeWindow"}
           \cup (Dispatchable \cap UserTypes)

(* What travels: a window reports its properties under its label only.     *)
Typed(a) ==
  /\ "type" \in DOMAIN a /\ a.type \in Emitted
  /\ a.type = "runtimeSetWindowProps" =>
       "label" \in DOMAIN a /\ a.label \in Labels /\ "key" \notin DOMAIN a

(* The actions q is about to emit are numbered in order, up to the clock.  *)
Numbered(q, clk) ==
  /\ IsSequence(q) /\ clk \in Nat
  /\ \A i \in DOMAIN q :
       /\ IsCalls(q[i])
       /\ \A a \in q[i].emit :
            /\ Typed(a) /\ "n" \in DOMAIN a /\ a.n \in Nat /\ a.n <= clk
            /\ \A j \in DOMAIN q : j < i => \A b \in q[j].emit : b.n < a.n

Above(q, m) == \A i \in DOMAIN q : \A a \in q[i].emit : m < a.n

(* An inbox, and what was heard before it, with the queues they come from. *)
Hears(box, past, queues, clk) ==
  /\ IsSequence(box)
  /\ \A e \in Labels : past[e] \in Nat /\ past[e] <= clk[e] /\ Above(queues[e], past[e])
  /\ \A i \in DOMAIN box :
       box[i].kind = "action" =>
         /\ Typed(box[i].action) /\ box[i].emitter \in Labels \cup {Whitelist}
         /\ box[i].emitter \in Labels =>
              /\ box[i].action.n \in Nat /\ box[i].action.n <= clk[box[i].emitter]
              /\ past[box[i].emitter] < box[i].action.n
              /\ Above(queues[box[i].emitter], box[i].action.n)
              /\ \A j \in DOMAIN box :
                   j < i /\ box[j].kind = "action" /\ box[j].emitter = box[i].emitter =>
                     box[j].action.n < box[i].action.n

Shaped ==
  /\ DOMAIN phase = Labels /\ DOMAIN store = Labels /\ DOMAIN boot = Labels
  /\ DOMAIN effects = Labels /\ DOMAIN inbox = Labels /\ DOMAIN clock = Labels
  /\ DOMAIN heard = Labels /\ \A w \in Labels : DOMAIN heard[w] = Labels
  /\ \A w \in Labels : DOMAIN boot[w] = {"seen", "close", "create"}

Ordered ==
  /\ \A e \in Labels : Numbered(effects[e], clock[e])
  /\ \A w \in Labels : Hears(inbox[w], heard[w], effects, clock)

(* Queues that go on: nothing is emitted that is older than what was.      *)
GoesOn(q, clk, q2, clk2) ==
  /\ Numbered(q2, clk2) /\ clk <= clk2
  /\ \A m \in Nat : m <= clk /\ Above(q, m) => Above(q2, m)

LEMMA LabelsFacts == /\ Labels \subseteq Int /\ Main \in Labels /\ Whitelist \notin Labels
                     /\ NoLabel \notin Labels /\ Main = 0
BY DriftAssumption DEF Labels, Main, Whitelist, NoLabel, Undefined

LEMMA SameGoesOn ==
  ASSUME NEW q, NEW clk, Numbered(q, clk)
  PROVE  GoesOn(q, clk, q, clk)
BY DEF GoesOn, Numbered

LEMMA EmptyGoesOn ==
  ASSUME NEW q, NEW clk, Numbered(q, clk)
  PROVE  GoesOn(q, clk, <<>>, clk)
BY EmptyFacts DEF GoesOn, Numbered, Above

LEMMA GoesOnAgain ==
  ASSUME NEW q, NEW clk, NEW q2, NEW clk2, NEW q3, NEW clk3, clk \in Nat,
         GoesOn(q, clk, q2, clk2), GoesOn(q2, clk2, q3, clk3)
  PROVE  GoesOn(q, clk, q3, clk3)
<1>1. clk2 \in Nat /\ clk3 \in Nat
  BY DEF GoesOn, Numbered
<1> QED
  BY <1>1 DEF GoesOn

LEMMA TailGoesOn ==
  ASSUME NEW q, NEW clk, Numbered(q, clk), q # <<>>
  PROVE  GoesOn(q, clk, Tail(q), clk)
<1>1. /\ IsSequence(Tail(q))
      /\ \A i \in DOMAIN Tail(q) : i \in Int /\ Tail(q)[i] = q[i + 1] /\ i + 1 \in DOMAIN q
  BY TailFacts, SequenceFacts DEF Numbered
<1>2. Numbered(Tail(q), clk)
  BY <1>1 DEF Numbered
<1>3. \A m \in Nat : Above(q, m) => Above(Tail(q), m)
  BY <1>1 DEF Above
<1> QED
  BY <1>2, <1>3 DEF GoesOn, Numbered

(* Some calls of the first dispatch are made, its emit is not among them.  *)
LEMMA FirstGoesOn ==
  ASSUME NEW q, NEW clk, Numbered(q, clk), q # <<>>, NEW c, IsCalls(c), c.emit = q[1].emit
  PROVE  GoesOn(q, clk, [q EXCEPT ![1] = c], clk)
<1> DEFINE r == [q EXCEPT ![1] = c]
<1>1. /\ IsSequence(r) /\ DOMAIN r = DOMAIN q
      /\ \A i \in DOMAIN q : IsCalls(r[i]) /\ r[i].emit = q[i].emit
  BY FirstFacts DEF Numbered
<1> HIDE DEF r
<1>2. Numbered(r, clk)
  BY <1>1 DEF Numbered
<1>3. \A m \in Nat : Above(q, m) => Above(r, m)
  BY <1>1 DEF Above
<1>4. GoesOn(q, clk, r, clk)
  BY <1>2, <1>3 DEF GoesOn, Numbered
<1> QED
  BY <1>4 DEF r

LEMMA EnqueueGoesOn ==
  ASSUME NEW q, NEW clk, Numbered(q, clk), NEW c, IsCalls(c), NEW clk2,
         \/ c.emit = {} /\ clk2 = clk
         \/ /\ clk2 = clk + 1
            /\ \A a \in c.emit : Typed(a) /\ "n" \in DOMAIN a /\ a.n = clk + 1
  PROVE  GoesOn(q, clk, Enqueue(q, c), clk2)
<1>0. clk \in Nat /\ clk2 \in Nat /\ clk <= clk2 /\ IsSequence(q)
      /\ \A a \in c.emit : /\ Typed(a) /\ "n" \in DOMAIN a
                            /\ a.n \in Nat /\ clk < a.n /\ a.n <= clk2
  BY DEF Numbered
<1>1. CASE c = NoCalls
  <2>1. Numbered(q, clk2)
    BY <1>0 DEF Numbered
  <2> QED
    BY <1>0, <1>1, <2>1 DEF GoesOn, Enqueue
<1>2. CASE c # NoCalls
  <2> DEFINE r == Append(q, c)
  <2>1. /\ IsSequence(r) /\ DOMAIN r = 1 .. Len(q) + 1 /\ DOMAIN q = 1 .. Len(q)
        /\ Len(q) \in Nat
        /\ \A i \in DOMAIN q : r[i] = q[i]
        /\ r[Len(q) + 1] = c
    BY <1>0, AppendFacts, SequenceFacts
  <2> HIDE DEF r
  <2>2. \A i \in DOMAIN r : i \in Int /\ ((i \in DOMAIN q /\ r[i] = q[i]) \/ (i = Len(q) + 1 /\ r[i] = c))
    BY <2>1
  <2>3. ASSUME NEW i \in DOMAIN r
        PROVE  /\ IsCalls(r[i])
               /\ \A a \in r[i].emit :
                    /\ Typed(a) /\ "n" \in DOMAIN a /\ a.n \in Nat /\ a.n <= clk2
                    /\ \A j \in DOMAIN r : j < i => \A b \in r[j].emit : b.n < a.n
    <3>1. CASE i \in DOMAIN q
      <4>1. \A j \in DOMAIN r : j < i => j \in DOMAIN q /\ r[j] = q[j]
        BY <2>1, <2>2, <3>1
      <4> QED
        BY <4>1, <3>1, <2>1, <1>0 DEF Numbered
    <3>2. CASE i = Len(q) + 1
      <4>1. \A j \in DOMAIN r : j < i => j \in DOMAIN q /\ r[j] = q[j]
        BY <2>1, <2>2, <3>2
      <4>2. \A j \in DOMAIN q : \A b \in q[j].emit : b.n \in Nat /\ b.n <= clk
        BY DEF Numbered
      <4> QED
        BY <4>1, <4>2, <3>2, <2>1, <1>0
    <3> QED
      BY <3>1, <3>2, <2>2
  <2>4. Numbered(r, clk2)
    BY <2>1, <2>3, <1>0 DEF Numbered
  <2>5. ASSUME NEW m \in Nat, m <= clk, Above(q, m) PROVE Above(r, m)
    BY <2>2, <2>5, <1>0 DEF Above
  <2>6. GoesOn(q, clk, r, clk2)
    BY <2>4, <2>5, <1>0 DEF GoesOn
  <2> QED
    BY <2>6, <1>2 DEF Enqueue, r
<1> QED
  BY <1>1, <1>2

(* A dispatched action keeps its type and, if it has one, its label.       *)
LEMMA AssignFacts ==
  ASSUME NEW s, NEW a, NEW n, "type" \in DOMAIN a
  PROVE  LET b == assignLabel(s, a, n) IN
         /\ "type" \in DOMAIN b /\ b.type = a.type
         /\ "label" \in DOMAIN a /\ a.type # "createWindow" => b = a
BY DEF assignLabel, Put

LEMMA AssignTyped ==
  ASSUME NEW s, NEW a, NEW n, NEW m, Typed(a)
  PROVE  LET b == Put(assignLabel(s, a, n), "n", m) IN
         Typed(b) /\ "n" \in DOMAIN b /\ b.n = m
<1> DEFINE b == assignLabel(s, a, n)
<1>1. /\ "type" \in DOMAIN b /\ b.type = a.type
      /\ a.type = "runtimeSetWindowProps" => b = a
  BY AssignFacts DEF Typed
<1> HIDE DEF b
<1>2. Typed(b)
  BY <1>1 DEF Typed
<1>3. /\ DOMAIN Put(b, "n", m) = DOMAIN b \cup {"n"} /\ Put(b, "n", m).n = m
      /\ \A f \in DOMAIN b : f # "n" => Put(b, "n", m)[f] = b[f]
  BY DEF Put
<1>4. Typed(Put(b, "n", m))
  BY <1>2, <1>3 DEF Typed
<1> QED
  BY <1>3, <1>4 DEF b

LEMMA DispatchGoesOn ==
  ASSUME NEW loc, IsLocal(loc), NEW w, NEW a, NEW emitted \in BOOLEAN,
         Numbered(loc.queue, loc.clock), Typed(a) \/ a.type \in EXCLUDED_ACTIONS
  PROVE  LET D == Dispatch(loc, w, a, emitted) IN
         IsLocal(D) /\ GoesOn(loc.queue, loc.clock, D.queue, D.clock)
<1> DEFINE D == Dispatch(loc, w, a, emitted)
           b == assignLabel(loc.slice, a, loc.fresh)
           c == CallsOf(loc, w, a, emitted)
<1>1. IsLocal(D)
  BY DispatchFacts
<1>2. CASE D.queue = loc.queue /\ D.clock = loc.clock
  BY <1>1, <1>2, SameGoesOn
<1>3. CASE /\ D.queue = Enqueue(loc.queue, c)
           /\ D.clock = IF ~emitted /\ a.type \notin EXCLUDED_ACTIONS
                        THEN loc.clock + 1 ELSE loc.clock
  <2>1. IsCalls(c)
    BY CallsFacts
  <2>2. \/ c.emit = {} /\ D.clock = loc.clock
        \/ /\ D.clock = loc.clock + 1 /\ c.emit = {Put(b, "n", loc.clock + 1)}
           /\ ~emitted /\ a.type \notin EXCLUDED_ACTIONS
    BY <1>3, CallsFacts
  <2>3. ~emitted /\ a.type \notin EXCLUDED_ACTIONS =>
          /\ Typed(Put(b, "n", loc.clock + 1)) /\ "n" \in DOMAIN Put(b, "n", loc.clock + 1)
          /\ Put(b, "n", loc.clock + 1).n = loc.clock + 1
    BY AssignTyped
  <2> HIDE DEF D, b, c
  <2>4. GoesOn(loc.queue, loc.clock, Enqueue(loc.queue, c), D.clock)
    BY <2>1, <2>2, <2>3, EnqueueGoesOn
  <2> QED
    BY <1>1, <1>3, <2>4 DEF D
<1> QED
  BY <1>2, <1>3, DispatchFacts


(* Inboxes.                                                                *)
LEMMA HearsOn ==
  ASSUME NEW box, NEW past, NEW queues, NEW clk, NEW queues2, NEW clk2,
         Hears(box, past, queues, clk),
         \A e \in Labels : Numbered(queues[e], clk[e]),
         \A e \in Labels : GoesOn(queues[e], clk[e], queues2[e], clk2[e])
  PROVE  Hears(box, past, queues2, clk2)
<1>1. \A e \in Labels : /\ clk[e] \in Nat /\ clk2[e] \in Nat /\ clk[e] <= clk2[e]
                        /\ \A m \in Nat : m <= clk[e] /\ Above(queues[e], m) => Above(queues2[e], m)
  BY DEF GoesOn, Numbered
<1>2. \A e \in Labels : past[e] \in Nat /\ past[e] <= clk2[e] /\ Above(queues2[e], past[e])
  BY <1>1 DEF Hears
<1>3. ASSUME NEW i \in DOMAIN box, box[i].kind = "action", box[i].emitter \in Labels
      PROVE  /\ box[i].action.n <= clk2[box[i].emitter]
             /\ Above(queues2[box[i].emitter], box[i].action.n)
  <2>1. /\ box[i].action.n \in Nat /\ box[i].action.n <= clk[box[i].emitter]
        /\ Above(queues[box[i].emitter], box[i].action.n)
    BY <1>3 DEF Hears
  <2> QED
    BY <1>1, <1>3, <2>1
<1> QED
  BY <1>2, <1>3 DEF Hears

LEMMA HearsNothing ==
  ASSUME NEW box, NEW past, NEW queues, NEW clk, Hears(box, past, queues, clk)
  PROVE  Hears(<<>>, past, queues, clk)
BY EmptyFacts DEF Hears

LEMMA HearsTail ==
  ASSUME NEW box, NEW past, NEW queues, NEW clk, Hears(box, past, queues, clk), box # <<>>
  PROVE  Hears(Tail(box), past, queues, clk)
<1>1. /\ IsSequence(Tail(box))
      /\ \A i \in DOMAIN Tail(box) :
            i \in Int /\ Tail(box)[i] = box[i + 1] /\ i + 1 \in DOMAIN box
  BY TailFacts, SequenceFacts DEF Hears
<1> QED
  BY <1>1 DEF Hears

(* The next action of e is applied.                                        *)
LEMMA HearsAction ==
  ASSUME NEW box, NEW past, NEW queues, NEW clk, Hears(box, past, queues, clk), box # <<>>,
         DOMAIN past = Labels, Head(box).kind = "action", Head(box).emitter \in Labels
  PROVE  Hears(Tail(box), [past EXCEPT ![Head(box).emitter] = Head(box).action.n], queues, clk)
<1> DEFINE e == Head(box).emitter
           n == Head(box).action.n
           now == [past EXCEPT ![e] = n]
<1>1. /\ IsSequence(Tail(box)) /\ 1 \in DOMAIN box /\ Head(box) = box[1]
      /\ \A i \in DOMAIN Tail(box) :
            i \in Int /\ 1 <= i /\ Tail(box)[i] = box[i + 1] /\ i + 1 \in DOMAIN box
  BY TailFacts, SequenceFacts DEF Hears
<1>2. n \in Nat /\ n <= clk[e] /\ Above(queues[e], n) /\ e \in Labels
  BY <1>1 DEF Hears
<1>3. \A d \in Labels : now[d] = IF d = e THEN n ELSE past[d]
  BY <1>2
<1>4. ASSUME NEW i \in DOMAIN Tail(box), Tail(box)[i].kind = "action",
             Tail(box)[i].emitter \in Labels
      PROVE  now[Tail(box)[i].emitter] < Tail(box)[i].action.n
  <2>1. CASE Tail(box)[i].emitter = e
    <3>1. 1 < i + 1 /\ box[1].kind = "action" /\ box[1].emitter = box[i + 1].emitter
      BY <1>1, <2>1
    <3>2. box[1].action.n < box[i + 1].action.n
      BY <3>1, <1>1, <1>4 DEF Hears
    <3> QED
      BY <3>2, <1>1, <1>3, <1>4, <2>1
  <2>2. CASE Tail(box)[i].emitter # e
    BY <2>2, <1>1, <1>3, <1>4 DEF Hears
  <2> QED
    BY <2>1, <2>2
<1>5. Hears(Tail(box), past, queues, clk)
  BY HearsTail
<1> HIDE DEF e, n, now
<1>6. Hears(Tail(box), now, queues, clk)
  BY <1>2, <1>3, <1>4, <1>5 DEF Hears
<1> QED
  BY <1>6 DEF now, n, e

(* An event that is no action of a window.                                 *)
LEMMA HearsEvent ==
  ASSUME NEW box, NEW past, NEW queues, NEW clk, Hears(box, past, queues, clk), NEW ev,
         ev.kind # "action" \/ (ev.emitter = Whitelist /\ Typed(ev.action))
  PROVE  Hears(Append(box, ev), past, queues, clk)
<1> DEFINE r == Append(box, ev)
<1>1. /\ IsSequence(r) /\ IsSequence(box) /\ Len(box) \in Nat /\ DOMAIN box = 1 .. Len(box)
      /\ DOMAIN r = 1 .. Len(box) + 1
      /\ \A i \in DOMAIN box : r[i] = box[i]
      /\ r[Len(box) + 1] = ev
  BY AppendFacts, SequenceFacts DEF Hears
<1> HIDE DEF r
<1>2. \A i \in DOMAIN r : r[i].kind = "action" /\ r[i].emitter \in Labels =>
                            i \in DOMAIN box /\ \A j \in DOMAIN r : j < i => j \in DOMAIN box
  BY <1>1, LabelsFacts
<1>3. \A i \in DOMAIN r :
        r[i].kind = "action" => Typed(r[i].action) /\ r[i].emitter \in Labels \cup {Whitelist}
  BY <1>1 DEF Hears
<1>4. Hears(r, past, queues, clk)
  BY <1>1, <1>2, <1>3 DEF Hears
<1> QED
  BY <1>4 DEF r

(* The first action queued in window e arrives.                            *)
LEMMA HearsEmit ==
  ASSUME NEW box, NEW past, NEW queues, NEW clk, Hears(box, past, queues, clk),
         NEW e \in Labels, Numbered(queues[e], clk[e]), queues[e] # <<>>,
         NEW a \in queues[e][1].emit, NEW ev, ev.kind = "action", ev.emitter = e,
         ev.action.n = a.n, Typed(ev.action), NEW queues2, queues2[e] = Tail(queues[e]),
         \A d \in Labels \ {e} : queues2[d] = queues[d]
  PROVE  Hears(Append(box, ev), past, queues2, clk)
<1> DEFINE r == Append(box, ev)
           q == queues[e]
<1>1. /\ IsSequence(r) /\ IsSequence(box) /\ Len(box) \in Nat /\ DOMAIN box = 1 .. Len(box)
      /\ DOMAIN r = 1 .. Len(box) + 1
      /\ \A i \in DOMAIN box : r[i] = box[i]
      /\ r[Len(box) + 1] = ev
  BY AppendFacts, SequenceFacts DEF Hears
<1>2. /\ 1 \in DOMAIN q
      /\ \A i \in DOMAIN Tail(q) :
            i \in Int /\ 1 < i + 1 /\ Tail(q)[i] = q[i + 1] /\ i + 1 \in DOMAIN q
  BY TailFacts, SequenceFacts DEF Numbered
<1> HIDE DEF r, q
<1>3. a.n \in Nat /\ a.n <= clk[e]
  BY <1>2 DEF Numbered, q
<1>4. Above(Tail(q), a.n)
  <2> SUFFICES ASSUME NEW i \in DOMAIN Tail(q), NEW b \in Tail(q)[i].emit PROVE a.n < b.n
    BY DEF Above
  <2>1. i + 1 \in DOMAIN q /\ b \in q[i + 1].emit /\ 1 < i + 1 /\ a \in q[1].emit
    BY <1>2 DEF q
  <2> QED
    BY <2>1, <1>2 DEF Numbered, q
<1>5. \A m : Above(q, m) => m < a.n /\ Above(Tail(q), m)
  BY <1>2 DEF Above, q
<1>6. \A d \in Labels : \A m : Above(queues[d], m) => Above(queues2[d], m)
  BY <1>5 DEF q
<1>7. \A d \in Labels : past[d] \in Nat /\ past[d] <= clk[d] /\ Above(queues2[d], past[d])
  BY <1>6 DEF Hears
<1>8. ASSUME NEW i \in DOMAIN r, r[i].kind = "action"
      PROVE  /\ Typed(r[i].action) /\ r[i].emitter \in Labels \cup {Whitelist}
             /\ r[i].emitter \in Labels =>
                  /\ r[i].action.n \in Nat /\ r[i].action.n <= clk[r[i].emitter]
                  /\ past[r[i].emitter] < r[i].action.n
                  /\ Above(queues2[r[i].emitter], r[i].action.n)
                  /\ \A j \in DOMAIN r :
                       j < i /\ r[j].kind = "action" /\ r[j].emitter = r[i].emitter =>
                         r[j].action.n < r[i].action.n
  <2>1. CASE i \in DOMAIN box
    <3>1. \A j \in DOMAIN r : j < i => j \in DOMAIN box /\ r[j] = box[j]
      BY <1>1, <2>1
    <3>2. r[i] = box[i]
      BY <1>1, <2>1
    <3> QED
      BY <3>1, <3>2, <1>6, <1>8, <2>1 DEF Hears
  <2>2. CASE i = Len(box) + 1
    <3>1. \A j \in DOMAIN r : j < i => j \in DOMAIN box /\ r[j] = box[j]
      BY <1>1, <2>2
    <3>2. r[i] = ev
      BY <1>1, <2>2
    <3>3. \A j \in DOMAIN box :
             box[j].kind = "action" /\ box[j].emitter = e => box[j].action.n < a.n
      BY <1>5 DEF Hears, q
    <3>4. past[e] < a.n
      BY <1>5 DEF Hears, q
    <3> QED
      BY <3>1, <3>2, <3>3, <3>4, <1>3, <1>4 DEF q
  <2> QED
    BY <1>1, <2>1, <2>2
<1>9. Hears(r, past, queues2, clk)
  BY <1>1, <1>7, <1>8 DEF Hears
<1> QED
  BY <1>9 DEF r


(* Steps.                                                                  *)
Accepts(box, box2) ==
  \/ box2 = box \/ box2 = <<>>
  \/ box # <<>> /\ box2 = Tail(box)
  \/ \E ev : /\ ev.kind # "action" \/ (ev.emitter = Whitelist /\ Typed(ev.action))
             /\ box2 = Append(box, ev)

LEMMA OrderedKept ==
  ASSUME Ordered, UNCHANGED heard,
         \A e \in Labels : GoesOn(effects[e], clock[e], effects'[e], clock'[e]),
         \A w \in Labels : Accepts(inbox[w], inbox'[w])
  PROVE  Ordered'
<1>1. \A e \in Labels : Numbered(effects'[e], clock'[e])
  BY DEF GoesOn
<1>2. ASSUME NEW w \in Labels PROVE Hears(inbox'[w], heard[w], effects, clock)
  <2>1. Hears(inbox[w], heard[w], effects, clock)
    BY DEF Ordered
  <2>2. Accepts(inbox[w], inbox'[w])
    OBVIOUS
  <2>3. CASE inbox'[w] = inbox[w]
    BY <2>1, <2>3
  <2>4. CASE inbox'[w] = <<>>
    BY <2>1, <2>4, HearsNothing
  <2>5. CASE inbox[w] # <<>> /\ inbox'[w] = Tail(inbox[w])
    BY <2>1, <2>5, HearsTail
  <2>6. CASE \E ev : /\ ev.kind # "action" \/ (ev.emitter = Whitelist /\ Typed(ev.action))
                    /\ inbox'[w] = Append(inbox[w], ev)
    <3>1. PICK ev : /\ ev.kind # "action" \/ (ev.emitter = Whitelist /\ Typed(ev.action))
                    /\ inbox'[w] = Append(inbox[w], ev)
      BY <2>6
    <3> QED
      BY <2>1, <3>1, HearsEvent
  <2> QED
    BY <2>2, <2>3, <2>4, <2>5, <2>6 DEF Accepts
<1>3. \A w \in Labels : Hears(inbox'[w], heard[w], effects', clock')
  BY <1>2, HearsOn DEF Ordered
<1> QED
  BY <1>1, <1>3 DEF Ordered

LEMMA LocalFacts ==
  ASSUME NEW w
  PROVE  /\ IsLocal(Local(w)) /\ Local(w).slice = store[w] /\ Local(w).queue = effects[w]
         /\ Local(w).clock = clock[w] /\ Local(w).fresh = fresh /\ Local(w).reload = FALSE
BY DEF Local, IsLocal

LEMMA CommitFacts ==
  ASSUME Shaped, NEW w \in Labels, NEW D, Commit(w, D)
  PROVE  /\ DOMAIN store' = Labels /\ DOMAIN effects' = Labels /\ DOMAIN clock' = Labels
         /\ store'[w] = D.slice /\ effects'[w] = D.queue /\ clock'[w] = D.clock
         /\ fresh' = D.fresh /\ D.fresh <= MaxLabel + 1
         /\ reloads' = IF D.reload THEN reloads \cup {w} ELSE reloads
         /\ \A u \in Labels \ {w} : /\ store'[u] = store[u] /\ effects'[u] = effects[u]
                                    /\ clock'[u] = clock[u]
BY DEF Commit, Shaped

LEMMA CommitOrdered ==
  ASSUME Shaped, Ordered, NEW w \in Labels, NEW D, Commit(w, D),
         GoesOn(effects[w], clock[w], D.queue, D.clock)
  PROVE  \A e \in Labels : GoesOn(effects[e], clock[e], effects'[e], clock'[e])
<1>1. \A e \in Labels : GoesOn(effects[e], clock[e], effects[e], clock[e])
  BY SameGoesOn DEF Ordered
<1> QED
  BY <1>1, CommitFacts

(* Nothing is emitted, some queues are cut off.                            *)
LEMMA CutOrdered ==
  ASSUME Ordered, UNCHANGED clock,
         \A e \in Labels : effects'[e] = effects[e] \/ effects'[e] = <<>>
  PROVE  \A e \in Labels : GoesOn(effects[e], clock[e], effects'[e], clock'[e])
<1> SUFFICES ASSUME NEW e \in Labels
             PROVE  GoesOn(effects[e], clock[e], effects'[e], clock[e])
  OBVIOUS
<1>1. Numbered(effects[e], clock[e])
  BY DEF Ordered
<1> QED
  BY <1>1, SameGoesOn, EmptyGoesOn

LEMMA DropFacts ==
  ASSUME NEW ws, NEW ph, Drop(ws, ph)
  PROVE  /\ DOMAIN phase' = Labels /\ DOMAIN store' = Labels /\ DOMAIN boot' = Labels
         /\ DOMAIN inbox' = Labels
         /\ \A w \in Labels : w \in ws => /\ phase'[w] = ph /\ store'[w] = ZERO_SLICE_STATE
                                          /\ boot'[w] = NoBoot /\ inbox'[w] = <<>>
         /\ \A w \in Labels : w \notin ws => /\ phase'[w] = phase[w] /\ store'[w] = store[w]
                                             /\ boot'[w] = boot[w] /\ inbox'[w] = inbox[w]
         /\ reloads' = reloads \ ws
         /\ replies' = IF Main \in ws THEN {} ELSE replies
BY DEF Drop

LEMMA NoBootFacts == /\ DOMAIN NoBoot = {"seen", "close", "create"}
                     /\ NoBoot.seen = {} /\ NoBoot.close = {} /\ NoBoot.create = {}
BY DEF NoBoot

LEMMA InitOrdered == ASSUME Init PROVE Shaped /\ Ordered
<1>1. Shaped
  BY NoBootFacts DEF Init, Shaped
<1>2. \A e \in Labels : effects[e] = <<>> /\ clock[e] = 0 /\ inbox[e] = <<>>
                        /\ \A d \in Labels : heard[e][d] = 0
  BY DEF Init
<1>3. \A e \in Labels : Numbered(effects[e], clock[e])
  BY <1>2, EmptyFacts DEF Numbered
<1>4. \A w \in Labels : Hears(inbox[w], heard[w], effects, clock)
  BY <1>2, EmptyFacts DEF Hears, Above
<1> QED
  BY <1>1, <1>3, <1>4 DEF Ordered

(* Steps that queue and emit nothing.                                      *)
LEMMA QuietOrdered ==
  ASSUME Shaped, Ordered, UNCHANGED <<effects, clock, heard>>,
         \A w \in Labels : Accepts(inbox[w], inbox'[w])
  PROVE  Ordered'
<1>1. \A e \in Labels : GoesOn(effects[e], clock[e], effects'[e], clock'[e])
  BY SameGoesOn DEF Ordered
<1> QED
  BY <1>1, OrderedKept


LEMMA AfterCallGoesOn ==
  ASSUME NEW w, NEW clk, Numbered(effects[w], clk), effects[w] # <<>>,
         NEW c, IsCalls(c), c.emit = Head(effects[w]).emit
  PROVE  GoesOn(effects[w], clk, AfterCall(w, c), clk)
<1>1. Head(effects[w]) = effects[w][1]
  BY TailFacts DEF Numbered
<1> QED
  BY <1>1, TailGoesOn, FirstGoesOn DEF AfterCall

LEMMA CallsLeft ==
  ASSUME NEW c, IsCalls(c), NEW x
  PROVE  /\ IsCalls([c EXCEPT !.close = x]) /\ [c EXCEPT !.close = x].emit = c.emit
         /\ [c EXCEPT !.close = x].close = x /\ [c EXCEPT !.close = x].create = c.create
         /\ IsCalls([c EXCEPT !.create = x]) /\ [c EXCEPT !.create = x].emit = c.emit
         /\ [c EXCEPT !.create = x].close = c.close /\ [c EXCEPT !.create = x].create = x
         /\ IsCalls([c EXCEPT !.current = x]) /\ [c EXCEPT !.current = x].emit = c.emit
         /\ [c EXCEPT !.current = x].close = c.close /\ [c EXCEPT !.current = x].create = c.create
BY DEF IsCalls

LEMMA CurrentLeft ==
  ASSUME NEW c, IsCalls(c), NEW d, d = [c EXCEPT !.current = FALSE]
  PROVE  IsCalls(d) /\ d.emit = c.emit /\ d.close = c.close /\ d.create = c.create
<1> DEFINE x == FALSE
<1>1. d = [c EXCEPT !.current = x]
  OBVIOUS
<1> HIDE DEF x
<1> QED
  BY <1>1 DEF IsCalls

LEMMA QueueLeft ==
  ASSUME NEW loc, IsLocal(loc)
  PROVE  LET d == [loc EXCEPT !.queue = Tail(@)] IN
         /\ IsLocal(d) /\ d.queue = Tail(loc.queue) /\ d.slice = loc.slice
         /\ d.clock = loc.clock /\ d.fresh = loc.fresh /\ d.reload = loc.reload
<1> DEFINE q == Tail(loc.queue)
<1>1. [loc EXCEPT !.queue = Tail(@)] = [loc EXCEPT !.queue = q]
  OBVIOUS
<1> HIDE DEF q
<1>2. /\ IsLocal([loc EXCEPT !.queue = q]) /\ [loc EXCEPT !.queue = q].queue = q
      /\ [loc EXCEPT !.queue = q].slice = loc.slice
      /\ [loc EXCEPT !.queue = q].clock = loc.clock
      /\ [loc EXCEPT !.queue = q].fresh = loc.fresh
      /\ [loc EXCEPT !.queue = q].reload = loc.reload
  BY DEF IsLocal
<1> QED
  BY <1>1, <1>2 DEF q

LEMMA CallLeft ==
  ASSUME NEW w
  PROVE  LET d == [Local(w) EXCEPT !.queue = Tail(@)] IN
         /\ IsLocal(d) /\ d.queue = Tail(effects[w]) /\ d.slice = store[w]
         /\ d.clock = clock[w] /\ d.fresh = fresh
<1> DEFINE here == Local(w)
<1>1. /\ IsLocal(here) /\ here.slice = store[w] /\ here.queue = effects[w]
      /\ here.clock = clock[w] /\ here.fresh = fresh
  BY LocalFacts
<1> HIDE DEF here
<1>2. LET d == [here EXCEPT !.queue = Tail(@)] IN
      /\ IsLocal(d) /\ d.queue = Tail(here.queue) /\ d.slice = here.slice
      /\ d.clock = here.clock /\ d.fresh = here.fresh
  BY <1>1, QueueLeft
<1> QED
  BY <1>1, <1>2 DEF here

LEMMA HeadCalls ==
  ASSUME Ordered, NEW w \in Labels, effects[w] # <<>>
  PROVE  /\ IsCalls(Head(effects[w])) /\ Head(effects[w]) = effects[w][1]
         /\ 1 \in DOMAIN effects[w] /\ Numbered(effects[w], clock[w])
<1>1. Numbered(effects[w], clock[w])
  BY DEF Ordered
<1> QED
  BY <1>1, TailFacts DEF Numbered

LEMMA CloseOrdered ==
  ASSUME Shaped, Ordered, NEW w \in Labels, effects[w] # <<>>,
         CloseCall(w, Head(effects[w])), UNCHANGED <<clock, heard>>
  PROVE  Shaped' /\ Ordered'
<1> DEFINE calls == Head(effects[w])
           left1(l) == [calls EXCEPT !.close = @ \ {l}]
<1>1. /\ IsCalls(calls) /\ Numbered(effects[w], clock[w])
      /\ \A e \in Labels : GoesOn(effects[e], clock[e], effects[e], clock[e])
                           /\ GoesOn(effects[e], clock[e], <<>>, clock[e])
  BY HeadCalls, SameGoesOn, EmptyGoesOn DEF Ordered
<1>2. \A l : IsCalls(left1(l)) /\ left1(l).emit = calls.emit
  BY <1>1, CallsLeft
<1> HIDE DEF left1
<1>3. \A l : GoesOn(effects[w], clock[w], AfterCall(w, left1(l)), clock[w])
  BY <1>1, <1>2, AfterCallGoesOn
<1>4. PICK l \in calls.close :
        \/ /\ Exists(l)
           /\ Drop({l}, "off")
           /\ effects' = [effects EXCEPT ![w] = AfterCall(w, left1(l)), ![l] = <<>>]
        \/ /\ ~Exists(l)
           /\ effects' = [effects EXCEPT ![w] = AfterCall(w, left1(l))]
           /\ UNCHANGED <<phase, store, boot, inbox, reloads, replies>>
  BY DEF CloseCall, left1
<1>5. \A e \in Labels : GoesOn(effects[e], clock[e], effects'[e], clock'[e])
  BY <1>1, <1>3, <1>4 DEF Shaped
<1>6. \A u \in Labels : Accepts(inbox[u], inbox'[u])
  BY <1>4, DropFacts DEF Accepts
<1>7. Shaped'
  <2>1. DOMAIN effects' = Labels
    BY <1>4 DEF Shaped
  <2>2. CASE UNCHANGED <<phase, store, boot, inbox>>
    BY <2>1, <2>2 DEF Shaped
  <2>3. CASE Drop({l}, "off")
    BY <2>1, <2>3, DropFacts, NoBootFacts DEF Shaped
  <2> QED
    BY <1>4, <2>2, <2>3
<1> QED
  BY <1>5, <1>6, <1>7, OrderedKept

LEMMA CreateOrdered ==
  ASSUME Shaped, Ordered, NEW w \in Labels, effects[w] # <<>>,
         CreateCall(w, Head(effects[w])) \/ CurrentCall(w, Head(effects[w])),
         UNCHANGED <<clock, heard>>
  PROVE  Shaped' /\ Ordered'
<1> DEFINE calls == Head(effects[w])
<1>1. /\ IsCalls(calls) /\ Numbered(effects[w], clock[w])
      /\ \A e \in Labels : GoesOn(effects[e], clock[e], effects[e], clock[e])
  BY HeadCalls, SameGoesOn DEF Ordered
<1>2. PICK c : /\ IsCalls(c) /\ c.emit = calls.emit
               /\ effects' = [effects EXCEPT ![w] = AfterCall(w, c)]
  <2>1. CASE CreateCall(w, calls)
    BY <1>1, <2>1, CallsLeft DEF CreateCall
  <2>2. CASE CurrentCall(w, calls)
    <3> DEFINE c == [calls EXCEPT !.current = FALSE]
    <3>1. IsCalls(c) /\ c.emit = calls.emit
      BY <1>1, CurrentLeft
    <3>2. effects' = [effects EXCEPT ![w] = AfterCall(w, c)]
      BY <2>2 DEF CurrentCall
    <3> QED
      BY <3>1, <3>2
  <2> QED
    BY <2>1, <2>2
<1>3. GoesOn(effects[w], clock[w], AfterCall(w, c), clock[w])
  BY <1>1, <1>2, AfterCallGoesOn
<1>4. \A e \in Labels : GoesOn(effects[e], clock[e], effects'[e], clock'[e])
  BY <1>1, <1>2, <1>3 DEF Shaped
<1>5. DOMAIN phase' = Labels /\ UNCHANGED <<store, boot, inbox>>
  BY DEF CreateCall, CurrentCall, Shaped
<1>6. Shaped'
  BY <1>2, <1>5 DEF Shaped
<1>7. \A u \in Labels : Accepts(inbox[u], inbox'[u])
  BY <1>5 DEF Accepts
<1> QED
  BY <1>4, <1>6, <1>7, OrderedKept

LEMMA EncodeFacts ==
  ASSUME NEW a, Typed(a), "n" \in DOMAIN a
  PROVE  Typed(encode(a)) /\ encode(a).n = a.n
<1>1. CASE encode(a) = a
  BY <1>1
<1>2. CASE "label" \in DOMAIN a /\ a.label = NoLabel /\ encode(a) = Del(a, "label")
  <2>1. /\ DOMAIN encode(a) = DOMAIN a \ {"label"}
        /\ \A f \in DOMAIN a : f # "label" => encode(a)[f] = a[f]
    BY <1>2 DEF Del
  <2> QED
    BY <1>2, <2>1, LabelsFacts DEF Typed
<1> QED
  BY <1>1, <1>2 DEF encode

LEMMA BroadcastFacts ==
  ASSUME NEW box, NEW ev, NEW w \in Labels
  PROVE  /\ DOMAIN Broadcast(box, ev) = Labels
         /\ Broadcast(box, ev)[w] = box[w] \/ Broadcast(box, ev)[w] = Append(box[w], ev)
BY DEF Broadcast

LEMMA EmitOrdered ==
  ASSUME Shaped, Ordered, NEW w \in Labels, effects[w] # <<>>,
         EmitCall(w, Head(effects[w])), UNCHANGED <<clock, heard>>
  PROVE  Shaped' /\ Ordered'
<1> DEFINE calls == Head(effects[w])
           ev(a) == [kind |-> "action", emitter |-> w, action |-> encode(a)]
<1>1. PICK a \in calls.emit :
        /\ inbox' = Broadcast(inbox, ev(a))
        /\ effects' = [effects EXCEPT ![w] = Tail(@)]
        /\ UNCHANGED <<phase, store, boot, reloads, replies>>
  BY DEF EmitCall
<1>2. /\ Numbered(effects[w], clock[w]) /\ a \in effects[w][1].emit /\ 1 \in DOMAIN effects[w]
      /\ \A e \in Labels : GoesOn(effects[e], clock[e], effects[e], clock[e])
  BY HeadCalls, SameGoesOn DEF Ordered
<1>3. ev(a).kind = "action" /\ ev(a).emitter = w /\ ev(a).action.n = a.n
      /\ Typed(ev(a).action)
  BY <1>2, EncodeFacts DEF Numbered
<1> HIDE DEF ev
<1>4. effects'[w] = Tail(effects[w]) /\ \A e \in Labels \ {w} : effects'[e] = effects[e]
  BY <1>1 DEF Shaped
<1>5. \A e \in Labels : GoesOn(effects[e], clock[e], effects'[e], clock[e])
  BY <1>2, <1>4, TailGoesOn
<1>6. ASSUME NEW u \in Labels PROVE Hears(inbox'[u], heard[u], effects', clock)
  <2>1. Hears(inbox[u], heard[u], effects, clock)
    BY DEF Ordered
  <2>2. CASE inbox'[u] = inbox[u]
    BY <2>1, <2>2, <1>5, HearsOn DEF Ordered
  <2>3. CASE inbox'[u] = Append(inbox[u], ev(a))
    BY <2>1, <2>3, <1>2, <1>3, <1>4, HearsEmit
  <2> QED
    BY <1>1, <2>2, <2>3, BroadcastFacts
<1>7. Shaped'
  BY <1>1, BroadcastFacts, LabelsFacts DEF Shaped
<1>8. \A e \in Labels : Numbered(effects'[e], clock[e])
  BY <1>5 DEF GoesOn
<1> QED
  BY <1>6, <1>7, <1>8 DEF Ordered


LEMMA FailOrdered ==
  ASSUME Shaped, Ordered, NEW w \in Labels, FailCall(w)
  PROVE  Shaped' /\ Ordered'
<1> DEFINE loc == [Local(w) EXCEPT !.queue = Tail(@)]
           a == [type |-> "setWindowError", key |-> w]
           D == Dispatch(loc, w, a, FALSE)
<1>0. Typed(a)
  BY DEF Typed, Emitted
<1>1. Commit(w, D) /\ effects[w] # <<>> /\ UNCHANGED <<phase, boot, inbox, heard>>
  BY DEF FailCall
<1>2. IsLocal(loc) /\ loc.queue = Tail(effects[w]) /\ loc.clock = clock[w]
  BY CallLeft
<1>3. Numbered(effects[w], clock[w])
  BY DEF Ordered
<1>4. GoesOn(effects[w], clock[w], Tail(effects[w]), clock[w])
  BY <1>1, <1>3, TailGoesOn
<1> HIDE DEF loc, a
<1>5. GoesOn(Tail(effects[w]), clock[w], D.queue, D.clock)
  BY <1>0, <1>2, <1>4, DispatchGoesOn DEF GoesOn
<1> HIDE DEF D
<1>6. GoesOn(effects[w], clock[w], D.queue, D.clock)
  BY <1>3, <1>4, <1>5, GoesOnAgain DEF Numbered
<1>7. \A e \in Labels : GoesOn(effects[e], clock[e], effects'[e], clock'[e])
  BY <1>1, <1>6, CommitOrdered
<1>8. Shaped'
  BY <1>1, CommitFacts DEF Shaped
<1>9. \A u \in Labels : Accepts(inbox[u], inbox'[u])
  BY <1>1 DEF Accepts
<1> QED
  BY <1>1, <1>7, <1>8, <1>9, OrderedKept

(* A dispatch of the window itself.                                        *)
LEMMA DispatchOrdered ==
  ASSUME Shaped, Ordered, NEW w \in Labels, NEW a, Typed(a),
         Commit(w, Dispatch(Local(w), w, a, FALSE)), UNCHANGED <<phase, boot, inbox, heard>>
  PROVE  Shaped' /\ Ordered'
<1> DEFINE D == Dispatch(Local(w), w, a, FALSE)
<1>1. Numbered(effects[w], clock[w])
  BY DEF Ordered
<1>2. GoesOn(effects[w], clock[w], D.queue, D.clock)
  BY <1>1, LocalFacts, DispatchGoesOn
<1> HIDE DEF D
<1>3. Commit(w, D)
  BY DEF D
<1>4. \A e \in Labels : GoesOn(effects[e], clock[e], effects'[e], clock'[e])
  BY <1>2, <1>3, CommitOrdered
<1>5. Shaped'
  BY <1>3, CommitFacts DEF Shaped
<1>6. \A u \in Labels : Accepts(inbox[u], inbox'[u])
  BY DEF Accepts
<1> QED
  BY <1>4, <1>5, <1>6, OrderedKept

LEMMA UserTyped == ASSUME NEW a \in UserActions PROVE Typed(a)
<1>1. "type" \in DOMAIN a /\ a.type \in Dispatchable \cap UserTypes
  BY DEF UserActions, UserTypes
<1> QED
  BY <1>1 DEF Typed, Emitted, UserTypes

(* The three dispatches at the end of configureStore.                      *)
Props(w) == [type |-> "runtimeSetWindowProps", label |-> w, visible |-> IsVisible(w)]
Reported(w) == IF w \in boot[w].seen THEN Dispatch(Local(w), w, Props(w), FALSE) ELSE Local(w)
Labelled(w) == Dispatch(Reported(w), w, [type |-> "internalSetInitial", label |-> w], FALSE)
Configured(w) == Dispatch(Labelled(w), w, [type |-> "setWindowStage", stage |-> "created"], FALSE)

LEMMA FinishFacts ==
  ASSUME NEW w, FinishConfigure(w)
  PROVE  /\ phase[w] = "syncing" /\ boot[w].close = {} /\ boot[w].create = {}
         /\ Commit(w, Configured(w))
         /\ phase' = [phase EXCEPT ![w] = "up"] /\ boot' = [boot EXCEPT ![w] = NoBoot]
         /\ UNCHANGED <<inbox, replies, persisted, heard, left>>
BY DEF FinishConfigure, Configured, Labelled, Reported, Props

LEMMA FinishTyped ==
  ASSUME NEW w \in Labels
  PROVE  /\ Typed(Props(w)) /\ Typed([type |-> "setWindowStage", stage |-> "created"])
         /\ [type |-> "internalSetInitial", label |-> w].type \in EXCLUDED_ACTIONS
BY DEF Typed, Emitted, Props, EXCLUDED_ACTIONS

LEMMA FinishOrdered ==
  ASSUME Shaped, Ordered, NEW w \in Labels, FinishConfigure(w)
  PROVE  Shaped' /\ Ordered'
<1>0. Numbered(effects[w], clock[w]) /\ clock[w] \in Nat
  BY DEF Ordered, Numbered
<1>1. IsLocal(Reported(w)) /\ GoesOn(effects[w], clock[w], Reported(w).queue, Reported(w).clock)
  BY <1>0, LocalFacts, DispatchGoesOn, SameGoesOn, FinishTyped DEF Reported
<1>2. /\ IsLocal(Labelled(w))
      /\ GoesOn(Reported(w).queue, Reported(w).clock, Labelled(w).queue, Labelled(w).clock)
  BY <1>1, DispatchGoesOn, FinishTyped DEF Labelled, GoesOn
<1>3. GoesOn(Labelled(w).queue, Labelled(w).clock, Configured(w).queue, Configured(w).clock)
  BY <1>2, DispatchGoesOn, FinishTyped DEF Configured, GoesOn
<1>4. GoesOn(effects[w], clock[w], Labelled(w).queue, Labelled(w).clock)
  BY <1>0, <1>1, <1>2, GoesOnAgain
<1>5. GoesOn(effects[w], clock[w], Configured(w).queue, Configured(w).clock)
  BY <1>0, <1>3, <1>4, GoesOnAgain
<1>6. \A e \in Labels : GoesOn(effects[e], clock[e], effects'[e], clock'[e])
  BY <1>5, FinishFacts, CommitOrdered
<1>7. Shaped'
  <2>1. /\ DOMAIN store' = Labels /\ DOMAIN effects' = Labels /\ DOMAIN clock' = Labels
    BY FinishFacts, CommitFacts
  <2>2. DOMAIN phase' = Labels /\ DOMAIN boot' = Labels /\ UNCHANGED <<inbox, heard>>
        /\ \A u \in Labels : boot'[u] = boot[u] \/ boot'[u] = NoBoot
    BY FinishFacts DEF Shaped
  <2> QED
    BY <2>1, <2>2, NoBootFacts DEF Shaped
<1>8. \A u \in Labels : Accepts(inbox[u], inbox'[u])
  BY FinishFacts DEF Accepts
<1> QED
  BY <1>6, <1>7, <1>8, FinishFacts, OrderedKept

LEMMA ReceiveOrdered ==
  ASSUME Shaped, Ordered, NEW w \in Labels, ReceiveAction(w), HasStore(w)
  PROVE  Shaped' /\ Ordered'
<1> DEFINE ev == Head(inbox[w])
           D == Dispatch(Local(w), w, ev.action, TRUE)
<1>1. /\ inbox[w] # <<>> /\ ev.kind = "action" /\ Commit(w, D)
      /\ heard' = IF ev.emitter = Whitelist THEN heard
                  ELSE [heard EXCEPT ![w][ev.emitter] = ev.action.n]
      /\ inbox' = [inbox EXCEPT ![w] = Tail(@)]
      /\ UNCHANGED <<phase, boot>>
  BY DEF ReceiveAction, Ignore
<1>2. /\ Numbered(effects[w], clock[w]) /\ Hears(inbox[w], heard[w], effects, clock)
  BY DEF Ordered
<1>4. Typed(ev.action) /\ ev.emitter \in Labels \cup {Whitelist}
  BY <1>1, <1>2, TailFacts DEF Hears
<1>3. GoesOn(effects[w], clock[w], D.queue, D.clock)
  BY <1>2, <1>4, LocalFacts, DispatchGoesOn
<1> HIDE DEF D, ev
<1>5. \A e \in Labels : GoesOn(effects[e], clock[e], effects'[e], clock'[e])
  BY <1>1, <1>3, CommitOrdered
<1>6. Hears(Tail(inbox[w]), heard'[w], effects, clock)
  <2>1. CASE ev.emitter = Whitelist
    BY <1>1, <1>2, <2>1, HearsTail
  <2>2. CASE ev.emitter \in Labels
    <3>1. heard'[w] = [heard[w] EXCEPT ![ev.emitter] = ev.action.n]
      BY <1>1, <2>2, LabelsFacts DEF Shaped
    <3>2. DOMAIN heard[w] = Labels
      BY DEF Shaped
    <3> QED
      BY <1>1, <1>2, <2>2, <3>1, <3>2, HearsAction DEF ev
  <2> QED
    BY <1>4, <2>1, <2>2
<1>7. \A u \in Labels \ {w} : heard'[u] = heard[u] /\ inbox'[u] = inbox[u]
  BY <1>1 DEF Shaped
<1>8. inbox'[w] = Tail(inbox[w])
  BY <1>1 DEF Shaped
<1>9. \A u \in Labels : Hears(inbox'[u], heard'[u], effects, clock)
  BY <1>6, <1>7, <1>8 DEF Ordered
<1>10. \A u \in Labels : Hears(inbox'[u], heard'[u], effects', clock')
  BY <1>5, <1>9, HearsOn DEF Ordered
<1>11. \A e \in Labels : Numbered(effects'[e], clock'[e])
  BY <1>5 DEF GoesOn
<1>12. Shaped'
  <2>1. /\ DOMAIN store' = Labels /\ DOMAIN effects' = Labels /\ DOMAIN clock' = Labels
    BY <1>1, CommitFacts
  <2>2. DOMAIN inbox' = Labels /\ DOMAIN heard' = Labels /\ \A u \in Labels : DOMAIN heard'[u] = Labels
    BY <1>1, <1>4 DEF Shaped
  <2> QED
    BY <1>1, <2>1, <2>2 DEF Shaped
<1> QED
  BY <1>10, <1>11, <1>12 DEF Ordered


LEMMA OpenFacts ==
  ASSUME Shaped, NEW w \in Labels, NEW s, OpenStore(w, s)
  PROVE  /\ DOMAIN phase' = Labels /\ DOMAIN store' = Labels /\ DOMAIN boot' = Labels
         /\ phase'[w] = "listing" /\ store'[w] = s
         /\ boot'[w].seen = DOMAIN s.windows /\ boot'[w].close = boot[w].close
         /\ boot'[w].create = boot[w].create /\ DOMAIN boot'[w] = DOMAIN boot[w]
         /\ \A u \in Labels \ {w} : /\ phase'[u] = phase[u] /\ store'[u] = store[u]
                                    /\ boot'[u] = boot[u]
BY DEF OpenStore, Shaped

LEMMA CloseExtraFacts ==
  ASSUME Shaped, NEW w \in Labels, NEW l, CloseExtra(w, l)
  PROVE  /\ DOMAIN phase' = Labels /\ DOMAIN store' = Labels /\ DOMAIN boot' = Labels
         /\ DOMAIN inbox' = Labels /\ DOMAIN effects' = Labels
         /\ \A u \in Labels : DOMAIN boot'[u] = {"seen", "close", "create"}
         /\ l \in Labels => /\ phase'[l] = "off" /\ store'[l] = ZERO_SLICE_STATE
                            /\ inbox'[l] = <<>> /\ effects'[l] = <<>> /\ boot'[l] = NoBoot
         /\ \A u \in Labels \ {l} :
              /\ phase'[u] = phase[u] /\ store'[u] = store[u]
              /\ inbox'[u] = inbox[u] /\ effects'[u] = effects[u]
              /\ boot'[u].close \subseteq boot[u].close
              /\ boot'[u].create = boot[u].create /\ boot'[u].seen = boot[u].seen
         /\ reloads' = reloads \ {l}
<1>1. \A u \in Labels :
        boot'[u] = IF u = l THEN NoBoot
                   ELSE IF u = w THEN [boot[w] EXCEPT !.close = @ \ {l}] ELSE boot[u]
  BY DEF CloseExtra, Shaped
<1> QED
  BY <1>1, NoBootFacts DEF CloseExtra, Shaped

LEMMA CreateMissingFacts ==
  ASSUME Shaped, NEW w \in Labels, NEW l, CreateMissing(w, l)
  PROVE  /\ DOMAIN phase' = Labels /\ DOMAIN boot' = Labels
         /\ \A u \in Labels : DOMAIN boot'[u] = {"seen", "close", "create"}
         /\ \A u \in Labels : phase'[u] = IF u = l /\ phase[u] = "off" THEN "booting" ELSE phase[u]
         /\ \A u \in Labels : /\ boot'[u].close = boot[u].close
                              /\ boot'[u].create \subseteq boot[u].create
                              /\ boot'[u].seen = boot[u].seen
         /\ UNCHANGED <<store, inbox, effects, reloads>>
BY DEF CreateMissing, Shaped


LEMMA NextOrdered == ASSUME Shaped, Ordered, [Next]_vars PROVE Shaped' /\ Ordered'
<1>1. ASSUME NEW w \in Labels, Subscribe(w) PROVE Shaped' /\ Ordered'
  <2>1. Shaped'
    BY <1>1 DEF Subscribe, Shaped
  <2>2. UNCHANGED <<effects, clock, heard>> /\ \A u \in Labels : Accepts(inbox[u], inbox'[u])
    BY <1>1 DEF Subscribe, Accepts
  <2> QED
    BY <2>1, <2>2, QuietOrdered
<1>2. ASSUME NEW w \in Labels, RequestState(w) PROVE Shaped' /\ Ordered'
  <2> DEFINE ev == [kind |-> "sendState", emitter |-> w]
  <2>1. Shaped'
    BY <1>2 DEF RequestState, Shaped
  <2>2. UNCHANGED <<effects, clock, heard>>
    BY <1>2 DEF RequestState
  <2>3. ev.kind # "action"
    OBVIOUS
  <2>4. inbox' = inbox \/ inbox' = [inbox EXCEPT ![Main] = Append(@, ev)]
    BY <1>2 DEF RequestState
  <2> HIDE DEF ev
  <2>5. \A u \in Labels : Accepts(inbox[u], inbox'[u])
    BY <2>3, <2>4 DEF Accepts, Shaped
  <2> QED
    BY <2>1, <2>2, <2>5, QuietOrdered
<1>3. ASSUME NEW w \in Labels, ListLabels(w) PROVE Shaped' /\ Ordered'
  <2>1. Shaped'
    BY <1>3 DEF ListLabels, Shaped
  <2>2. UNCHANGED <<effects, clock, heard>> /\ \A u \in Labels : Accepts(inbox[u], inbox'[u])
    BY <1>3 DEF ListLabels, Accepts
  <2> QED
    BY <2>1, <2>2, QuietOrdered
<1>4. ASSUME NEW w \in Labels, SyncInitialCall(w) PROVE Shaped' /\ Ordered'
  <2>1. UNCHANGED <<clock, heard>>
    BY <1>4 DEF SyncInitialCall
  <2>2. ASSUME NEW l, CloseExtra(w, l) PROVE Shaped' /\ Ordered'
    <3>1. \A u \in Labels : /\ inbox'[u] = inbox[u] \/ inbox'[u] = <<>>
                            /\ effects'[u] = effects[u] \/ effects'[u] = <<>>
      BY <2>2, CloseExtraFacts
    <3>2. Shaped'
      BY <2>1, <2>2, CloseExtraFacts DEF Shaped
    <3>3. \A u \in Labels : Accepts(inbox[u], inbox'[u])
      BY <3>1 DEF Accepts
    <3> QED
      BY <2>1, <3>1, <3>2, <3>3, CutOrdered, OrderedKept
  <2>3. ASSUME NEW l, CreateMissing(w, l) PROVE Shaped' /\ Ordered'
    <3>1. Shaped' /\ UNCHANGED <<effects, inbox>>
      BY <2>1, <2>3, CreateMissingFacts DEF Shaped
    <3>2. \A u \in Labels : Accepts(inbox[u], inbox'[u])
      BY <3>1 DEF Accepts
    <3> QED
      BY <2>1, <3>1, <3>2, QuietOrdered
  <2> QED
    BY <1>4, <2>2, <2>3 DEF SyncInitialCall
<1>5. ASSUME NEW w \in Labels, FinishConfigure(w) PROVE Shaped' /\ Ordered'
  BY <1>5, FinishOrdered
<1>6. ASSUME NEW w \in Labels, Ignore(w), inbox[w] # <<>> PROVE Shaped' /\ Ordered'
  <2>1. Shaped'
    BY <1>6 DEF Ignore, Shaped
  <2>2. UNCHANGED <<effects, clock, heard>> /\ \A u \in Labels : Accepts(inbox[u], inbox'[u])
    BY <1>6 DEF Ignore, Accepts, Shaped
  <2> QED
    BY <2>1, <2>2, QuietOrdered
<1>7. ASSUME NEW w \in Labels, ReceiveAction(w) PROVE Shaped' /\ Ordered'
  <2>1. CASE HasStore(w)
    BY <1>7, <2>1, ReceiveOrdered
  <2>2. CASE ~HasStore(w)
    <3>1. Ignore(w) /\ inbox[w] # <<>>
      BY <1>7, <2>2 DEF ReceiveAction
    <3> QED
      BY <3>1, <1>6
  <2> QED
    BY <2>1, <2>2
<1>8. ASSUME NEW w \in Labels, ReceiveState(w) PROVE Shaped' /\ Ordered'
  <2>1. CASE phase[w] # "waiting"
    <3>1. Ignore(w) /\ inbox[w] # <<>>
      BY <1>8, <2>1 DEF ReceiveState
    <3> QED
      BY <3>1, <1>6
  <2>2. CASE phase[w] = "waiting"
    <3>1. /\ OpenStore(w, Head(inbox[w]).state) /\ inbox[w] # <<>>
          /\ inbox' = [inbox EXCEPT ![w] = Tail(@)] /\ UNCHANGED <<effects, clock, heard>>
      BY <1>8, <2>2 DEF ReceiveState
    <3>2. Shaped'
      BY <3>1, OpenFacts DEF Shaped
    <3>3. \A u \in Labels : Accepts(inbox[u], inbox'[u])
      BY <3>1 DEF Accepts, Shaped
    <3> QED
      BY <3>1, <3>2, <3>3, QuietOrdered
  <2> QED
    BY <2>1, <2>2
<1>9. ASSUME NEW w \in Labels, RunCall(w) PROVE Shaped' /\ Ordered'
  <2>1. /\ effects[w] # <<>> /\ UNCHANGED <<clock, heard>>
        /\ \/ CloseCall(w, Head(effects[w])) \/ CreateCall(w, Head(effects[w]))
           \/ CurrentCall(w, Head(effects[w])) \/ EmitCall(w, Head(effects[w]))
    BY <1>9 DEF RunCall
  <2> QED
    BY <2>1, CloseOrdered, CreateOrdered, EmitOrdered
<1>10. ASSUME LoadPreloadedState PROVE Shaped' /\ Ordered'
  <2>1. PICK s : OpenStore(Main, s) /\ UNCHANGED <<effects, inbox, clock, heard>>
    BY <1>10 DEF LoadPreloadedState
  <2>2. Shaped'
    BY <2>1, OpenFacts, LabelsFacts DEF Shaped
  <2>3. \A u \in Labels : Accepts(inbox[u], inbox'[u])
    BY <2>1 DEF Accepts
  <2> QED
    BY <2>1, <2>2, <2>3, QuietOrdered
<1>11. ASSUME ReceiveRequest PROVE Shaped' /\ Ordered'
  <2>1. CASE ~HasStore(Main)
    <3>1. Ignore(Main) /\ inbox[Main] # <<>>
      BY <1>11, <2>1 DEF ReceiveRequest
    <3> QED
      BY <3>1, <1>6, LabelsFacts
  <2>2. CASE HasStore(Main)
    <3>1. /\ inbox[Main] # <<>> /\ inbox' = [inbox EXCEPT ![Main] = Tail(@)]
          /\ UNCHANGED <<phase, store, boot, effects, clock, heard>>
      BY <1>11, <2>2 DEF ReceiveRequest
    <3>2. Shaped'
      BY <3>1 DEF Shaped
    <3>3. \A u \in Labels : Accepts(inbox[u], inbox'[u])
      BY <3>1 DEF Accepts, Shaped
    <3> QED
      BY <3>1, <3>2, <3>3, QuietOrdered
  <2> QED
    BY <2>1, <2>2
<1>12. ASSUME NEW r \in replies, SendReply(r) PROVE Shaped' /\ Ordered'
  <2> DEFINE ev == [kind |-> "state", emitter |-> Main, state |-> r.state]
  <2>1. Shaped' /\ UNCHANGED <<effects, clock, heard>>
    BY <1>12 DEF SendReply, Shaped
  <2>2. ev.kind # "action"
    OBVIOUS
  <2>3. inbox' = inbox \/ inbox' = [inbox EXCEPT ![r.to] = Append(@, ev)]
    BY <1>12 DEF SendReply
  <2> HIDE DEF ev
  <2>4. \A u \in Labels : Accepts(inbox[u], inbox'[u])
    BY <2>2, <2>3 DEF Accepts, Shaped
  <2> QED
    BY <2>1, <2>4, QuietOrdered
<1>13. ASSUME NEW w \in Labels, FailCall(w) PROVE Shaped' /\ Ordered'
  BY <1>13, FailOrdered
<1>14. ASSUME NEW w \in Labels, UserDispatch(w) PROVE Shaped' /\ Ordered'
  <2>1. PICK a \in UserActions :
          Commit(w, Dispatch(Local(w), w, a, FALSE)) /\ UNCHANGED <<phase, boot, inbox, heard>>
    BY <1>14 DEF UserDispatch
  <2> QED
    BY <2>1, UserTyped, DispatchOrdered
<1>15. ASSUME NEW w \in Labels, CloseRequested(w) PROVE Shaped' /\ Ordered'
  <2> DEFINE a == [type |-> "closeWindow"]
  <2>1. Commit(w, Dispatch(Local(w), w, a, FALSE)) /\ UNCHANGED <<phase, boot, inbox, heard>>
    BY <1>15 DEF CloseRequested
  <2>2. Typed(a)
    BY DEF Typed, Emitted
  <2> QED
    BY <2>1, <2>2, DispatchOrdered
<1>16. ASSUME NEW w \in Labels, WindowEvent(w) PROVE Shaped' /\ Ordered'
  <2> DEFINE ev == [kind |-> "action", emitter |-> Whitelist, action |-> Props(w)]
  <2>1. inbox' = Broadcast(inbox, ev) /\ UNCHANGED <<phase, store, boot, effects, clock, heard>>
    BY <1>16 DEF WindowEvent, Props
  <2>2. ev.emitter = Whitelist /\ Typed(ev.action)
    BY <1>16, FinishTyped
  <2> HIDE DEF ev
  <2>3. Shaped'
    BY <2>1, <1>16, BroadcastFacts DEF Shaped
  <2>4. \A u \in Labels : Accepts(inbox[u], inbox'[u])
    BY <2>1, <2>2, BroadcastFacts DEF Accepts
  <2> QED
    BY <2>1, <2>3, <2>4, QuietOrdered
<1>17. ASSUME NEW w \in Labels, Reload(w) PROVE Shaped' /\ Ordered'
  <2>1. /\ Drop({w}, "booting") /\ effects' = [effects EXCEPT ![w] = <<>>]
        /\ UNCHANGED <<clock, heard>>
    BY <1>17 DEF Reload
  <2>2. Shaped'
    BY <2>1, DropFacts, NoBootFacts DEF Shaped
  <2>3. \A u \in Labels : Accepts(inbox[u], inbox'[u])
    BY <2>1, DropFacts DEF Accepts
  <2>4. \A e \in Labels : effects'[e] = effects[e] \/ effects'[e] = <<>>
    BY <2>1 DEF Shaped
  <2> QED
    BY <2>1, <2>2, <2>3, <2>4, CutOrdered, OrderedKept
<1>18. CASE UNCHANGED vars
  BY <1>18 DEF vars, Shaped, Ordered
<1>19. ASSUME NEW w \in Labels, Proceed(w) PROVE Shaped' /\ Ordered'
  BY <1>1, <1>2, <1>3, <1>4, <1>5, <1>7, <1>8, <1>9, <1>10, <1>11, <1>19 DEF Proceed
<1> QED
  BY <1>12, <1>13, <1>14, <1>15, <1>16, <1>17, <1>18, <1>19 DEF Next

(* ActionsInOrder: a window applies the actions of another in the order     *)
(* they were dispatched there and none twice, for any windows and actions: *)
(* the mutex of the emitter's middleware keeps them in order across the    *)
(* calls it makes before each emit, failing calls, reloads and windows     *)
(* that join or go meanwhile.                                              *)
THEOREM HeardInOrder == Spec => []ActionsInOrder
<1>1. Ordered => ActionsInOrder
  BY LabelsFacts DEF Ordered, Hears, ActionsInOrder
<1>2. Spec => [](Shaped /\ Ordered)
  BY InitOrdered, NextOrdered, PTL DEF Spec
<1> QED
  BY <1>1, <1>2, PTL



-----------------------------------------------------------------------------
(* Slices and their reducers.                                              *)

Reducible == Emitted \cup EXCLUDED_ACTIONS

LEMMA PutFacts ==
  ASSUME NEW f, NEW x, NEW v
  PROVE  /\ DOMAIN Put(f, x, v) = DOMAIN f \cup {x} /\ Put(f, x, v)[x] = v
         /\ \A y \in DOMAIN f : y # x => Put(f, x, v)[y] = f[y]
BY DEF Put

LEMMA DelFacts ==
  ASSUME NEW f, NEW x
  PROVE  /\ DOMAIN Del(f, x) = DOMAIN f \ {x}
         /\ \A y \in DOMAIN f : y # x => Del(f, x)[y] = f[y]
BY DEF Del

IsSlice(s) == DOMAIN s = {"label", "windows", "order", "labelKeys", "keyLabels"}

LEMMA SetWindowFacts ==
  ASSUME NEW s, IsSlice(s), NEW l, NEW win
  PROVE  LET t == SetWindow(s, l, win) IN
         /\ IsSlice(t) /\ t.label = s.label
         /\ t.labelKeys = s.labelKeys /\ t.keyLabels = s.keyLabels
         /\ t.windows = Put(s.windows, l, win)
BY DEF SetWindow, IsSlice

LEMMA DeleteWindowFacts ==
  ASSUME NEW s, IsSlice(s), NEW l
  PROVE  LET t == DeleteWindow(s, l) IN
         /\ IsSlice(t) /\ t.label = s.label
         /\ t.windows = Del(s.windows, l) /\ t.labelKeys = Del(s.labelKeys, l)
         /\ t.keyLabels = Del(s.keyLabels, s.windows[l].key)
BY DEF DeleteWindow, IsSlice

(* A property of one window is assigned.                                   *)
Assigned(s, t, l) ==
  /\ IsSlice(t) /\ t.label = s.label
  /\ t.labelKeys = s.labelKeys /\ t.keyLabels = s.keyLabels
  /\ DOMAIN t.windows = DOMAIN s.windows
  /\ \A k \in DOMAIN s.windows \ {l} : t.windows[k] = s.windows[k]
  /\ l \in DOMAIN s.windows =>
       /\ DOMAIN t.windows[l] = DOMAIN s.windows[l]
       /\ \A f \in {"key", "reserved"} : t.windows[l][f] = s.windows[l][f]

LEMMA AssignedFacts ==
  ASSUME NEW s, IsSlice(s), NEW l, NEW p, p \notin {"key", "reserved"}, NEW v
  PROVE  Assigned(s, [s EXCEPT !.windows[l][p] = v], l)
BY DEF Assigned, IsSlice

LEMMA AssignedSame == ASSUME NEW s, IsSlice(s), NEW l PROVE Assigned(s, s, l)
BY DEF Assigned

LEMMA AssignedAgain ==
  ASSUME NEW s, NEW t, NEW u, NEW l, Assigned(s, t, l), Assigned(t, u, l)
  PROVE  Assigned(s, u, l)
BY DEF Assigned

(* The reducers that need a window change nothing but that window, or      *)
(* delete it.                                                              *)
LEMMA ReduceWindowFacts ==
  ASSUME NEW s, IsSlice(s), NEW l \in DOMAIN s.windows, NEW a,
         a.type \in UserTypes \cup {"setWindowStage"},
         a.type \notin {"createWindow", "setWindowProps"}
  PROVE  LET t == reduceWindow(s, l, a) IN
         \/ Assigned(s, t, l)
         \/ /\ a.type \in {"closeWindow", "completeProcess"}
            /\ \E u : Assigned(s, u, l) /\ t = DeleteWindow(u, l)
<1>1. CASE a.type = "setWindowStage"
  BY <1>1, AssignedFacts DEF reduceWindow
<1>2. CASE a.type = "closeWindow"
  BY <1>2, AssignedSame DEF reduceWindow, reduceCloseWindow
<1>3. CASE a.type = "registerProcess"
  BY <1>3, AssignedFacts DEF reduceWindow
<1>4. CASE a.type = "completeProcess"
  <2> DEFINE u == [s EXCEPT !.windows[l].processCount = Add(@, -1)]
  <2>1. Assigned(s, u, l)
    BY AssignedFacts
  <2>2. reduceWindow(s, l, a) = u \/ reduceWindow(s, l, a) = DeleteWindow(u, l)
    BY <1>4 DEF reduceWindow, reduceCompleteProcess
  <2> HIDE DEF u
  <2> QED
    BY <1>4, <2>1, <2>2
<1>5. CASE a.type = "reloadWindow"
  BY <1>5, AssignedFacts, AssignedSame DEF reduceWindow
<1>6. CASE a.type = "focusWindow"
  <2> DEFINE u == [s EXCEPT !.windows[l].visible = "yes"]
             n == Add(s.windows[l].focusCount, 1)
  <2>1. Assigned(s, u, l)
    BY AssignedFacts
  <2>2. reduceWindow(s, l, a) = [u EXCEPT !.windows[l].focusCount = n]
    BY <1>6 DEF reduceWindow, IsSlice
  <2> HIDE DEF u, n
  <2>3. IsSlice(u)
    BY <2>1 DEF Assigned
  <2>4. Assigned(u, [u EXCEPT !.windows[l].focusCount = n], l)
    BY <2>3, AssignedFacts
  <2> QED
    BY <2>1, <2>2, <2>4, AssignedAgain
<1>7. CASE a.type = "setWindowVisible"
  BY <1>7, AssignedFacts DEF reduceWindow, assignBool
<1>8. CASE a.type = "setWindowAlwaysOnTop"
  BY <1>8, AssignedFacts DEF reduceWindow, assignBool
<1>9. CASE a.type = "setWindowTitle"
  BY <1>9, AssignedFacts DEF reduceWindow
<1> QED
  BY <1>1, <1>2, <1>3, <1>4, <1>5, <1>6, <1>7, <1>8, <1>9 DEF UserTypes

LEMMA CreateSlice ==
  ASSUME NEW s, IsSlice(s), NEW a
  PROVE  IsSlice(reduceCreateWindow(s, a))
<1> DEFINE l == IF available(s) = {} THEN a.label ELSE CHOOSE x \in available(s) : TRUE
           win == IF available(s) = {}
                  THEN [INITIAL_WINDOW_STATE EXCEPT !.reserved = TRUE, !.key = a.key,
                                                    !.title = a.title]
                  ELSE [s.windows[l] EXCEPT !.visible = "yes", !.reserved = TRUE,
                          !.focusCount = 1, !.key = a.key, !.title = a.title]
           t == [SetWindow(s, l, win) EXCEPT !.labelKeys = Put(@, l, a.key),
                                             !.keyLabels = Put(@, a.key, l)]
           e == s.keyLabels[a.key]
           shown == [s.windows[e] EXCEPT !.visible = "yes", !.focusCount = Add(@, 1)]
<1>1. reduceCreateWindow(s, a) \in {SetWindow(s, e, shown), t, AddPrerender(t, a.prerenderLabel)}
  BY DEF reduceCreateWindow
<1> HIDE DEF win, l, shown, e
<1>2. IsSlice(SetWindow(s, e, shown)) /\ IsSlice(SetWindow(s, l, win))
  BY SetWindowFacts
<1>3. IsSlice(t)
  BY <1>2 DEF IsSlice
<1> HIDE DEF t
<1>4. IsSlice(AddPrerender(t, a.prerenderLabel))
  BY <1>3, SetWindowFacts DEF AddPrerender
<1> QED
  BY <1>1, <1>2, <1>3, <1>4

(* A reducer that is not followed by sync removes no window.               *)
LEMMA ReducerSlice ==
  ASSUME NEW s, IsSlice(s), NEW a, a.type \in Reducible, NEW n
  PROVE  LET t == reducer(s, a, n) IN
         /\ IsSlice(t)
         /\ a.type \in EXCLUDE_SYNC_ACTIONS => DOMAIN s.windows \subseteq DOMAIN t.windows
         /\ a.type = "runtimeSetWindowProps" =>
               t.label = s.label /\ DOMAIN t.windows = DOMAIN s.windows \cup {LabelOf(s, a)}
<1> DEFINE l == LabelOf(s, a)
           t == reducer(s, a, n)
<1>1. CASE a.type = "internalSetInitial"
  <2> DEFINE u == [s EXCEPT !.label = l]
  <2>1. t = u \/ t = AddPrerender(u, n)
    BY <1>1 DEF reducer
  <2>2. IsSlice(u)
    BY DEF IsSlice
  <2> HIDE DEF u
  <2>3. IsSlice(AddPrerender(u, n))
    BY <2>2, SetWindowFacts DEF AddPrerender
  <2> QED
    BY <1>1, <2>1, <2>2, <2>3 DEF EXCLUDE_SYNC_ACTIONS
<1>2. CASE a.type = "createWindow"
  BY <1>2, CreateSlice DEF reducer, EXCLUDE_SYNC_ACTIONS
<1>3. CASE a.type \in {"setWindowProps", "runtimeSetWindowProps"}
  <2>1. PICK win : t = SetWindow(s, l, win)
    BY <1>3 DEF reducer, reduceSetWindowProps
  <2>2. IsSlice(t) /\ t.label = s.label /\ t.windows = Put(s.windows, l, win)
    BY <2>1, SetWindowFacts
  <2> HIDE DEF t, l
  <2>3. DOMAIN t.windows = DOMAIN s.windows \cup {l}
    BY <2>2 DEF Put
  <2> QED
    BY <2>2, <2>3 DEF t, l
<1>4. CASE a.type = "setWindowError"
  <2> DEFINE u == [s EXCEPT !.windows[a.key].error = TRUE]
  <2>1. t = s \/ t = u
    BY <1>4 DEF reducer
  <2>2. IsSlice(u)
    BY DEF IsSlice
  <2> QED
    BY <1>4, <2>1, <2>2 DEF EXCLUDE_SYNC_ACTIONS
<1>5. CASE a.type \notin {"internalSetInitial", "createWindow", "setWindowProps",
                          "runtimeSetWindowProps", "setWindowError"}
  <2>1. t = IF l \in DOMAIN s.windows THEN reduceWindow(s, l, a) ELSE s
    BY <1>5 DEF reducer
  <2>2. CASE l \notin DOMAIN s.windows
    BY <1>5, <2>1, <2>2
  <2>3. CASE l \in DOMAIN s.windows
    <3>1. a.type \in UserTypes \cup {"setWindowStage"}
      BY <1>5 DEF Reducible, Emitted, EXCLUDED_ACTIONS, UserTypes
    <3>2. \/ Assigned(s, t, l)
          \/ /\ a.type \in {"closeWindow", "completeProcess"}
             /\ \E u : Assigned(s, u, l) /\ t = DeleteWindow(u, l)
      BY <1>5, <2>1, <2>3, <3>1, ReduceWindowFacts
    <3> QED
      BY <1>5, <3>2, DeleteWindowFacts DEF Assigned, EXCLUDE_SYNC_ACTIONS
  <2> QED
    BY <2>2, <2>3
<1> QED
  BY <1>1, <1>2, <1>3, <1>4, <1>5


-----------------------------------------------------------------------------
(* The inductive invariant behind NoOrphanWindow.  A window that the main  *)
(* window's store no longer has, and that is there or about to be created, *)
(* is about to be closed, after that.                                      *)
Covered(s, q, present) ==
  \A l \in Labels \ {Main} :
    l \notin DOMAIN s.windows /\ (l \in present \/ \E i \in DOMAIN q : l \in q[i].create) =>
      \E j \in DOMAIN q : l \in q[j].close /\ \A i \in DOMAIN q : l \in q[i].create => i < j

LEMMA CoveredLess ==
  ASSUME NEW s, NEW q, NEW present, Covered(s, q, present), NEW less, less \subseteq present
  PROVE  Covered(s, q, less)
BY DEF Covered

LEMMA DispatchCovered ==
  ASSUME NEW loc, IsLocal(loc), IsSlice(loc.slice), IsSequence(loc.queue), NEW a,
         "type" \in DOMAIN a, a.type \in Reducible, NEW emitted \in BOOLEAN, NEW present,
         Covered(loc.slice, loc.queue, present)
  PROVE  LET D == Dispatch(loc, Main, a, emitted) IN
         IsSlice(D.slice) /\ IsSequence(D.queue) /\ Covered(D.slice, D.queue, present)
<1> DEFINE D == Dispatch(loc, Main, a, emitted)
           s == loc.slice
           b == assignLabel(s, a, loc.fresh)
           c == CallsOf(loc, Main, a, emitted)
           q == loc.queue
           t == reducer(s, b, loc.fresh)
<1>1. CASE D.slice = s /\ D.queue = q
  BY <1>1
<1>2. CASE D.slice = t /\ D.queue = Enqueue(q, c)
  <2>1. b.type = a.type
    BY AssignFacts
  <2>2. IsSlice(t) /\ (a.type \in EXCLUDE_SYNC_ACTIONS => DOMAIN s.windows \subseteq DOMAIN t.windows)
    BY <2>1, ReducerSlice
  <2>3. /\ DOMAIN s.windows \ DOMAIN t.windows \subseteq c.close
        /\ c.create \subseteq DOMAIN t.windows
    BY <2>2, CallsFacts
  <2> HIDE DEF s, b, c, q, t
  <2>4. CASE c = NoCalls
    <3>1. Enqueue(q, c) = q /\ c.close = {}
      BY <2>4 DEF Enqueue, NoCalls
    <3>2. Covered(t, q, present)
      BY <2>3, <3>1 DEF Covered, s, q
    <3> QED
      BY <1>2, <2>2, <3>1, <3>2 DEF q
  <2>5. CASE c # NoCalls
    <3> DEFINE r == Append(q, c)
    <3>1. Enqueue(q, c) = r
      BY <2>5 DEF Enqueue
    <3>2. /\ IsSequence(r) /\ DOMAIN r = 1 .. Len(q) + 1 /\ DOMAIN q = 1 .. Len(q)
          /\ Len(q) \in Nat /\ \A i \in DOMAIN q : r[i] = q[i]
          /\ r[Len(q) + 1] = c
      BY AppendFacts, SequenceFacts DEF q
    <3> HIDE DEF r
    <3>3. ASSUME NEW l \in Labels \ {Main}, l \notin DOMAIN t.windows,
                 l \in present \/ \E i \in DOMAIN r : l \in r[i].create
          PROVE  \E j \in DOMAIN r : l \in r[j].close /\ \A i \in DOMAIN r : l \in r[i].create => i < j
      <4>1. \A i \in DOMAIN r : l \in r[i].create => i \in DOMAIN q /\ l \in q[i].create
        BY <2>3, <3>2, <3>3
      <4>2. CASE l \in DOMAIN s.windows
        <5>1. l \in r[Len(q) + 1].close /\ Len(q) + 1 \in DOMAIN r
          BY <2>3, <3>2, <3>3, <4>2
        <5> QED
          BY <3>2, <4>1, <5>1
      <4>3. CASE l \notin DOMAIN s.windows
        <5>1. PICK j \in DOMAIN q : l \in q[j].close /\ \A i \in DOMAIN q : l \in q[i].create => i < j
          BY <3>3, <4>1, <4>3 DEF Covered, s, q
        <5> QED
          BY <3>2, <4>1, <5>1
      <4> QED
        BY <4>2, <4>3
    <3>4. Covered(t, r, present)
      BY <3>3 DEF Covered
    <3> QED
      BY <1>2, <2>2, <3>1, <3>2, <3>4
  <2> QED
    BY <2>4, <2>5
<1> QED
  BY <1>1, <1>2, DispatchFacts

(* A call of the first dispatch is made: the windows in gone are closed,   *)
(* or one of those to create is there; what is left of it is c, or it is   *)
(* done or given up.                                                       *)
MakesCall(q, present, c, gone, r, now) ==
  /\ IsSequence(q) /\ q # <<>>
  /\ now \subseteq present \cup q[1].create /\ gone \cap now = {}
  /\ q[1].close \ gone \subseteq c.close /\ c.create \subseteq q[1].create
  /\ r = [q EXCEPT ![1] = c] \/ (r = Tail(q) /\ c.close = {})

LEMMA CallCovered ==
  ASSUME NEW s, NEW q, NEW present, Covered(s, q, present),
         NEW c, NEW gone, NEW r, NEW now, MakesCall(q, present, c, gone, r, now)
  PROVE  IsSequence(r) /\ Covered(s, r, now)
<1> USE DEF MakesCall
<1>1. /\ Len(q) \in Nat /\ DOMAIN q = 1 .. Len(q) /\ 1 \in DOMAIN q
  BY SequenceFacts, TailFacts
<1>2. CASE r = [q EXCEPT ![1] = c]
  <2>1. /\ IsSequence(r) /\ DOMAIN r = DOMAIN q /\ r[1] = c
        /\ \A i \in DOMAIN q : i # 1 => r[i] = q[i]
    BY <1>2, FirstFacts
  <2>2. ASSUME NEW l \in Labels \ {Main}, l \notin DOMAIN s.windows,
               l \in now \/ \E i \in DOMAIN r : l \in r[i].create
        PROVE  \E j \in DOMAIN r : l \in r[j].close /\ \A i \in DOMAIN r : l \in r[i].create => i < j
    <3>1. \A i \in DOMAIN r : l \in r[i].create => l \in q[i].create
      BY <2>1
    <3>2. l \in present \/ \E i \in DOMAIN q : l \in q[i].create
      BY <1>1, <2>1, <2>2, <3>1
    <3>3. PICK j \in DOMAIN q : l \in q[j].close /\ \A i \in DOMAIN q : l \in q[i].create => i < j
      BY <2>2, <3>2 DEF Covered
    <3>4. j = 1 => l \notin gone
      <4>1. j = 1 => \A i \in DOMAIN q : l \notin q[i].create
        BY <1>1, <3>3
      <4> QED
        BY <2>1, <2>2, <3>1, <4>1
    <3> QED
      BY <1>1, <2>1, <3>1, <3>3, <3>4
  <2> QED
    BY <2>1, <2>2 DEF Covered
<1>3. CASE r = Tail(q) /\ c.close = {}
  <2>1. /\ IsSequence(r) /\ DOMAIN r = 1 .. Len(q) - 1
        /\ \A i \in DOMAIN r : i \in Int /\ r[i] = q[i + 1] /\ i + 1 \in DOMAIN q
    BY <1>1, <1>3, TailFacts
  <2>2. ASSUME NEW l \in Labels \ {Main}, l \notin DOMAIN s.windows,
               l \in now \/ \E i \in DOMAIN r : l \in r[i].create
        PROVE  \E j \in DOMAIN r : l \in r[j].close /\ \A i \in DOMAIN r : l \in r[i].create => i < j
    <3>1. \A i \in DOMAIN r : l \in r[i].create => i + 1 \in DOMAIN q /\ l \in q[i + 1].create
      BY <2>1
    <3>2. l \in present \/ \E i \in DOMAIN q : l \in q[i].create
      BY <1>1, <2>1, <2>2, <3>1
    <3>3. PICK j \in DOMAIN q : l \in q[j].close /\ \A i \in DOMAIN q : l \in q[i].create => i < j
      BY <2>2, <3>2 DEF Covered
    <3>4. j # 1
      <4>1. SUFFICES ASSUME j = 1 PROVE FALSE
        OBVIOUS
      <4>2. l \in gone
        BY <1>3, <3>3, <4>1
      <4>4. \A i \in DOMAIN q : l \notin q[i].create
        BY <1>1, <3>3, <4>1
      <4>3. \A i \in DOMAIN r : l \notin r[i].create
        BY <3>1, <4>4
      <4> QED
        BY <2>2, <3>3, <4>2, <4>3, <4>4
    <3>5. j - 1 \in DOMAIN r /\ r[j - 1] = q[j] /\ j \in Int
      <4>1. j \in Int /\ 1 <= j - 1 /\ j - 1 <= Len(q) - 1
        BY <1>1, <3>4
      <4>2. j - 1 \in 1 .. Len(q) - 1 /\ (j - 1) + 1 = j
        BY <1>1, <4>1
      <4>3. r[j - 1] = q[(j - 1) + 1]
        BY <2>1, <4>2
      <4> QED
        BY <4>1, <4>2, <4>3
    <3>6. \A i \in DOMAIN r : l \in r[i].create => i < j - 1
      BY <2>1, <3>1, <3>3, <3>5
    <3> QED
      BY <3>3, <3>5, <3>6
  <2> QED
    BY <2>1, <2>2 DEF Covered
<1> QED
  BY <1>2, <1>3

Idle(q) == \A i \in DOMAIN q : q[i].close = {} /\ q[i].create = {}
Present == {l \in Labels : phase[l] # "off"}
Early == {"booting", "subscribed", "listing", "syncing"}

(* Only the main window creates and closes windows, and never itself by    *)
(* syncInitial; what is gone has nothing left to do.                       *)
Settled ==
  /\ IsSlice(store[Main])
  /\ \A w \in Labels : Main \notin boot[w].close
  /\ \A w \in Labels : phase[w] = "off" => effects[w] = <<>> /\ w \notin reloads
  /\ \A w \in Labels \ {Main} : boot[w].create = {} /\ Idle(effects[w])

(* Until the main window is up there is no other, and it hears of nothing  *)
(* but its own properties.                                                 *)
Beginning ==
  /\ \A w \in Labels \ {Main} : phase[w] = "off"
  /\ effects[Main] = <<>> /\ Main \notin reloads /\ replies = {}
  /\ boot[Main].close = {} /\ boot[Main].create = {}
  /\ HasStore(Main) => DOMAIN store[Main].windows = {Main} /\ boot[Main].seen \subseteq {Main}
  /\ \A i \in DOMAIN inbox[Main] :
       LET ev == inbox[Main][i] IN
       ev.kind = "action" /\ ev.action.type = "runtimeSetWindowProps" /\ ev.action.label = Main

Later ==
  /\ Settled /\ phase[Main] \in {"up", "off"}
  /\ phase[Main] = "up" => Covered(store[Main], effects[Main], Present)

LEMMA DispatchIdle ==
  ASSUME NEW loc, IsLocal(loc), IsSequence(loc.queue), Idle(loc.queue), NEW w, w # Main,
         NEW a, NEW emitted \in BOOLEAN
  PROVE  LET D == Dispatch(loc, w, a, emitted) IN
         IsLocal(D) /\ IsSequence(D.queue) /\ Idle(D.queue)
<1> DEFINE D == Dispatch(loc, w, a, emitted)
           c == CallsOf(loc, w, a, emitted)
           q == loc.queue
<1>1. IsLocal(D)
  BY DispatchFacts
<1>2. CASE D.queue = q
  BY <1>1, <1>2
<1>3. CASE D.queue = Enqueue(q, c)
  <2>1. c.close = {} /\ c.create = {}
    BY CallsFacts
  <2> HIDE DEF c
  <2>2. D.queue = q \/ D.queue = Append(q, c)
    BY <1>3 DEF Enqueue
  <2>3. /\ IsSequence(Append(q, c)) /\ DOMAIN Append(q, c) = 1 .. Len(q) + 1
        /\ DOMAIN q = 1 .. Len(q) /\ Len(q) \in Nat
        /\ \A i \in DOMAIN q : Append(q, c)[i] = q[i]
        /\ Append(q, c)[Len(q) + 1] = c
    BY AppendFacts, SequenceFacts
  <2>4. Idle(Append(q, c))
    BY <2>1, <2>3 DEF Idle
  <2> QED
    BY <1>1, <2>2, <2>3, <2>4
<1> QED
  BY <1>2, <1>3, DispatchFacts

LEMMA QueueIsSequence ==
  ASSUME Ordered, NEW w \in Labels
  PROVE  IsSequence(effects[w]) /\ IsSequence(inbox[w])
BY DEF Ordered, Numbered, Hears

LEMMA TypedReducible ==
  ASSUME NEW a, Typed(a) PROVE "type" \in DOMAIN a /\ a.type \in Reducible
BY DEF Typed, Reducible

LEMMA ZeroSlice == IsSlice(ZERO_SLICE_STATE) /\ DOMAIN ZERO_SLICE_STATE.windows = {Main}
BY DEF ZERO_SLICE_STATE, IsSlice

(* A window that is there has dispatched something.                        *)
LEMMA SettledCommit ==
  ASSUME Shaped, Settled, NEW w \in Labels, NEW D, Commit(w, D),
         \A u \in Labels : phase'[u] = "off" => phase[u] = "off" /\ u # w,
         \A u \in Labels : boot'[u] = boot[u] \/ boot'[u] = NoBoot,
         w # Main => Idle(D.queue), w = Main => IsSlice(D.slice)
  PROVE  Settled'
<1>1. IsSlice(store'[Main])
  BY CommitFacts, LabelsFacts DEF Settled
<1>2. \A u \in Labels : Main \notin boot'[u].close
  BY NoBootFacts DEF Settled
<1>3. \A u \in Labels : phase'[u] = "off" => effects'[u] = <<>> /\ u \notin reloads'
  BY CommitFacts DEF Settled
<1>4. \A u \in Labels \ {Main} : boot'[u].create = {} /\ Idle(effects'[u])
  BY CommitFacts, NoBootFacts DEF Settled
<1> QED
  BY <1>1, <1>2, <1>3, <1>4 DEF Settled

(* Nothing of the main window changes, and no window comes.                *)
LEMMA LaterAside ==
  ASSUME Later, Settled', phase'[Main] = phase[Main], store'[Main] = store[Main],
         effects'[Main] = effects[Main], \A u \in Labels : phase[u] = "off" => phase'[u] = "off"
  PROVE  Later'
<1>1. Present' \subseteq Present
  BY DEF Present
<1>2. phase'[Main] = "up" => Covered(store'[Main], effects'[Main], Present')
  BY <1>1, CoveredLess DEF Later
<1> QED
  BY <1>2 DEF Later

LEMMA LaterDispatch ==
  ASSUME Shaped, Later, NEW w \in Labels, phase[w] # "off", NEW loc, IsLocal(loc),
         loc.slice = store[w], IsSequence(loc.queue), w # Main => Idle(loc.queue),
         w = Main => Covered(loc.slice, loc.queue, Present), NEW a, Typed(a),
         NEW emitted \in BOOLEAN, Commit(w, Dispatch(loc, w, a, emitted)),
         UNCHANGED <<phase, boot>>
  PROVE  Later'
<1> DEFINE D == Dispatch(loc, w, a, emitted)
<1>1. CASE w # Main
  <2>1. Idle(D.queue)
    BY <1>1, DispatchIdle
  <2> HIDE DEF D
  <2>2. Commit(w, D)
    BY DEF D
  <2>3. Settled'
    BY <1>1, <2>1, <2>2, SettledCommit DEF Later
  <2>4. store'[Main] = store[Main] /\ effects'[Main] = effects[Main]
    BY <1>1, <2>2, CommitFacts, LabelsFacts
  <2> QED
    BY <2>3, <2>4, LaterAside
<1>2. CASE w = Main
  <2>1. IsSlice(D.slice) /\ Covered(D.slice, D.queue, Present)
    BY <1>2, DispatchCovered, TypedReducible DEF Later, Settled
  <2> HIDE DEF D
  <2>2. Commit(w, D)
    BY DEF D
  <2>3. Settled'
    BY <1>2, <2>1, <2>2, SettledCommit DEF Later
  <2>4. store'[Main] = D.slice /\ effects'[Main] = D.queue /\ Present' = Present
    BY <1>2, <2>2, CommitFacts DEF Present
  <2> QED
    BY <2>1, <2>3, <2>4 DEF Later
<1> QED
  BY <1>1, <1>2

LEMMA AfterCallIs ==
  ASSUME NEW w, NEW c
  PROVE  \/ AfterCall(w, c) = [effects[w] EXCEPT ![1] = c]
         \/ AfterCall(w, c) = Tail(effects[w]) /\ c.close = {}
BY DEF AfterCall, NoCalls

LEMMA IdleLess ==
  ASSUME NEW q, IsSequence(q), q # <<>>, Idle(q)
  PROVE  /\ Idle(Tail(q))
         /\ \A c : c.close = {} /\ c.create = {} => Idle([q EXCEPT ![1] = c])
<1>1. \A i \in DOMAIN Tail(q) : Tail(q)[i] = q[i + 1] /\ i + 1 \in DOMAIN q
  BY TailFacts
<1>2. Idle(Tail(q))
  BY <1>1 DEF Idle
<1>3. ASSUME NEW c, c.close = {}, c.create = {} PROVE Idle([q EXCEPT ![1] = c])
  BY <1>3, FirstFacts DEF Idle
<1> QED
  BY <1>2, <1>3

(* The main window makes a call that closes nothing.                       *)
LEMMA MainCreates ==
  ASSUME Shaped, Ordered, Later, effects[Main] # <<>>, UNCHANGED reloads,
         UNCHANGED <<store, boot>>, NEW q, effects' = [effects EXCEPT ![Main] = q],
         NEW c, c.close = effects[Main][1].close, c.create \subseteq effects[Main][1].create,
         q = [effects[Main] EXCEPT ![1] = c] \/ (q = Tail(effects[Main]) /\ c.close = {}),
         DOMAIN phase' = Labels, \A u \in Labels : phase[u] # "off" => phase'[u] = phase[u],
         Present' \subseteq Present \cup effects[Main][1].create
  PROVE  Later'
<1>1. phase[Main] = "up" /\ Covered(store[Main], effects[Main], Present)
  BY LabelsFacts DEF Later, Settled
<1>2. IsSequence(effects[Main])
  BY QueueIsSequence, LabelsFacts
<1> DEFINE gone == {}
<1>3. Covered(store[Main], q, Present')
  <2>1. MakesCall(effects[Main], Present, c, gone, q, Present')
    BY <1>2 DEF MakesCall
  <2> QED
    BY <1>1, <2>1, CallCovered
<1>4. effects'[Main] = q /\ \A u \in Labels \ {Main} : effects'[u] = effects[u]
  BY LabelsFacts DEF Shaped
<1>5. phase'[Main] = "up"
  BY <1>1, LabelsFacts
<1>6. Settled'
  BY <1>4, <1>5 DEF Later, Settled
<1> QED
  BY <1>3, <1>4, <1>5, <1>6 DEF Later

LEMMA MainCloses ==
  ASSUME Shaped, Ordered, Later, effects[Main] # <<>>, CloseCall(Main, Head(effects[Main]))
  PROVE  Later'
<1> DEFINE calls == Head(effects[Main])
           left1(l) == [calls EXCEPT !.close = @ \ {l}]
<1>1. /\ phase[Main] = "up" /\ Covered(store[Main], effects[Main], Present)
      /\ IsSequence(effects[Main]) /\ calls = effects[Main][1]
      /\ \A l : left1(l).close = calls.close \ {l} /\ left1(l).create = calls.create
  BY LabelsFacts, QueueIsSequence, HeadCalls, CallsLeft DEF Later, Settled
<1> HIDE DEF left1
<1>2. PICK l \in calls.close :
        \/ /\ Exists(l)
           /\ Drop({l}, "off")
           /\ effects' = [effects EXCEPT ![Main] = AfterCall(Main, left1(l)), ![l] = <<>>]
        \/ /\ ~Exists(l)
           /\ effects' = [effects EXCEPT ![Main] = AfterCall(Main, left1(l))]
           /\ UNCHANGED <<phase, store, boot, inbox, reloads, replies>>
  BY DEF CloseCall, left1
<1> DEFINE rest == AfterCall(Main, left1(l))
           gone == {l}
<1>3. \/ rest = [effects[Main] EXCEPT ![1] = left1(l)]
      \/ rest = Tail(effects[Main]) /\ left1(l).close = {}
  BY AfterCallIs
<1> HIDE DEF rest, calls
<1>4. ASSUME NEW now, now \subseteq Present, l \notin now PROVE Covered(store[Main], rest, now)
  <2>1. MakesCall(effects[Main], Present, left1(l), gone, rest, now)
    BY <1>1, <1>3, <1>4 DEF MakesCall
  <2> QED
    BY <1>1, <2>1, CallCovered
<1>5. CASE ~Exists(l)
  <2>1. /\ effects' = [effects EXCEPT ![Main] = rest]
        /\ UNCHANGED <<phase, store, boot, inbox, reloads, replies>>
    BY <1>2, <1>5 DEF rest
  <2>2. effects'[Main] = rest /\ \A u \in Labels \ {Main} : effects'[u] = effects[u]
    BY <2>1, LabelsFacts DEF Shaped
  <2>3. Settled'
    BY <1>1, <2>1, <2>2 DEF Later, Settled
  <2>4. Covered(store'[Main], effects'[Main], Present')
    BY <1>4, <1>5, <2>1, <2>2 DEF Exists, Present
  <2> QED
    BY <1>1, <2>1, <2>3, <2>4 DEF Later
<1>6. CASE Exists(l)
  <2>1. /\ Drop({l}, "off") /\ effects' = [effects EXCEPT ![Main] = rest, ![l] = <<>>]
    BY <1>2, <1>6 DEF rest
  <2>2. \A u \in Labels : effects'[u] = IF u = l THEN <<>> ELSE IF u = Main THEN rest ELSE effects[u]
    BY <2>1 DEF Shaped
  <2>3. IsSlice(store'[Main])
    BY <2>1, DropFacts, ZeroSlice, LabelsFacts DEF Later, Settled
  <2>4. \A u \in Labels : Main \notin boot'[u].close
    BY <2>1, DropFacts, NoBootFacts DEF Later, Settled
  <2>10. /\ \A u \in Labels : u # l => phase'[u] = phase[u] /\ boot'[u] = boot[u]
         /\ \A u \in Labels : u = l => phase'[u] = "off" /\ boot'[u] = NoBoot
         /\ reloads' = reloads \ {l}
    BY <2>1, DropFacts
  <2>5. ASSUME NEW u \in Labels, phase'[u] = "off" PROVE effects'[u] = <<>> /\ u \notin reloads'
    <3>1. CASE u = l
      BY <2>2, <2>10, <3>1
    <3>2. CASE u # l
      <4>1. phase[u] = "off"
        BY <2>5, <2>10, <3>2
      <4>2. u # Main /\ effects[u] = <<>> /\ u \notin reloads
        BY <1>1, <4>1 DEF Later, Settled
      <4> QED
        BY <2>2, <2>10, <3>2, <4>2
    <3> QED
      BY <3>1, <3>2
  <2>11. Idle(<<>>)
    BY EmptyFacts DEF Idle
  <2>6. \A u \in Labels \ {Main} : boot'[u].create = {} /\ Idle(effects'[u])
    BY <2>2, <2>10, <2>11, NoBootFacts DEF Later, Settled
  <2>7. Settled'
    BY <2>3, <2>4, <2>5, <2>6 DEF Settled
  <2>8. CASE l = Main
    BY <2>1, <2>7, <2>8, DropFacts, LabelsFacts DEF Later
  <2>9. CASE l # Main
    <3>1. phase'[Main] = "up" /\ effects'[Main] = rest
      BY <1>1, <2>2, <2>9, <2>10, LabelsFacts
    <3>3. store'[Main] = store[Main]
      BY <2>1, <2>9, DropFacts, LabelsFacts
    <3>2. Present' \subseteq Present /\ l \notin Present'
      BY <2>1, DropFacts DEF Present
    <3> QED
      BY <1>4, <2>7, <3>1, <3>2, <3>3 DEF Later
  <2> QED
    BY <2>8, <2>9
<1> QED
  BY <1>5, <1>6

LEMMA RunLater ==
  ASSUME Shaped, Ordered, Later, NEW w \in Labels, RunCall(w)
  PROVE  Later'
<1> DEFINE calls == Head(effects[w])
<1>1. /\ effects[w] # <<>>
      /\ CloseCall(w, calls) \/ CreateCall(w, calls) \/ CurrentCall(w, calls) \/ EmitCall(w, calls)
  BY DEF RunCall
<1>2. /\ IsCalls(calls) /\ calls = effects[w][1] /\ 1 \in DOMAIN effects[w]
      /\ IsSequence(effects[w])
  BY <1>1, HeadCalls, QueueIsSequence
<1> DEFINE shown == [calls EXCEPT !.current = FALSE]
<1>3. shown.close = calls.close /\ shown.create = calls.create
  BY <1>2, CurrentLeft
<1>4. CASE w # Main
  <2>1. calls.close = {} /\ calls.create = {} /\ Idle(effects[w]) /\ phase[w] # "off"
    BY <1>1, <1>2, <1>4 DEF Later, Settled, Idle
  <2> HIDE DEF calls
  <2>2. CurrentCall(w, calls) \/ EmitCall(w, calls)
    BY <1>1, <2>1 DEF CloseCall, CreateCall
  <2>3. PICK q : /\ Idle(q) /\ effects' = [effects EXCEPT ![w] = q]
                 /\ UNCHANGED <<phase, store, boot, reloads, replies>>
    <3>1. CASE CurrentCall(w, calls)
      <4>1. /\ effects' = [effects EXCEPT ![w] = AfterCall(w, shown)]
            /\ UNCHANGED <<phase, store, boot, reloads, replies>>
        BY <3>1 DEF CurrentCall
      <4> HIDE DEF shown
      <4>2. Idle(AfterCall(w, shown))
        <5>1. shown.close = {} /\ shown.create = {}
          BY <1>3, <2>1
        <5>2. Idle(Tail(effects[w])) /\ Idle([effects[w] EXCEPT ![1] = shown])
          BY <1>1, <1>2, <2>1, <5>1, IdleLess
        <5> QED
          BY <5>2, AfterCallIs
      <4> QED
        BY <4>1, <4>2
    <3>2. CASE EmitCall(w, calls)
      BY <1>1, <1>2, <2>1, <3>2, IdleLess DEF EmitCall
    <3> QED
      BY <2>2, <3>1, <3>2
  <2>4. effects'[w] = q /\ \A u \in Labels \ {w} : effects'[u] = effects[u]
    BY <2>3 DEF Shaped
  <2>5. Settled'
    BY <1>4, <2>1, <2>3, <2>4 DEF Later, Settled
  <2> QED
    BY <1>4, <2>3, <2>4, <2>5, LaterAside, LabelsFacts
<1>5. CASE w = Main
  <2>1. CASE CloseCall(w, calls)
    BY <1>1, <1>5, <2>1, MainCloses
  <2>2. CASE CreateCall(w, calls)
    <3>1. PICK l \in calls.create :
            /\ phase' = [phase EXCEPT ![l] = IF @ = "off" THEN "booting" ELSE @]
            /\ effects' = [effects EXCEPT ![w] = AfterCall(w, [calls EXCEPT !.create = @ \ {l}])]
            /\ UNCHANGED <<store, boot, inbox, reloads, replies>>
      BY <2>2 DEF CreateCall
    <3> DEFINE c == [calls EXCEPT !.create = @ \ {l}]
    <3>2. c.close = calls.close /\ c.create \subseteq calls.create
      BY <1>2, CallsLeft
    <3>3. effects' = [effects EXCEPT ![w] = AfterCall(w, c)]
      BY <3>1
    <3> HIDE DEF c
    <3>4. \/ AfterCall(w, c) = [effects[w] EXCEPT ![1] = c]
          \/ AfterCall(w, c) = Tail(effects[w]) /\ c.close = {}
      BY AfterCallIs
    <3>5. /\ DOMAIN phase' = Labels /\ \A u \in Labels : phase[u] # "off" => phase'[u] = phase[u]
          /\ Present' \subseteq Present \cup effects[w][1].create
      BY <1>2, <3>1 DEF Present, Shaped
    <3>6. c.close = effects[Main][1].close /\ c.create \subseteq effects[Main][1].create
      BY <1>2, <1>5, <3>2
    <3> HIDE DEF calls
    <3> QED
      BY <1>1, <1>5, <3>1, <3>3, <3>4, <3>5, <3>6, MainCreates
  <2>3. CASE CurrentCall(w, calls)
    <3>1. /\ effects' = [effects EXCEPT ![w] = AfterCall(w, shown)]
          /\ UNCHANGED <<phase, store, boot, reloads, replies>>
      BY <2>3 DEF CurrentCall
    <3> HIDE DEF shown
    <3>2. \/ AfterCall(w, shown) = [effects[w] EXCEPT ![1] = shown]
          \/ AfterCall(w, shown) = Tail(effects[w]) /\ shown.close = {}
      BY AfterCallIs
    <3>3. DOMAIN phase' = Labels /\ Present' = Present
      BY <3>1 DEF Present, Shaped
    <3>4. shown.close = effects[w][1].close /\ shown.create \subseteq effects[w][1].create
      BY <1>2, <1>3
    <3> QED
      BY <1>1, <1>5, <3>1, <3>2, <3>3, <3>4, MainCreates
  <2>4. CASE EmitCall(w, calls)
    <3>1. /\ effects' = [effects EXCEPT ![w] = Tail(@)] /\ calls.close = {}
          /\ UNCHANGED <<phase, store, boot, reloads, replies>>
      BY <2>4 DEF EmitCall, NoCalls
    <3>2. effects' = [effects EXCEPT ![w] = Tail(effects[w])]
      BY <3>1
    <3>3. DOMAIN phase' = Labels /\ Present' = Present
      BY <3>1 DEF Present, Shaped
    <3> HIDE DEF calls
    <3> QED
      BY <1>1, <1>2, <1>5, <3>1, <3>2, <3>3, MainCreates
  <2> QED
    BY <1>1, <2>1, <2>2, <2>3, <2>4
<1> QED
  BY <1>4, <1>5

(* Another window comes up.                                                *)
LEMMA FinishLater ==
  ASSUME Shaped, Ordered, Later, NEW w \in Labels \ {Main}, FinishConfigure(w)
  PROVE  Later'
<1>1. IsLocal(Local(w)) /\ IsSequence(Local(w).queue) /\ Idle(Local(w).queue)
  BY LocalFacts, QueueIsSequence DEF Later, Settled
<1>2. IsLocal(Reported(w)) /\ IsSequence(Reported(w).queue) /\ Idle(Reported(w).queue)
  BY <1>1, DispatchIdle DEF Reported
<1>3. IsLocal(Labelled(w)) /\ IsSequence(Labelled(w).queue) /\ Idle(Labelled(w).queue)
  BY <1>2, DispatchIdle DEF Labelled
<1>4. Idle(Configured(w).queue)
  BY <1>3, DispatchIdle DEF Configured
<1>5. \A u \in Labels : phase'[u] = IF u = w THEN "up" ELSE phase[u]
  BY FinishFacts DEF Shaped
<1>6. \A u \in Labels : boot'[u] = boot[u] \/ boot'[u] = NoBoot
  BY FinishFacts DEF Shaped
<1>7. Commit(w, Configured(w)) /\ phase[w] # "off"
  BY FinishFacts
<1>8. Settled'
  BY <1>4, <1>5, <1>6, <1>7, SettledCommit DEF Later
<1>9. store'[Main] = store[Main] /\ effects'[Main] = effects[Main]
  BY <1>7, CommitFacts, LabelsFacts
<1> QED
  BY <1>5, <1>7, <1>8, <1>9, LaterAside, LabelsFacts

LEMMA ReceiveLater ==
  ASSUME Shaped, Ordered, Later, NEW w \in Labels, ReceiveAction(w), HasStore(w)
  PROVE  Later'
<1> DEFINE a == Head(inbox[w]).action
<1>1. /\ Commit(w, Dispatch(Local(w), w, a, TRUE)) /\ UNCHANGED <<phase, boot>>
      /\ inbox[w] # <<>> /\ Head(inbox[w]).kind = "action"
  BY DEF ReceiveAction, Ignore
<1>2. Typed(a)
  BY <1>1, TailFacts DEF Ordered, Hears
<1>3. phase[w] # "off" /\ (w = Main => phase[Main] = "up")
  BY DEF HasStore, Later
<1>4. /\ IsLocal(Local(w)) /\ Local(w).slice = store[w] /\ Local(w).queue = effects[w]
      /\ IsSequence(effects[w]) /\ (w # Main => Idle(effects[w]))
      /\ w = Main => Covered(store[w], effects[w], Present)
  BY <1>3, LocalFacts, QueueIsSequence DEF Later, Settled
<1> HIDE DEF a
<1> QED
  BY <1>1, <1>2, <1>3, <1>4, LaterDispatch

LEMMA FailLater ==
  ASSUME Shaped, Ordered, Later, NEW w \in Labels, FailCall(w)
  PROVE  Later'
<1> DEFINE loc == [Local(w) EXCEPT !.queue = Tail(@)]
           a == [type |-> "setWindowError", key |-> w]
<1>1. /\ Commit(w, Dispatch(loc, w, a, FALSE)) /\ UNCHANGED <<phase, boot>>
      /\ effects[w] # <<>> /\ Head(effects[w]).close = {}
  BY DEF FailCall
<1>2. IsLocal(loc) /\ loc.queue = Tail(effects[w]) /\ loc.slice = store[w]
  BY CallLeft
<1>3. Typed(a)
  BY DEF Typed, Emitted
<1> HIDE DEF loc, a
<1>4. phase[w] # "off" /\ (w = Main => phase[Main] = "up")
  BY <1>1 DEF Later, Settled
<1>5. IsSequence(effects[w]) /\ IsSequence(Tail(effects[w])) /\ effects[w][1].close = {}
  BY <1>1, QueueIsSequence, TailFacts
<1>6. w # Main => Idle(Tail(effects[w]))
  BY <1>1, <1>5, IdleLess DEF Later, Settled
<1>7. ASSUME w = Main PROVE Covered(store[w], Tail(effects[w]), Present)
  <2>1. MakesCall(effects[w], Present, [NoCalls EXCEPT !.current = FALSE], {}, Tail(effects[w]), Present)
    BY <1>1, <1>5 DEF MakesCall, NoCalls
  <2>2. Covered(store[w], effects[w], Present)
    BY <1>4, <1>7 DEF Later
  <2> QED
    BY <2>1, <2>2, CallCovered
<1> QED
  BY <1>1, <1>2, <1>3, <1>4, <1>5, <1>6, <1>7, LaterDispatch

LEMMA UserLater ==
  ASSUME Shaped, Ordered, Later, NEW w \in Labels, phase[w] = "up", NEW a, Typed(a),
         Commit(w, Dispatch(Local(w), w, a, FALSE)), UNCHANGED <<phase, boot>>
  PROVE  Later'
<1>1. /\ IsLocal(Local(w)) /\ Local(w).slice = store[w] /\ Local(w).queue = effects[w]
      /\ IsSequence(effects[w]) /\ (w # Main => Idle(effects[w]))
      /\ w = Main => Covered(store[w], effects[w], Present)
  BY LocalFacts, QueueIsSequence DEF Later, Settled
<1> QED
  BY <1>1, LaterDispatch

LEMMA SyncLater ==
  ASSUME Shaped, Later, NEW w \in Labels, SyncInitialCall(w)
  PROVE  Later'
<1>1. w # Main /\ boot[w].create = {} /\ phase[w] = "syncing"
  BY DEF SyncInitialCall, Later, Settled
<1>2. PICK l \in boot[w].close : CloseExtra(w, l)
  BY <1>1 DEF SyncInitialCall
<1>3. l # Main
  BY <1>2 DEF Later, Settled
<1>4. /\ \A u \in Labels : u # l =>
            /\ phase'[u] = phase[u] /\ store'[u] = store[u] /\ effects'[u] = effects[u]
            /\ boot'[u].close \subseteq boot[u].close /\ boot'[u].create = boot[u].create
      /\ \A u \in Labels : u = l => phase'[u] = "off" /\ effects'[u] = <<>> /\ boot'[u] = NoBoot
      /\ reloads' = reloads \ {l}
  BY <1>2, CloseExtraFacts
<1>5. Idle(<<>>)
  BY EmptyFacts DEF Idle
<1>6. Settled'
  BY <1>3, <1>4, <1>5, NoBootFacts, LabelsFacts DEF Later, Settled
<1> QED
  BY <1>3, <1>4, <1>6, LaterAside, LabelsFacts

(* The steps of a window that leave its queue and its calls alone.         *)
LEMMA QuietLater ==
  ASSUME Shaped, Later, UNCHANGED <<store, effects, reloads>>, phase'[Main] = phase[Main],
         \A u \in Labels : phase'[u] = "off" <=> phase[u] = "off",
         \A u \in Labels : Main \notin boot'[u].close /\ (u # Main => boot'[u].create = {})
  PROVE  Later'
<1>1. Settled'
  BY DEF Later, Settled
<1> QED
  BY <1>1, LaterAside

LEMMA ReloadLater ==
  ASSUME Shaped, Later, NEW w \in Labels \ {Main}, Reload(w)
  PROVE  Later'
<1>1. /\ Drop({w}, "booting") /\ effects' = [effects EXCEPT ![w] = <<>>] /\ w \in reloads
  BY DEF Reload
<1>2. /\ \A u \in Labels : u # w => phase'[u] = phase[u] /\ boot'[u] = boot[u] /\ store'[u] = store[u]
      /\ phase'[w] = "booting" /\ boot'[w] = NoBoot
      /\ reloads' = reloads \ {w}
  BY <1>1, DropFacts
<1>3. \A u \in Labels : effects'[u] = IF u = w THEN <<>> ELSE effects[u]
  BY <1>1 DEF Shaped
<1>4. Idle(<<>>)
  BY EmptyFacts DEF Idle
<1>5. phase[w] # "off"
  BY <1>1 DEF Later, Settled
<1>6. Settled'
  BY <1>2, <1>3, <1>4, NoBootFacts, LabelsFacts DEF Later, Settled
<1> QED
  BY <1>2, <1>3, <1>5, <1>6, LaterAside, LabelsFacts

LEMMA NextLater ==
  ASSUME Shaped, Ordered, Later, persisted' = {}, [Next]_vars
  PROVE  Later'
<1>0. \A u \in Labels : Main \notin boot[u].close /\ (u # Main => boot[u].create = {})
  BY DEF Later, Settled
<1>1. ASSUME NEW w \in Labels, Subscribe(w) PROVE Later'
  BY <1>0, <1>1, QuietLater DEF Subscribe, Shaped, Later
<1>2. ASSUME NEW w \in Labels, RequestState(w) PROVE Later'
  BY <1>0, <1>2, QuietLater DEF RequestState, Shaped
<1>3. ASSUME NEW w \in Labels, ListLabels(w) PROVE Later'
  <2>1. w # Main /\ phase[w] = "listing" /\ phase' = [phase EXCEPT ![w] = "syncing"]
        /\ UNCHANGED <<store, effects, reloads>>
    BY <1>3 DEF ListLabels, Later
  <2>2. \A u \in Labels : u # w => boot'[u] = boot[u]
    BY <1>3 DEF ListLabels, Shaped
  <2>3. Main \notin boot'[w].close /\ boot'[w].create = {}
    BY <1>3, <2>1 DEF ListLabels, Shaped
  <2>4. \A u \in Labels : phase'[u] = IF u = w THEN "syncing" ELSE phase[u]
    BY <2>1 DEF Shaped
  <2> QED
    BY <1>0, <2>1, <2>2, <2>3, <2>4, QuietLater, LabelsFacts
<1>4. ASSUME NEW w \in Labels, SyncInitialCall(w) PROVE Later'
  BY <1>4, SyncLater
<1>5. ASSUME NEW w \in Labels, FinishConfigure(w) PROVE Later'
  <2>1. w # Main
    BY <1>5, FinishFacts DEF Later
  <2> QED
    BY <1>5, <2>1, FinishLater
<1>6. ASSUME NEW w \in Labels, Ignore(w) PROVE Later'
  BY <1>0, <1>6, QuietLater DEF Ignore
<1>7. ASSUME NEW w \in Labels, ReceiveAction(w) PROVE Later'
  <2>1. CASE HasStore(w)
    BY <1>7, <2>1, ReceiveLater
  <2>2. CASE ~HasStore(w)
    <3>1. Ignore(w)
      BY <1>7, <2>2 DEF ReceiveAction
    <3> QED
      BY <3>1, <1>6
  <2> QED
    BY <2>1, <2>2
<1>8. ASSUME NEW w \in Labels, ReceiveState(w) PROVE Later'
  <2>1. CASE phase[w] # "waiting"
    <3>1. Ignore(w)
      BY <1>8, <2>1 DEF ReceiveState
    <3> QED
      BY <3>1, <1>6
  <2>2. CASE phase[w] = "waiting"
    <3>1. PICK s : OpenStore(w, s) /\ UNCHANGED <<effects, reloads>>
      BY <1>8, <2>2 DEF ReceiveState
    <3>2. w # Main
      BY <2>2 DEF Later
    <3>3. /\ \A u \in Labels : u # w => phase'[u] = phase[u] /\ boot'[u] = boot[u] /\ store'[u] = store[u]
          /\ phase'[w] = "listing" /\ boot'[w].close = boot[w].close /\ boot'[w].create = boot[w].create
      BY <3>1, OpenFacts
    <3>4. Settled'
      BY <2>2, <3>1, <3>2, <3>3, LabelsFacts DEF Later, Settled
    <3> QED
      BY <2>2, <3>1, <3>2, <3>3, <3>4, LaterAside, LabelsFacts
  <2> QED
    BY <2>1, <2>2
<1>9. ASSUME NEW w \in Labels, RunCall(w) PROVE Later'
  BY <1>9, RunLater
<1>10. ASSUME LoadPreloadedState PROVE Later'
  BY <1>10 DEF LoadPreloadedState, Later
<1>11. ASSUME ReceiveRequest PROVE Later'
  <2>1. CASE ~HasStore(Main)
    <3>1. Ignore(Main)
      BY <1>11, <2>1 DEF ReceiveRequest
    <3> QED
      BY <3>1, <1>6, LabelsFacts
  <2>2. CASE HasStore(Main)
    BY <1>0, <1>11, <2>2, QuietLater DEF ReceiveRequest
  <2> QED
    BY <2>1, <2>2
<1>12. ASSUME NEW r \in replies, SendReply(r) PROVE Later'
  BY <1>0, <1>12, QuietLater DEF SendReply
<1>13. ASSUME NEW w \in Labels, FailCall(w) PROVE Later'
  BY <1>13, FailLater
<1>14. ASSUME NEW w \in Labels, UserDispatch(w) PROVE Later'
  <2>1. PICK a \in UserActions :
          /\ Commit(w, Dispatch(Local(w), w, a, FALSE)) /\ UNCHANGED <<phase, boot>>
          /\ phase[w] = "up"
    BY <1>14 DEF UserDispatch
  <2> QED
    BY <2>1, UserTyped, UserLater
<1>15. ASSUME NEW w \in Labels, CloseRequested(w) PROVE Later'
  <2> DEFINE a == [type |-> "closeWindow"]
  <2>1. /\ Commit(w, Dispatch(Local(w), w, a, FALSE)) /\ UNCHANGED <<phase, boot>>
        /\ phase[w] = "up"
    BY <1>15 DEF CloseRequested
  <2>2. Typed(a)
    BY DEF Typed, Emitted
  <2> HIDE DEF a
  <2> QED
    BY <2>1, <2>2, UserLater
<1>16. ASSUME NEW w \in Labels, WindowEvent(w) PROVE Later'
  BY <1>0, <1>16, QuietLater DEF WindowEvent
<1>17. ASSUME NEW w \in Labels, Reload(w) PROVE Later'
  <2>1. w # Main
    BY <1>17 DEF Reload
  <2> QED
    BY <1>17, <2>1, ReloadLater
<1>18. CASE UNCHANGED vars
  BY <1>0, <1>18, QuietLater DEF vars
<1>19. ASSUME NEW w \in Labels, Proceed(w) PROVE Later'
  BY <1>1, <1>2, <1>3, <1>4, <1>5, <1>7, <1>8, <1>9, <1>10, <1>11, <1>19 DEF Proceed
<1> QED
  BY <1>12, <1>13, <1>14, <1>15, <1>16, <1>17, <1>18, <1>19 DEF Next

Starting == Settled /\ phase[Main] \in Early /\ Beginning

OwnProps(box) ==
  \A i \in DOMAIN box :
    box[i].kind = "action" /\ box[i].action.type = "runtimeSetWindowProps" /\ box[i].action.label = Main

LEMMA OwnPropsTail ==
  ASSUME NEW box, IsSequence(box), box # <<>>, OwnProps(box)
  PROVE  OwnProps(Tail(box)) /\ Head(box).kind = "action"
         /\ Head(box).action.type = "runtimeSetWindowProps" /\ Head(box).action.label = Main
<1>1. /\ 1 \in DOMAIN box /\ Head(box) = box[1]
      /\ \A i \in DOMAIN Tail(box) : Tail(box)[i] = box[i + 1] /\ i + 1 \in DOMAIN box
  BY TailFacts
<1> QED
  BY <1>1 DEF OwnProps

(* What the main window reports of itself changes neither its windows nor  *)
(* its queue.                                                              *)
LEMMA ReceiveStarting ==
  ASSUME Shaped, Ordered, Starting, ReceiveAction(Main), HasStore(Main)
  PROVE  Starting'
<1> DEFINE a == Head(inbox[Main]).action
           D == Dispatch(Local(Main), Main, a, TRUE)
           s == store[Main]
           b == assignLabel(s, a, fresh)
<1>1. /\ Commit(Main, D) /\ inbox' = [inbox EXCEPT ![Main] = Tail(@)] /\ inbox[Main] # <<>>
      /\ UNCHANGED <<phase, boot, replies>> /\ Head(inbox[Main]).kind = "action"
  BY DEF ReceiveAction, Ignore
<1>2. OwnProps(inbox[Main]) /\ IsSequence(inbox[Main]) /\ Main \in Labels
  BY QueueIsSequence, LabelsFacts DEF Starting, Beginning, OwnProps
<1>3. OwnProps(Tail(inbox[Main])) /\ a.type = "runtimeSetWindowProps" /\ a.label = Main
  BY <1>1, <1>2, OwnPropsTail
<1>4. Typed(a)
  BY <1>1, <1>2, TailFacts DEF Ordered, Hears
<1>5. IsSlice(s) /\ DOMAIN s.windows = {Main} /\ effects[Main] = <<>> /\ Main \notin reloads
  BY DEF Starting, Settled, Beginning
<1> HIDE DEF a, s
<1>6. b = a
  BY <1>3, <1>4, AssignFacts DEF Typed
<1>7. /\ IsSlice(D.slice) /\ DOMAIN D.slice.windows = {Main} /\ D.queue = <<>> /\ ~D.reload
  <2>1. \/ D.slice = s /\ D.queue = <<>> /\ D.reload = FALSE
        \/ /\ D.slice = reducer(s, b, fresh) /\ D.reload = (FALSE \/ Reloads(s, b))
           /\ D.queue = Enqueue(<<>>, CallsOf(Local(Main), Main, a, TRUE))
    <3> DEFINE loc == Local(Main)
    <3>1. /\ IsLocal(loc) /\ loc.slice = s /\ loc.queue = <<>> /\ loc.fresh = fresh
          /\ loc.reload = FALSE
      BY <1>5, LocalFacts DEF s
    <3> HIDE DEF loc
    <3>2. ASSUME NEW emitted \in BOOLEAN, emitted
          PROVE  LET E == Dispatch(loc, Main, a, emitted) IN
                 \/ E.slice = s /\ E.queue = <<>> /\ E.reload = FALSE
                 \/ /\ E.slice = reducer(s, b, fresh) /\ E.reload = (FALSE \/ Reloads(s, b))
                    /\ E.queue = Enqueue(<<>>, CallsOf(loc, Main, a, emitted))
      BY <3>1, DispatchFacts
    <3> QED
      BY <3>2 DEF loc
  <2>2. CallsOf(Local(Main), Main, a, TRUE) = NoCalls
    BY <1>3 DEF CallsOf, EXCLUDE_SYNC_ACTIONS, NoCalls
  <2>3. ~Reloads(s, b)
    BY <1>3, <1>6 DEF Reloads
  <2>4. LabelOf(s, b) = Main
    BY <1>3, <1>4, <1>6, LabelsFacts DEF LabelOf, Typed
  <2> HIDE DEF b, D
  <2>5. IsSlice(reducer(s, b, fresh)) /\ DOMAIN reducer(s, b, fresh).windows = {Main}
    BY <1>3, <1>4, <1>5, <1>6, <2>4, ReducerSlice, TypedReducible
  <2> QED
    BY <1>5, <2>1, <2>2, <2>3, <2>5 DEF Enqueue
<1> HIDE DEF D
<1>8. /\ store'[Main] = D.slice /\ effects'[Main] = <<>> /\ reloads' = reloads
      /\ \A u \in Labels \ {Main} : effects'[u] = effects[u]
  BY <1>1, <1>2, <1>7, CommitFacts
<1>9. Settled'
  BY <1>1, <1>7, <1>8 DEF Starting, Settled
<1>10. OwnProps(inbox'[Main])
  BY <1>1, <1>2, <1>3 DEF Shaped
<1>11. Beginning'
  BY <1>1, <1>7, <1>8, <1>10 DEF Starting, Beginning, OwnProps, HasStore
<1> QED
  BY <1>1, <1>9, <1>11 DEF Starting

LEMMA FinishStarting ==
  ASSUME Shaped, Ordered, Starting, FinishConfigure(Main)
  PROVE  Later'
<1> DEFINE now == {Main}
           st == [type |-> "setWindowStage", stage |-> "created"]
           li == [type |-> "internalSetInitial", label |-> Main]
<1>0. Main \in Labels /\ phase[Main] = "syncing"
  BY LabelsFacts, FinishFacts
<1>1. /\ IsLocal(Local(Main)) /\ IsSlice(Local(Main).slice) /\ IsSequence(Local(Main).queue)
      /\ Covered(Local(Main).slice, Local(Main).queue, now)
  BY LocalFacts, EmptyFacts DEF Starting, Settled, Beginning, Covered
<1>2. /\ "type" \in DOMAIN Props(Main) /\ Props(Main).type \in Reducible
      /\ "type" \in DOMAIN st /\ st.type \in Reducible
      /\ "type" \in DOMAIN li /\ li.type \in Reducible
  BY <1>0, FinishTyped, TypedReducible DEF Reducible
<1> HIDE DEF now, st, li
<1>3. /\ IsLocal(Reported(Main)) /\ IsSlice(Reported(Main).slice)
      /\ IsSequence(Reported(Main).queue)
      /\ Covered(Reported(Main).slice, Reported(Main).queue, now)
  BY <1>1, <1>2, DispatchFacts, DispatchCovered DEF Reported
<1>4. /\ IsLocal(Labelled(Main)) /\ IsSlice(Labelled(Main).slice)
      /\ IsSequence(Labelled(Main).queue)
      /\ Covered(Labelled(Main).slice, Labelled(Main).queue, now)
  BY <1>2, <1>3, DispatchFacts, DispatchCovered DEF Labelled, li
<1>5. /\ IsSlice(Configured(Main).slice)
      /\ Covered(Configured(Main).slice, Configured(Main).queue, now)
  BY <1>2, <1>4, DispatchCovered DEF Configured, st
<1>6. \A u \in Labels : phase'[u] = IF u = Main THEN "up" ELSE phase[u]
  BY FinishFacts DEF Shaped
<1>7. \A u \in Labels : boot'[u] = boot[u] \/ boot'[u] = NoBoot
  BY FinishFacts DEF Shaped
<1>8. Commit(Main, Configured(Main))
  BY FinishFacts
<1>9. Settled'
  BY <1>0, <1>5, <1>6, <1>7, <1>8, SettledCommit DEF Starting
<1>10. store'[Main] = Configured(Main).slice /\ effects'[Main] = Configured(Main).queue
  BY <1>0, <1>8, CommitFacts
<1>11. Present' \subseteq now
  BY <1>6 DEF Present, Starting, Beginning, now
<1> QED
  BY <1>0, <1>5, <1>6, <1>9, <1>10, <1>11, CoveredLess DEF Later

LEMMA NextStarting ==
  ASSUME Shaped, Ordered, Starting, persisted = {}, [Next]_vars
  PROVE  Starting' \/ Later'
<1>0. /\ Main \in Labels /\ OwnProps(inbox[Main]) /\ IsSequence(inbox[Main])
      /\ \A w \in Labels : w # Main => phase[w] = "off"
      /\ \A w \in Labels : effects[w] = <<>> /\ w \notin reloads
      /\ phase[Main] \in Early /\ replies = {}
      /\ boot[Main].close = {} /\ boot[Main].create = {}
  BY LabelsFacts, QueueIsSequence DEF Starting, Settled, Beginning, OwnProps
<1>1. ASSUME NEW w \in Labels, Subscribe(w) PROVE Starting'
  <2>1. /\ w = Main /\ phase' = [phase EXCEPT ![Main] = "subscribed"]
        /\ UNCHANGED <<store, boot, effects, inbox, replies, reloads>>
    BY <1>0, <1>1 DEF Subscribe
  <2>2. phase'[Main] = "subscribed" /\ \A u \in Labels : u # Main => phase'[u] = phase[u]
    BY <1>0, <2>1 DEF Shaped
  <2>3. Settled'
    BY <1>0, <2>1, <2>2 DEF Starting, Settled
  <2>4. Beginning'
    BY <2>1, <2>2 DEF Starting, Beginning, HasStore
  <2> QED
    BY <2>2, <2>3, <2>4 DEF Starting, Early
<1>2. ASSUME NEW w \in Labels, RequestState(w) PROVE FALSE
  BY <1>0, <1>2 DEF RequestState
<1>3. ASSUME NEW w \in Labels, ListLabels(w) PROVE Starting'
  <2>1. /\ w = Main /\ phase' = [phase EXCEPT ![Main] = "syncing"] /\ phase[Main] = "listing"
        /\ UNCHANGED <<store, effects, inbox, replies, reloads>>
    BY <1>0, <1>3 DEF ListLabels
  <2>2. phase'[Main] = "syncing" /\ \A u \in Labels : u # Main => phase'[u] = phase[u]
    BY <1>0, <2>1 DEF Shaped
  <2>3. HasStore(Main) /\ boot[Main].seen \subseteq {Main}
    BY <2>1 DEF HasStore, Starting, Beginning
  <2>4. /\ \A u \in Labels : u # Main => boot'[u] = boot[u]
        /\ boot'[Main].close = {} /\ boot'[Main].create = {} /\ boot'[Main].seen = boot[Main].seen
    <3>1. {l \in Labels \ {Main} : Exists(l)} = {} /\ boot[Main].seen \ {Main} = {}
      BY <1>0, <2>3 DEF Exists
    <3>2. boot' = [boot EXCEPT ![Main].close = {} \ {}, ![Main].create = {} \ {}]
      BY <1>3, <2>1, <3>1 DEF ListLabels
    <3> QED
      BY <1>0, <3>2 DEF Shaped
  <2>5. Settled'
    BY <1>0, <2>1, <2>2, <2>4 DEF Starting, Settled
  <2>6. Beginning'
    BY <2>1, <2>2, <2>3, <2>4 DEF Starting, Beginning, HasStore
  <2> QED
    BY <2>2, <2>5, <2>6 DEF Starting, Early
<1>4. ASSUME NEW w \in Labels, SyncInitialCall(w) PROVE FALSE
  BY <1>0, <1>4 DEF SyncInitialCall
<1>5. ASSUME NEW w \in Labels, FinishConfigure(w) PROVE Later'
  <2>1. w = Main
    BY <1>0, <1>5, FinishFacts
  <2> QED
    BY <1>5, <2>1, FinishStarting
<1>6. ASSUME NEW w \in Labels, Ignore(w), inbox[w] # <<>> PROVE Starting'
  <2>1. /\ inbox' = [inbox EXCEPT ![w] = Tail(@)]
        /\ UNCHANGED <<phase, store, boot, effects, replies, reloads>>
    BY <1>6 DEF Ignore
  <2>2. OwnProps(inbox'[Main])
    BY <1>0, <1>6, <2>1, OwnPropsTail DEF Shaped
  <2>3. Settled'
    BY <2>1 DEF Starting, Settled
  <2>4. Beginning'
    BY <2>1, <2>2 DEF Starting, Beginning, OwnProps, HasStore
  <2> QED
    BY <2>1, <2>3, <2>4 DEF Starting
<1>7. ASSUME NEW w \in Labels, ReceiveAction(w) PROVE Starting'
  <2>1. CASE HasStore(w)
    <3>1. w = Main
      BY <1>0, <2>1 DEF HasStore
    <3> QED
      BY <1>7, <2>1, <3>1, ReceiveStarting
  <2>2. CASE ~HasStore(w)
    <3>1. Ignore(w) /\ inbox[w] # <<>>
      BY <1>7, <2>2 DEF ReceiveAction
    <3> QED
      BY <3>1, <1>6
  <2> QED
    BY <2>1, <2>2
<1>8. ASSUME NEW w \in Labels, ReceiveState(w) PROVE Starting'
  <2>1. phase[w] # "waiting"
    BY <1>0 DEF Early
  <2>2. Ignore(w) /\ inbox[w] # <<>>
    BY <1>8, <2>1 DEF ReceiveState
  <2> QED
    BY <2>2, <1>6
<1>9. ASSUME NEW w \in Labels, RunCall(w) \/ FailCall(w) \/ Reload(w) PROVE FALSE
  BY <1>0, <1>9 DEF RunCall, FailCall, Reload
<1>10. ASSUME LoadPreloadedState PROVE Starting'
  <2>1. /\ OpenStore(Main, ZERO_SLICE_STATE) /\ UNCHANGED <<effects, inbox, replies, reloads>>
    BY <1>10 DEF LoadPreloadedState
  <2>2. /\ phase'[Main] = "listing" /\ store'[Main] = ZERO_SLICE_STATE
        /\ boot'[Main].seen = {Main} /\ boot'[Main].close = {} /\ boot'[Main].create = {}
        /\ \A u \in Labels : u # Main => phase'[u] = phase[u] /\ boot'[u] = boot[u]
    BY <1>0, <2>1, OpenFacts, ZeroSlice
  <2>3. Settled'
    BY <1>0, <2>1, <2>2, ZeroSlice DEF Starting, Settled
  <2>4. Beginning'
    BY <2>1, <2>2, ZeroSlice DEF Starting, Beginning, HasStore
  <2> QED
    BY <2>2, <2>3, <2>4 DEF Starting, Early
<1>11. ASSUME ReceiveRequest PROVE FALSE
  BY <1>0, <1>11, OwnPropsTail DEF ReceiveRequest
<1>12. ASSUME NEW r \in replies, SendReply(r) PROVE FALSE
  BY <1>0
<1>13. ASSUME NEW w \in Labels, UserDispatch(w) \/ CloseRequested(w) PROVE FALSE
  BY <1>0, <1>13 DEF UserDispatch, CloseRequested, Early
<1>14. ASSUME NEW w \in Labels, WindowEvent(w) PROVE Starting'
  <2> DEFINE ev == [kind |-> "action", emitter |-> Whitelist, action |-> Props(w)]
  <2>1. /\ inbox' = Broadcast(inbox, ev) /\ Listening(w)
        /\ UNCHANGED <<phase, store, boot, effects, replies, reloads>>
    BY <1>14 DEF WindowEvent, Props
  <2>2. w = Main
    BY <1>0, <2>1 DEF Listening
  <2>3. ev.kind = "action" /\ ev.action.type = "runtimeSetWindowProps" /\ ev.action.label = Main
    BY <2>2 DEF Props
  <2> HIDE DEF ev
  <2>4. inbox'[Main] = inbox[Main] \/ inbox'[Main] = Append(inbox[Main], ev)
    BY <1>0, <2>1, BroadcastFacts
  <2>5. OwnProps(Append(inbox[Main], ev))
    <3>1. /\ DOMAIN Append(inbox[Main], ev) = 1 .. Len(inbox[Main]) + 1
          /\ DOMAIN inbox[Main] = 1 .. Len(inbox[Main]) /\ Len(inbox[Main]) \in Nat
          /\ \A i \in DOMAIN inbox[Main] : Append(inbox[Main], ev)[i] = inbox[Main][i]
          /\ Append(inbox[Main], ev)[Len(inbox[Main]) + 1] = ev
      BY <1>0, AppendFacts, SequenceFacts
    <3> QED
      BY <1>0, <2>3, <3>1 DEF OwnProps
  <2>6. OwnProps(inbox'[Main])
    BY <1>0, <2>4, <2>5
  <2>7. Settled'
    BY <2>1 DEF Starting, Settled
  <2>8. Beginning'
    BY <2>1, <2>6 DEF Starting, Beginning, OwnProps, HasStore
  <2> QED
    BY <2>1, <2>7, <2>8 DEF Starting
<1>15. CASE UNCHANGED vars
  BY <1>15 DEF vars, Starting, Settled, Beginning, HasStore
<1>16. ASSUME NEW w \in Labels, Proceed(w) PROVE Starting' \/ Later'
  BY <1>1, <1>2, <1>3, <1>4, <1>5, <1>7, <1>8, <1>9, <1>10, <1>11, <1>16 DEF Proceed
<1> QED
  BY <1>9, <1>12, <1>13, <1>14, <1>15, <1>16 DEF Next

LEMMA RestartStays == ASSUME [Next]_vars, persisted # {} PROVE persisted' # {}
<1>1. CASE UNCHANGED vars
  BY <1>1 DEF vars
<1>2. CASE \E w \in Labels : Reload(w)
  BY <1>2 DEF Reload
<1>3. CASE \E w \in Labels : Proceed(w)
  BY <1>3 DEF Proceed, Subscribe, RequestState, ListLabels, SyncInitialCall, FinishConfigure,
              ReceiveAction, ReceiveState, Ignore, RunCall, LoadPreloadedState, ReceiveRequest
<1>4. CASE \/ \E r \in replies : SendReply(r)
           \/ \E w \in Labels : FailCall(w) \/ UserDispatch(w) \/ CloseRequested(w) \/ WindowEvent(w)
  BY <1>4 DEF SendReply, FailCall, UserDispatch, CloseRequested, WindowEvent
<1> QED
  BY <1>1, <1>2, <1>3, <1>4 DEF Next

LEMMA InitStarting == ASSUME Init PROVE Starting
<1>1. Settled
  BY ZeroSlice, NoBootFacts, EmptyFacts, LabelsFacts DEF Init, Settled, Idle
<1>2. Beginning
  BY NoBootFacts, EmptyFacts, LabelsFacts DEF Init, Beginning, HasStore
<1>3. phase[Main] \in Early
  BY LabelsFacts DEF Init, Early
<1> QED
  BY <1>1, <1>2, <1>3 DEF Starting

(* NoOrphanWindow: as long as the main window has not restarted, once it   *)
(* has made its calls no window of the runtime is unknown to its store,    *)
(* whatever the windows dispatch, in whatever order their actions arrive,  *)
(* and whichever calls to the runtime throw.                               *)
THEOREM NobodyOrphaned == Spec => []NoOrphanWindow
<1> DEFINE Inv == Shaped /\ Ordered /\ (persisted = {} => Starting \/ Later)
<1>1. Init => Inv
  BY InitOrdered, InitStarting
<1>2. Inv /\ [Next]_vars => Inv'
  BY NextOrdered, NextStarting, NextLater, RestartStays
<1>3. Inv => NoOrphanWindow
  <2> SUFFICES ASSUME Inv, phase[Main] = "up", effects[Main] = <<>>, ~MainRestarted
               PROVE  \A l \in Labels \ {Main} : Exists(l) => l \in DOMAIN store[Main].windows
    BY DEF NoOrphanWindow
  <2>1. Covered(store[Main], <<>>, Present)
    BY DEF MainRestarted, Starting, Early, Later
  <2> QED
    BY <2>1, EmptyFacts DEF Covered, Present, Exists
<1> QED
  BY <1>1, <1>2, <1>3, PTL DEF Spec
============================================================================
