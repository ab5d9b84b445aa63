------------------------------- MODULE Drift -------------------------------
(***************************************************************************)
(* Drift (src/drift): one Redux store per window of a desktop application, *)
(* kept in step by broadcasting every action a window dispatches, and a    *)
(* slice of that state which says what windows there should be.  The main  *)
(* window alone creates and destroys windows of the runtime (Tauri); every *)
(* other window fetches its first state from the main window.              *)
(*                                                                         *)
(* A window is known by its label, a number here (id.create() never        *)
(* repeats itself); Main is 0.  A window may also come up under the label  *)
(* "undefined": a property that is set for a key no window has puts it     *)
(* there.  Of a window's properties the model keeps visible, alwaysOnTop   *)
(* and title: one for each way a reducer sets one.                         *)
(***************************************************************************)
EXTENDS Integers, Sequences, FiniteSets, Functions

CONSTANTS Keys,            \* keys the application gives its windows
          MAIN_WINDOW,     \* the key of the main window
          PRERENDER_WINDOW,\* the key of every window rendered in advance
          NoKey,           \* a window's key when it has none
          Titles,          \* values of the properties that reducers just assign
          EnablePrerender, \* configureStore's enablePrerender
          Dispatchable,    \* types of the actions the application dispatches
          MaxLabel,        \* bound: labels ever created
          MaxDispatch,     \* bound: actions the application dispatches
          MaxFaults        \* bound: window events of the runtime, calls that throw

ASSUME DriftAssumption ==
  /\ EnablePrerender \in BOOLEAN
  /\ {MaxLabel, MaxDispatch, MaxFaults} \subseteq Nat
  /\ Keys \cap {MAIN_WINDOW, PRERENDER_WINDOW, NoKey} = {}

VARIABLES
  phase,    \* how far the window's configureStore has come
  store,    \* the drift slice of each window's store
  boot,     \* syncInitial: the labels of the state it was given, and its calls
  effects,  \* per window: the calls queued on the middleware's mutex
  inbox,    \* per window: events on their way to its listener
  replies,  \* states the main window is about to send
  reloads,  \* windows whose delayedReload timer runs
  persisted,\* the state preloadedState() finds, none before the first restart
  fresh,    \* the next label id.create() gives
  clock,    \* per window: how many actions it has dispatched
  heard,    \* per window and emitter: the last of its actions that was applied
  left      \* what remains of the bounds

vars == <<phase, store, boot, effects, inbox, replies, reloads, persisted,
          fresh, clock, heard, left>>

Main == 0
Undefined == -1     \* the label "undefined", which JavaScript makes of a missing one
Labels == {Undefined} \cup Main .. MaxLabel
NoLabel == -3       \* a payload's label that is undefined
Whitelist == -2     \* the emitter of what the runtime itself reports
NaN == -99          \* what incrementing an absent counter gives

Put(f, x, v) == [y \in DOMAIN f \cup {x} |-> IF y = x THEN v ELSE f[y]]
Del(f, x) == [y \in DOMAIN f \ {x} |-> f[y]]
Add(n, d) == IF n = NaN THEN NaN ELSE n + d

-----------------------------------------------------------------------------
(* The slice and its reducers.                                             *)

INITIAL_WINDOW_STATE ==
  [key |-> NoKey, stage |-> "creating", processCount |-> 0, reserved |-> FALSE,
   focusCount |-> 0, visible |-> "unset", alwaysOnTop |-> "unset",
   title |-> "unset", error |-> FALSE]

INITIAL_PRERENDER_WINDOW_STATE ==
  [INITIAL_WINDOW_STATE EXCEPT !.key = PRERENDER_WINDOW, !.visible = "no"]

\* {...undefined, ...payload}: no stage, no counters, not reserved.
EmptyWindow ==
  [INITIAL_WINDOW_STATE EXCEPT !.stage = "unset", !.processCount = NaN,
                               !.focusCount = NaN]

ZERO_SLICE_STATE ==
  [label |-> Main,
   windows |-> [l \in {Main} |->
      [INITIAL_WINDOW_STATE EXCEPT !.key = MAIN_WINDOW, !.reserved = TRUE]],
   order |-> <<Main>>,                \* Object.keys(windows): insertion order
   labelKeys |-> [l \in {Main} |-> MAIN_WINDOW],
   keyLabels |-> [k \in {MAIN_WINDOW} |-> Main]]

\* The keys of an object from which some are deleted: the others keep their places.
Without(order, gone) ==
  LET F[i \in 0 .. Len(order)] ==
        IF i = 0 THEN <<>>
        ELSE IF order[i] \in gone THEN F[i - 1] ELSE Append(F[i - 1], order[i])
  IN F[Len(order)]

SetWindow(s, l, win) ==
  [s EXCEPT !.windows = Put(@, l, win),
            !.order = IF l \in DOMAIN s.windows THEN @ ELSE Append(@, l)]

DeleteWindow(s, l) ==
  [s EXCEPT !.windows = Del(@, l),
            !.order = Without(@, {l}),
            !.labelKeys = Del(@, l),
            !.keyLabels = Del(@, s.windows[l].key)]

\* The property of windows that the payload's label names.
LabelOf(s, a) == IF "label" \in DOMAIN a /\ a.label # NoLabel THEN a.label ELSE Undefined

assignLabel(s, a, n) ==
  CASE a.type = "createWindow" ->
         IF s.label # Main THEN a ELSE Put(Put(a, "label", n), "prerenderLabel", n + 1)
    [] a.type # "createWindow" /\ "label" \in DOMAIN a -> a
    [] OTHER ->
         Put(a, "label",
             IF "key" \notin DOMAIN a THEN s.label
             ELSE IF a.key \in DOMAIN s.windows THEN a.key
             ELSE IF a.key \in DOMAIN s.keyLabels THEN s.keyLabels[a.key]
             ELSE NoLabel)

alreadyHasPreRender(s) ==
  \E l \in DOMAIN s.windows : s.windows[l].key = PRERENDER_WINDOW /\ ~s.windows[l].reserved

\* Object.entries(windows).find: the first window that is not reserved, if any.
available(s) ==
  {s.order[i] : i \in {n \in DOMAIN s.order :
     /\ s.order[n] \in DOMAIN s.windows /\ ~s.windows[s.order[n]].reserved
     /\ \A m \in 1 .. n - 1 : s.windows[s.order[m]].reserved}}

AddPrerender(s, l) == SetWindow(s, l, INITIAL_PRERENDER_WINDOW_STATE)

reduceCreateWindow(s, a) ==
  LET l == IF available(s) = {} THEN a.label ELSE CHOOSE x \in available(s) : TRUE
      win == IF available(s) = {}
             THEN [INITIAL_WINDOW_STATE EXCEPT !.reserved = TRUE, !.key = a.key,
                                               !.title = a.title]
             ELSE [s.windows[l] EXCEPT !.visible = "yes", !.reserved = TRUE,
                     !.focusCount = 1, !.key = a.key, !.title = a.title]
      t == [SetWindow(s, l, win) EXCEPT !.labelKeys = Put(@, l, a.key),
                                        !.keyLabels = Put(@, a.key, l)]
  IN IF a.key \in DOMAIN s.keyLabels
     THEN LET e == s.keyLabels[a.key]
          IN SetWindow(s, e, [s.windows[e] EXCEPT !.visible = "yes",
                                                  !.focusCount = Add(@, 1)])
     ELSE IF EnablePrerender /\ ~alreadyHasPreRender(t)
          THEN AddPrerender(t, a.prerenderLabel) ELSE t

reduceCloseWindow(s, l) ==
  IF s.windows[l].processCount > 0 THEN s ELSE DeleteWindow(s, l)

reduceCompleteProcess(s, l) ==
  LET t == [s EXCEPT !.windows[l].processCount = Add(@, -1)]
  IN IF t.windows[l].processCount = 0 /\ t.windows[l].stage # "reloading"
     THEN DeleteWindow(t, l) ELSE t

\* assignBool: the value given, the opposite of the current one, or a default.
assignBool(s, l, prop, a, def) ==
  LET v == IF a.value # "unset" THEN a.value
           ELSE CASE s.windows[l][prop] = "yes" -> "no"
                  [] s.windows[l][prop] = "no"  -> "yes"
                  [] OTHER -> def
  IN [s EXCEPT !.windows[l][prop] = v]

\* Merges the payload into the window, which need not be there.
reduceSetWindowProps(s, l, a) ==
  LET prev == IF l \in DOMAIN s.windows THEN s.windows[l] ELSE EmptyWindow
  IN SetWindow(s, l, [prev EXCEPT !.visible = a.visible,
                                  !.key = IF "key" \in DOMAIN a THEN a.key ELSE @])

\* window.location.reload() is asked for by the reducer, in every window.
Reloads(s, a) ==
  LET l == LabelOf(s, a) IN
  /\ l \in DOMAIN s.windows
  /\ \/ a.type = "reloadWindow" /\ ~(s.windows[l].processCount > 0)
     \/ a.type = "completeProcess" /\ s.windows[l].processCount = 1
          /\ s.windows[l].stage = "reloading"

\* The reducers that throw: the dispatch then has no effect at all.
Throws(s, a) ==
  CASE a.type = "createWindow" ->
         \/ ~({"label", "prerenderLabel"} \subseteq DOMAIN a)
         \/ Main \notin DOMAIN s.windows
         \/ a.key \in DOMAIN s.keyLabels /\ s.keyLabels[a.key] \notin DOMAIN s.windows
    [] a.type = "setWindowTitle" -> LabelOf(s, a) \notin DOMAIN s.windows
    [] OTHER -> FALSE

\* The reducers that need the window to be there.
reduceWindow(s, l, a) ==
  CASE a.type = "setWindowStage" -> [s EXCEPT !.windows[l].stage = a.stage]
    [] a.type = "closeWindow" -> reduceCloseWindow(s, l)
    [] a.type = "registerProcess" -> [s EXCEPT !.windows[l].processCount = Add(@, 1)]
    [] a.type = "completeProcess" -> reduceCompleteProcess(s, l)
    [] a.type = "reloadWindow" ->
         IF s.windows[l].processCount > 0 THEN s
         ELSE [s EXCEPT !.windows[l].stage = "reloading"]
    [] a.type = "focusWindow" ->
         [s EXCEPT !.windows[l].visible = "yes", !.windows[l].focusCount = Add(@, 1)]
    [] a.type = "setWindowVisible" -> assignBool(s, l, "visible", a, "yes")
    [] a.type = "setWindowAlwaysOnTop" -> assignBool(s, l, "alwaysOnTop", a, "no")
    [] a.type = "setWindowTitle" -> [s EXCEPT !.windows[l].title = a.title]

reducer(s, a, n) ==
  LET l == LabelOf(s, a)
  IN CASE a.type = "internalSetInitial" ->
            IF l = Main /\ EnablePrerender
            THEN AddPrerender([s EXCEPT !.label = l], n) ELSE [s EXCEPT !.label = l]
       [] a.type = "createWindow" -> reduceCreateWindow(s, a)
       [] a.type \in {"setWindowProps", "runtimeSetWindowProps"} ->
            reduceSetWindowProps(s, l, a)
       [] a.type = "setWindowError" ->
            IF a.key \in DOMAIN s.windows
            THEN [s EXCEPT !.windows[a.key].error = TRUE] ELSE s
       [] OTHER -> IF l \in DOMAIN s.windows THEN reduceWindow(s, l, a) ELSE s

-----------------------------------------------------------------------------
(* The middleware: reduce, queue the calls on the mutex, emit at their end. *)

\* The calls of one dispatch, in this order: windows to close, windows to create,
\* changes of the window's own properties, the action to emit if there is one.
NoCalls == [close |-> {}, create |-> {}, current |-> FALSE, emit |-> {}]

\* Mutant: windows are created, and closed only with the main window.
syncMainCreates(prev, next) ==
  [NoCalls EXCEPT
     !.close = IF Main \in DOMAIN prev.windows \ DOMAIN next.windows
               THEN DOMAIN prev.windows ELSE {},
     !.create = DOMAIN next.windows \ DOMAIN prev.windows]

\* syncMain: the calls of the main window for what changed in the slice.
syncMain(prev, next) ==
  LET removed == DOMAIN prev.windows \ DOMAIN next.windows
  IN [NoCalls EXCEPT
        !.close = removed \cup (IF Main \in removed THEN DOMAIN next.windows ELSE {}),
        !.create = DOMAIN next.windows \ DOMAIN prev.windows]

\* syncCurrent: whether a window has calls to make for its own properties.
syncCurrent(old, new) ==
  \/ new.title # "unset" /\ new.title # old.title
  \/ new.visible # "unset" /\ new.visible # old.visible
  \/ new.alwaysOnTop # "unset" /\ new.alwaysOnTop # old.alwaysOnTop
  \/ new.focusCount # old.focusCount

sync(w, prev, next) ==
  [(IF w = Main THEN syncMain(prev, next) ELSE NoCalls) EXCEPT
     !.current = /\ w \in DOMAIN prev.windows \cap DOMAIN next.windows
                 /\ syncCurrent(prev.windows[w], next.windows[w])]

EXCLUDE_SYNC_ACTIONS == {"runtimeSetWindowProps", "reloadWindow"}
EXCLUDED_ACTIONS == {"internalSetInitial"}

\* What a dispatch in window w works on: its store, its queue and the clocks.
Local(w) == [slice |-> store[w], queue |-> effects[w], reload |-> FALSE,
             fresh |-> fresh, clock |-> clock[w]]

\* How many labels assignLabel and the reducer draw (the second one of a
\* createWindow is never looked at without prerendering).
Drawn(s, a) ==
  CASE a.type = "createWindow" /\ s.label = Main -> IF EnablePrerender THEN 2 ELSE 1
    [] a.type = "internalSetInitial" /\ a.label = Main /\ EnablePrerender -> 1
    [] OTHER -> 0

\* Mutant: an action with nothing to synchronise does not wait for the mutex.
EnqueueAhead(queue, calls) ==
  IF calls = NoCalls THEN queue
  ELSE IF calls = [NoCalls EXCEPT !.emit = calls.emit] THEN <<calls>> \o queue
  ELSE Append(queue, calls)

Enqueue(queue, calls) == IF calls = NoCalls THEN queue ELSE Append(queue, calls)

\* middleware(action) in window w; emitted: it came from another window.
Dispatch(loc, w, a, emitted) ==
  LET s == loc.slice
      b == assignLabel(s, a, loc.fresh)
      t == reducer(s, b, loc.fresh)
      n == loc.clock + 1
      emits == ~emitted /\ a.type \notin EXCLUDED_ACTIONS
      calls == [(IF a.type \in EXCLUDE_SYNC_ACTIONS THEN NoCalls ELSE sync(w, s, t))
                EXCEPT !.emit = IF emits THEN {Put(b, "n", n)} ELSE {}]
  IN IF Throws(s, b)
     THEN [loc EXCEPT !.fresh = @ + Drawn(s, a)]
     ELSE [slice |-> t, queue |-> Enqueue(loc.queue, calls),
           reload |-> loc.reload \/ Reloads(s, b),
           fresh |-> loc.fresh + Drawn(s, a),
           clock |-> IF emits THEN n ELSE loc.clock]

\* Window w is left with what a dispatch returned.
Commit(w, outcome) == \E loc \in {outcome} :
  /\ store' = [store EXCEPT ![w] = loc.slice]
  /\ effects' = [effects EXCEPT ![w] = loc.queue]
  /\ reloads' = IF loc.reload THEN reloads \cup {w} ELSE reloads
  /\ fresh' = loc.fresh
  /\ clock' = [clock EXCEPT ![w] = loc.clock]
  /\ loc.fresh <= MaxLabel + 1

-----------------------------------------------------------------------------
(* The runtime: windows, their listeners and the events between them.      *)

Exists(w) == phase[w] # "off"
\* Mutant: a window subscribes once it has been given its state.
ListeningLate(w) == phase[w] \in {"listing", "syncing", "up"} \/ (w = Main /\ phase[w] = "subscribed")
Listening(w) == phase[w] \notin {"off", "booting"}
HasStore(w) == phase[w] \in {"listing", "syncing", "up"}

\* JSON.stringify leaves out what is undefined.
encode(a) == IF "label" \in DOMAIN a /\ a.label = NoLabel THEN Del(a, "label") ELSE a

\* emit without a target reaches every window that listens.  The sender's own
\* copy, which its middleware discards (emitter = runtime.label()), is left out.
Broadcast(box, ev) ==
  [w \in Labels |-> IF Listening(w) /\ w # ev.emitter THEN Append(box[w], ev) ELSE box[w]]

NoBoot == [seen |-> {}, close |-> {}, create |-> {}]

\* A window's script and what it held are gone; its next phase is ph.
Drop(ws, ph) ==
  /\ phase' = [w \in Labels |-> IF w \in ws THEN ph ELSE phase[w]]
  /\ store' = [w \in Labels |-> IF w \in ws THEN ZERO_SLICE_STATE ELSE store[w]]
  /\ boot' = [w \in Labels |-> IF w \in ws THEN NoBoot ELSE boot[w]]
  /\ inbox' = [w \in Labels |-> IF w \in ws THEN <<>> ELSE inbox[w]]
  /\ reloads' = reloads \ ws
  /\ replies' = IF Main \in ws THEN {} ELSE replies

\* What remains of w's queue when calls are left of its first dispatch.
AfterCall(w, calls) ==
  IF calls = NoCalls THEN Tail(effects[w]) ELSE [effects[w] EXCEPT ![1] = calls]

\* runtime.close: the main window closes the others all at once, then itself.
CloseCall(w, calls) == \E l \in calls.close :
  /\ l = Main => calls.close = {Main}
  /\ \E rest \in {AfterCall(w, [calls EXCEPT !.close = @ \ {l}])} :
       \/ /\ Exists(l)
          /\ Drop({l}, "off")
          /\ effects' = [effects EXCEPT ![w] = rest, ![l] = <<>>]
       \/ /\ ~Exists(l)
          /\ effects' = [effects EXCEPT ![w] = rest]
          /\ UNCHANGED <<phase, store, boot, inbox, reloads, replies>>

\* runtime.create: a window that exists already is left alone.
CreateCall(w, calls) == \E l \in calls.create :
  /\ calls.close = {}
  /\ phase' = [phase EXCEPT ![l] = IF @ = "off" THEN "booting" ELSE @]
  /\ effects' = [effects EXCEPT ![w] = AfterCall(w, [calls EXCEPT !.create = @ \ {l}])]
  /\ UNCHANGED <<store, boot, inbox, reloads, replies>>

CurrentCall(w, calls) ==
  /\ calls.close = {} /\ calls.create = {} /\ calls.current
  /\ effects' = [effects EXCEPT ![w] = AfterCall(w, [calls EXCEPT !.current = FALSE])]
  /\ UNCHANGED <<phase, store, boot, inbox, reloads, replies>>

EmitCall(w, calls) == \E a \in calls.emit :
  /\ calls = [NoCalls EXCEPT !.emit = {a}]
  /\ inbox' = Broadcast(inbox, [kind |-> "action", emitter |-> w, action |-> encode(a)])
  /\ effects' = [effects EXCEPT ![w] = Tail(@)]
  /\ UNCHANGED <<phase, store, boot, reloads, replies>>

\* One call of the effect that holds the mutex.
RunCall(w) ==
  /\ effects[w] # <<>>
  /\ \E calls \in {Head(effects[w])} :
       CloseCall(w, calls) \/ CreateCall(w, calls) \/ CurrentCall(w, calls) \/ EmitCall(w, calls)
  /\ UNCHANGED <<persisted, fresh, clock, heard, left>>

\* The call throws: the rest of the effect, its emit too, is skipped.  close does
\* not throw: destroying a window, like making one, is taken to succeed (where it
\* does not, the runtime logs it and the effect goes on).
FailCall(w) ==
  /\ effects[w] # <<>> /\ left.faults > 0
  /\ Head(effects[w]).close = {}
  /\ left' = [left EXCEPT !.faults = @ - 1]
  /\ Commit(w, Dispatch([Local(w) EXCEPT !.queue = Tail(@)], w,
                        [type |-> "setWindowError", key |-> w], FALSE))
  /\ UNCHANGED <<phase, boot, inbox, replies, persisted, heard>>

-----------------------------------------------------------------------------
(* configureStore: how a window comes up.                                  *)

\* runtime.subscribe, before which no event reaches the window.
Subscribe(w) ==
  /\ phase[w] = "booting"
  /\ phase' = [phase EXCEPT ![w] = "subscribed"]
  /\ UNCHANGED <<store, boot, effects, inbox, replies, reloads, persisted, fresh,
                 clock, heard, left>>

\* resetInitialState: only reserved windows survive, with no counts.
resetInitialState(s) ==
  LET kept == {l \in DOMAIN s.windows : s.windows[l].reserved}
  IN [s EXCEPT
        !.windows = [l \in kept |-> [s.windows[l] EXCEPT !.focusCount = 0,
                                                         !.processCount = 0]],
        !.order = Without(@, DOMAIN s.windows \ kept)]

\* The store is made and syncInitial starts with its state.
OpenStore(w, s) ==
  /\ store' = [store EXCEPT ![w] = s]
  /\ phase' = [phase EXCEPT ![w] = "listing"]
  /\ boot' = [boot EXCEPT ![w].seen = DOMAIN s.windows]

\* The main window awaits preloadedState().
LoadPreloadedState ==
  /\ phase[Main] = "subscribed"
  /\ \E s \in IF persisted = {} THEN {ZERO_SLICE_STATE}
             ELSE {resetInitialState(p) : p \in persisted} : OpenStore(Main, s)
  /\ UNCHANGED <<effects, inbox, replies, reloads, persisted, fresh, clock, heard, left>>

\* Any other window asks the main window, once, if that one listens.
RequestState(w) ==
  /\ w # Main /\ phase[w] = "subscribed"
  /\ phase' = [phase EXCEPT ![w] = "waiting"]
  /\ inbox' = IF Listening(Main)
              THEN [inbox EXCEPT ![Main] = Append(@, [kind |-> "sendState", emitter |-> w])]
              ELSE inbox
  /\ UNCHANGED <<store, boot, effects, replies, reloads, persisted, fresh, clock,
                 heard, left>>

\* listLabels() answers: what to close and, in the main window, to create.
ListLabels(w) ==
  /\ phase[w] = "listing"
  /\ LET present == {l \in Labels \ {Main} : Exists(l)}
         nonMain == boot[w].seen \ {Main}
     IN boot' = [boot EXCEPT ![w].close = present \ nonMain,
                             ![w].create = IF w = Main THEN nonMain \ present ELSE {}]
  /\ phase' = [phase EXCEPT ![w] = "syncing"]
  /\ UNCHANGED <<store, effects, inbox, replies, reloads, persisted, fresh, clock,
                 heard, left>>

\* syncInitial closes l, a window of the runtime that its state does not have.
CloseExtra(w, l) ==
  /\ phase' = [phase EXCEPT ![l] = "off"]
  /\ store' = [store EXCEPT ![l] = ZERO_SLICE_STATE]
  /\ boot' = [[boot EXCEPT ![w].close = @ \ {l}] EXCEPT ![l] = NoBoot]
  /\ inbox' = [inbox EXCEPT ![l] = <<>>]
  /\ effects' = [effects EXCEPT ![l] = <<>>]
  /\ reloads' = reloads \ {l}

\* It creates l, a window of its state that the runtime does not have.
CreateMissing(w, l) ==
  /\ phase' = [phase EXCEPT ![l] = IF @ = "off" THEN "booting" ELSE @]
  /\ boot' = [boot EXCEPT ![w].create = @ \ {l}]
  /\ UNCHANGED <<store, inbox, effects, reloads>>

\* One call of syncInitial's loop; it does not hold the mutex.
SyncInitialCall(w) ==
  /\ phase[w] = "syncing"
  /\ \/ \E l \in boot[w].close : CloseExtra(w, l)
     \/ boot[w].close = {} /\ \E l \in boot[w].create : CreateMissing(w, l)
  /\ UNCHANGED <<replies, persisted, fresh, clock, heard, left>>

\* What the runtime reports of a window that is shown unless it was hidden.
IsVisible(w) ==
  IF w \in DOMAIN store[w].windows /\ store[w].windows[w].visible = "no" THEN "no" ELSE "yes"

\* The end of configureStore: three dispatches with no await between them.
FinishConfigure(w) ==
  /\ phase[w] = "syncing" /\ boot[w].close = {} /\ boot[w].create = {}
  /\ phase' = [phase EXCEPT ![w] = "up"]
  /\ boot' = [boot EXCEPT ![w] = NoBoot]
  /\ LET props == [type |-> "runtimeSetWindowProps", label |-> w, visible |-> IsVisible(w)]
     IN \E l1 \in {IF w \in boot[w].seen THEN Dispatch(Local(w), w, props, FALSE)
                   ELSE Local(w)} :
        \E l2 \in {Dispatch(l1, w, [type |-> "internalSetInitial", label |-> w], FALSE)} :
          Commit(w, Dispatch(l2, w, [type |-> "setWindowStage", stage |-> "created"], FALSE))
  /\ UNCHANGED <<inbox, replies, persisted, heard, left>>

-----------------------------------------------------------------------------
(* The listeners given to runtime.subscribe.                               *)

\* The event reaches a listener that has no use for it.
Ignore(w) ==
  /\ inbox' = [inbox EXCEPT ![w] = Tail(@)]
  /\ UNCHANGED <<phase, store, boot, effects, replies, reloads, persisted, fresh,
                 clock, heard, left>>

\* An action of another window: lost on a window that has no store yet.
ReceiveAction(w) ==
  /\ inbox[w] # <<>> /\ Head(inbox[w]).kind = "action"
  /\ LET ev == Head(inbox[w]) IN
     \/ /\ ~HasStore(w)
        /\ Ignore(w)
     \/ /\ HasStore(w)
        /\ inbox' = [inbox EXCEPT ![w] = Tail(@)]
        /\ heard' = IF ev.emitter = Whitelist THEN heard
                    ELSE [heard EXCEPT ![w][ev.emitter] = ev.action.n]
        /\ Commit(w, Dispatch(Local(w), w, ev.action, TRUE))
        /\ UNCHANGED <<phase, boot, replies, persisted, left>>

\* The main window answers with its state of now, sent when the call is made.
ReceiveRequest ==
  /\ inbox[Main] # <<>> /\ Head(inbox[Main]).kind = "sendState"
  /\ \/ /\ ~HasStore(Main)
        /\ Ignore(Main)
     \/ /\ HasStore(Main)
        /\ replies' = replies \cup {[to |-> Head(inbox[Main]).emitter, state |-> store[Main]]}
        /\ inbox' = [inbox EXCEPT ![Main] = Tail(@)]
        /\ UNCHANGED <<phase, store, boot, effects, reloads, persisted, fresh, clock,
                       heard, left>>

SendReply(r) ==
  /\ r \in replies
  /\ replies' = replies \ {r}
  /\ inbox' = IF Listening(r.to)
              THEN [inbox EXCEPT ![r.to] = Append(@, [kind |-> "state", emitter |-> Main,
                                                      state |-> r.state])]
              ELSE inbox
  /\ UNCHANGED <<phase, store, boot, effects, reloads, persisted, fresh, clock, heard,
                 left>>

ReceiveState(w) ==
  /\ inbox[w] # <<>> /\ Head(inbox[w]).kind = "state"
  /\ \/ /\ phase[w] # "waiting"
        /\ Ignore(w)
     \/ /\ phase[w] = "waiting"
        /\ OpenStore(w, Head(inbox[w]).state)
        /\ inbox' = [inbox EXCEPT ![w] = Tail(@)]
        /\ UNCHANGED <<effects, replies, reloads, persisted, fresh, clock, heard, left>>

-----------------------------------------------------------------------------
(* The application, the user and the runtime's own events.                 *)

\* A window may be named by a key, which need not be known (any more) in the
\* store it is dispatched in; without one the action is about the window's own.
UserActions ==
  LET own == {[type |-> ty] : ty \in {"focusWindow", "registerProcess", "completeProcess",
                                      "reloadWindow", "closeWindow"}}
      keyed == [type : {"focusWindow", "closeWindow"}, key : Keys]
      flags == [type : {"setWindowVisible", "setWindowAlwaysOnTop"}, key : Keys,
                value : {"no", "unset"}]
      titles == [type : {"setWindowTitle"}, key : Keys, title : Titles]
      creates == [type : {"createWindow"}, key : Keys, title : Titles]
      props == [type : {"setWindowProps"}, key : Keys, visible : {"yes"}]
  IN {a \in own \cup keyed \cup flags \cup titles \cup creates \cup props :
        a.type \in Dispatchable}

UserDispatch(w) ==
  /\ phase[w] = "up" /\ left.dispatch > 0
  /\ left' = [left EXCEPT !.dispatch = @ - 1]
  /\ \E a \in UserActions : Commit(w, Dispatch(Local(w), w, a, FALSE))
  /\ UNCHANGED <<phase, boot, inbox, replies, persisted, heard>>

\* The user closes the window: onCloseRequested, registered last.
CloseRequested(w) ==
  /\ phase[w] = "up" /\ left.dispatch > 0
  /\ left' = [left EXCEPT !.dispatch = @ - 1]
  /\ Commit(w, Dispatch(Local(w), w, [type |-> "closeWindow"], FALSE))
  /\ UNCHANGED <<phase, boot, inbox, replies, persisted, heard>>

\* A window event of the runtime, broadcast by its handler past the mutex.
WindowEvent(w) ==
  /\ Listening(w) /\ left.faults > 0
  /\ left' = [left EXCEPT !.faults = @ - 1]
  /\ inbox' = Broadcast(inbox,
       [kind |-> "action", emitter |-> Whitelist,
        action |-> [type |-> "runtimeSetWindowProps", label |-> w,
                    visible |-> IsVisible(w)]])
  /\ UNCHANGED <<phase, store, boot, effects, replies, reloads, persisted, fresh,
                 clock, heard>>

\* delayedReload fires: the window's script starts over.
Reload(w) ==
  /\ w \in reloads
  /\ persisted' = IF w = Main THEN {store[Main]} ELSE persisted
  /\ Drop({w}, "booting")
  /\ effects' = [effects EXCEPT ![w] = <<>>]
  /\ UNCHANGED <<fresh, clock, heard, left>>

-----------------------------------------------------------------------------
Init ==
  /\ phase = [w \in Labels |-> IF w = Main THEN "booting" ELSE "off"]
  /\ store = [w \in Labels |-> ZERO_SLICE_STATE]
  /\ boot = [w \in Labels |-> NoBoot]
  /\ effects = [w \in Labels |-> <<>>]
  /\ inbox = [w \in Labels |-> <<>>]
  /\ replies = {}
  /\ reloads = {}
  /\ persisted = {}
  /\ fresh = 1
  /\ clock = [w \in Labels |-> 0]
  /\ heard = [w \in Labels |-> [e \in Labels |-> 0]]
  /\ left = [dispatch |-> MaxDispatch, faults |-> MaxFaults]

\* Steps that the program takes by itself.
Proceed(w) ==
  \/ Subscribe(w) \/ RequestState(w) \/ ListLabels(w) \/ SyncInitialCall(w)
  \/ FinishConfigure(w) \/ ReceiveAction(w) \/ ReceiveState(w) \/ RunCall(w)
  \/ w = Main /\ (LoadPreloadedState \/ ReceiveRequest)

Next ==
  \/ \E w \in Labels : Proceed(w)
  \/ \E r \in replies : SendReply(r)
  \/ \E w \in Labels : FailCall(w) \/ UserDispatch(w) \/ CloseRequested(w)
  \/ \E w \in Labels : WindowEvent(w) \/ Reload(w)

Spec == Init /\ [][Next]_vars

\* Calls to the runtime return and events are delivered in every window.
Fairness ==
  /\ \A w \in Labels : WF_vars(Proceed(w))
  /\ WF_vars(\E r \in replies : SendReply(r))

FairSpec == Spec /\ Fairness

-----------------------------------------------------------------------------
(* Properties.                                                             *)

\* The main window's script has started over at least once.
MainRestarted == persisted # {}

\* Once the main window has made its calls, no window of the runtime is unknown
\* to its store: nothing is left on the screen that no action can reach.  (A
\* main window that restarts can lose this: its syncInitial creates, from the
\* state it was given, a window that was closed meanwhile.)
NoOrphanWindow ==
  (phase[Main] = "up" /\ effects[Main] = <<>> /\ ~MainRestarted) =>
    \A l \in Labels \ {Main} : Exists(l) => l \in DOMAIN store[Main].windows

\* A window applies the actions of another in the order they were dispatched
\* there, none twice, whatever calls (sync) the emitter made before each.
ActionsInOrder ==
  \A w, e \in Labels :
    LET mine == {i \in DOMAIN inbox[w] : inbox[w][i].kind = "action" /\ inbox[w][i].emitter = e}
    IN \A i \in mine :
         /\ inbox[w][i].action.n > heard[w][e]
         /\ \A j \in mine : j < i => inbox[w][j].action.n < inbox[w][i].action.n

\* A window that waits for the main window's state gets it and comes up, or is
\* destroyed, as long as the main window does not restart: subscribing before the
\* request is sent is enough not to miss the answer.
HandshakeEnds ==
  \A w \in Labels \ {Main} :
    phase[w] = "waiting" ~> (phase[w] \in {"up", "off"} \/ MainRestarted)
============================================================================
