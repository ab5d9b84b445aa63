-------------------------- MODULE CesiumController --------------------------
(***************************************************************************)
(* The control arbiter of one Cesium channel                               *)
(* (cesium/internal/controller/controller.go).  Writers, deletes and       *)
(* existence checks open GATES over time ranges.  Gates whose ranges       *)
(* overlap share a REGION; in every region one gate, curr, holds control   *)
(* of the region's entity (the domain writer).                             *)
(*                                                                         *)
(* Each call below runs on the goroutine of the gate's owner.  A call is   *)
(* atomic when it holds its locks from start to end; the two places where  *)
(* it is not are kept apart:                                               *)
(*   - release() drops the region's lock before it calls                   *)
(*     controller.remove: status "removing" until Remove runs;             *)
(*   - unprotectedRelease sets curr to nil and then scans the gates, while *)
(*     LeadingState reads curr without the region's lock: status           *)
(*     "electing" until Elect runs.                                        *)
(* The sorted slice of regions is represented by the set of its members:   *)
(* they never overlap (ListedRegionsDisjoint), so their starts differ and  *)
(* the order is determined.                                                *)
(***************************************************************************)
EXTENDS Integers, FiniteSets

CONSTANTS
    Gates,       \* identities of Gate structs; each is opened at most once
    Regions,     \* identities of region structs; each is created at most once
    Subjects,    \* control subjects (their keys)
    Authorities, \* the authorities callers ask for
    Absolute,    \* control.Absolute, the highest authority
    Ranges,      \* the time ranges callers ask for: records [start, end]
    Nil          \* the nil pointer

ASSUME AuthorityAssumption ==
    /\ Authorities \subseteq Nat
    /\ Absolute \in Nat
    /\ \A a \in Authorities : a <= Absolute

\* MakeValid swaps an inverted range before it is used: ranges are valid here.
ASSUME RangeAssumption ==
    /\ Ranges \subseteq [start : Int, end : Int]
    /\ \A tr \in Ranges : tr.start <= tr.end

ASSUME NilAssumption ==
    /\ Nil \notin Gates
    /\ Nil \notin Regions
    /\ Nil \notin Ranges
    /\ Nil \notin [subject : Subjects, authority : Nat]

VARIABLES
    \* The Gate struct of each gate, and where its owner is in the calls on it.
    status, subject, authority, position, regionOf,
    \* The region struct of each region.
    timeRange, counter, curr, gates,
    \* The members of Controller.regions.
    listed,
    \* The To of the last Transfer that Occurred in each region: what a
    \* reader of the transfers believes about the region.
    reported,
    \* How many gates had been opened on each region when it last lost its
    \* last gate; 0 before that (history).
    emptied

gateVars == <<status, subject, authority, position, regionOf>>
regionVars == <<timeRange, counter, curr, gates>>
vars == <<status, subject, authority, position, regionOf,
          timeRange, counter, curr, gates, listed, reported, emptied>>

Levels == Authorities \cup {Absolute}

States == [subject : Subjects, authority : Nat]

-----------------------------------------------------------------------------
(* Helpers *)

ContainsStamp(tr, stamp) == stamp >= tr.start /\ stamp < tr.end

\* TimeRange.OverlapsWith, on valid ranges: a range of span 0 is a time stamp.
OverlapsWith(tr, rng) ==
    \/ tr = rng
    \/ rng.start = tr.start
    \/ /\ rng.end # tr.start
       /\ rng.start # tr.end
       /\ \/ ContainsStamp(tr, rng.end)
          \/ ContainsStamp(tr, rng.start)
          \/ ContainsStamp(rng, tr.start)
          \/ ContainsStamp(rng, tr.end)

\* Mutant: only the start of the new range is looked up.
OverlappingByStart(tr) == {r \in listed : ContainsStamp(timeRange[r], tr.start)}

\* The listed regions a call over range tr finds.
Overlapping(tr) == {r \in listed : OverlapsWith(timeRange[r], tr)}

\* The region that the loop over the sorted slice meets first.
IsFirst(r, rs) == r \in rs /\ \A s \in rs : timeRange[r].start <= timeRange[s].start

\* Gate.State
State(g) == [subject |-> subject[g], authority |-> authority[g]]

\* g precedes h: a higher authority, or the same one and an earlier position.
Precedes(ga, gp, ha, hp) == ga > ha \/ (ga = ha /\ gp < hp)

Outranks(g, h) ==
    Precedes(authority[g], position[g], authority[h], position[h])

\* Transfer.Occurred on the transfer from -> to.
Occurred(from, to) == from # to

\* A reader of the transfers of region r after the transfer from -> to.
Report(r, from, to) ==
    reported' = IF Occurred(from, to) THEN [reported EXCEPT ![r] = to]
                                      ELSE reported

\* The region's lock is held by a release that is choosing a new controller.
Electing(r) == \E g \in Gates : status[g] = "electing" /\ regionOf[g] = r

Unallocated(r) == timeRange[r] = Nil

-----------------------------------------------------------------------------
(* Operations *)

Init ==
    /\ status = [g \in Gates |-> "fresh"]
    /\ subject = [g \in Gates |-> Nil]
    /\ authority = [g \in Gates |-> 0]
    /\ position = [g \in Gates |-> 0]
    /\ regionOf = [g \in Gates |-> Nil]
    /\ timeRange = [r \in Regions |-> Nil]
    /\ counter = [r \in Regions |-> 0]
    /\ curr = [r \in Regions |-> Nil]
    /\ gates = [r \in Regions |-> {}]
    /\ listed = {}
    /\ reported = [r \in Regions |-> Nil]
    /\ emptied = [r \in Regions |-> 0]

\* The Gate struct that open builds on region r.
NewGate(g, r, s, a, st) ==
    /\ status[g] = "fresh"
    /\ status' = [status EXCEPT ![g] = st]
    /\ subject' = [subject EXCEPT ![g] = s]
    /\ authority' = [authority EXCEPT ![g] = a]
    /\ position' = [position EXCEPT ![g] = counter[r]]
    /\ regionOf' = [regionOf EXCEPT ![g] = r]

\* Mutant: a newcomer of equal authority takes control.
TakesControlOnTie(r, a) == curr[r] = Nil \/ a >= authority[curr[r]]

\* unprotectedOpen on region r whose controller may be nil or stale.
TakesControlOnOpen(r, a) == curr[r] = Nil \/ a > authority[curr[r]]

SubjectTaken(r, s) == \E og \in gates[r] : subject[og] = s

Attach(g, r, s, a) ==
    LET new == [subject |-> s, authority |-> a] IN
    /\ ~SubjectTaken(r, s)
    /\ gates' = [gates EXCEPT ![r] = @ \cup {g}]
    /\ counter' = [counter EXCEPT ![r] = @ + 1]
    /\ IF TakesControlOnOpen(r, a)
       THEN /\ curr' = [curr EXCEPT ![r] = g]
            /\ Report(r, IF curr[r] = Nil THEN Nil ELSE State(curr[r]), new)
       ELSE UNCHANGED <<curr, reported>>

\* insertNewRegion, then open on the region: nothing overlaps the range.  The
\* new region has no gates, so the open cannot fail.
OpenOnNewRegion(g, r, s, a, tr) ==
    /\ Overlapping(tr) = {}
    /\ Unallocated(r)
    /\ NewGate(g, r, s, a, "open")
    /\ timeRange' = [timeRange EXCEPT ![r] = tr]
    /\ listed' = listed \cup {r}
    /\ gates' = [gates EXCEPT ![r] = {g}]
    /\ counter' = [counter EXCEPT ![r] = 1]
    /\ curr' = [curr EXCEPT ![r] = g]
    /\ Report(r, Nil, [subject |-> s, authority |-> a])
    /\ UNCHANGED emptied

\* The gate a caller of an open on the overlapping regions rs receives: none
\* when there are several, although the first of them keeps the gate.
OpenedStatus(rs) == IF Cardinality(rs) = 1 THEN "open" ELSE "leaked"

\* OpenGateAndMaybeRegister when a listed region overlaps.  An already taken
\* subject is an error that changes nothing.  With several regions the call
\* returns an error after the gate was opened on the first one.
OpenOnExistingRegion(g, r, s, a, tr) ==
    /\ IsFirst(r, Overlapping(tr))
    /\ ~Electing(r)
    /\ NewGate(g, r, s, a, OpenedStatus(Overlapping(tr)))
    /\ Attach(g, r, s, a)
    /\ UNCHANGED <<timeRange, listed, emptied>>

OpenGateAndMaybeRegister(g, s, a, tr) ==
    \E r \in Regions : \/ OpenOnNewRegion(g, r, s, a, tr)
                       \/ OpenOnExistingRegion(g, r, s, a, tr)

\* OpenAbsoluteGateIfUncontrolled refuses a region that has a controller, so
\* the join happens only on a region that was registered without a gate.
OpenAbsoluteGateIfUncontrolled(g, s, tr) ==
    \E r \in Regions :
        \/ OpenOnNewRegion(g, r, s, Absolute, tr)
        \/ curr[r] = Nil /\ OpenOnExistingRegion(g, r, s, Absolute, tr)

\* Controller.Register: a region without gates.
Register(r, tr) ==
    /\ Overlapping(tr) = {}
    /\ Unallocated(r)
    /\ timeRange' = [timeRange EXCEPT ![r] = tr]
    /\ listed' = listed \cup {r}
    /\ UNCHANGED <<gateVars, counter, curr, gates, reported, emptied>>

\* The gates that take control from g, in control of r, at authority a.
Better(g, r, a) ==
    {og \in gates[r] \ {g} : Precedes(authority[og], position[og], a, position[g])}

\* unprotectedUpdate on the controlling gate.  The loop ranges over a Go map:
\* control goes to whichever better gate the iteration meets first.  From
\* carries the new authority when control moves, the old one otherwise.
UpdateController(g, r, a) ==
    LET new == [subject |-> subject[g], authority |-> a] IN
    /\ g = curr[r]
    /\ IF Better(g, r, a) = {}
       THEN /\ curr' = curr
            /\ Report(r, State(g), new)
       ELSE \E og \in Better(g, r, a) :
               /\ curr' = [curr EXCEPT ![r] = og]
               /\ Report(r, new, State(og))

\* Mutant: no tie-break by position.
UpdateContenderNoTieBreak(g, r, a) ==
    /\ g # curr[r]
    /\ IF a > authority[curr[r]]
       THEN /\ curr' = [curr EXCEPT ![r] = g]
            /\ Report(r, State(curr[r]), [subject |-> subject[g], authority |-> a])
       ELSE UNCHANGED <<curr, reported>>

\* Mutant: the takeover is not returned as a transfer.
UpdateContenderSilent(g, r, a) ==
    /\ g # curr[r]
    /\ IF Precedes(a, position[g], authority[curr[r]], position[curr[r]])
       THEN curr' = [curr EXCEPT ![r] = g] /\ UNCHANGED reported
       ELSE UNCHANGED <<curr, reported>>

\* unprotectedUpdate on a gate that is not in control.
UpdateContender(g, r, a) ==
    LET new == [subject |-> subject[g], authority |-> a] IN
    /\ g # curr[r]
    /\ IF Precedes(a, position[g], authority[curr[r]], position[curr[r]])
       THEN /\ curr' = [curr EXCEPT ![r] = g]
            /\ Report(r, State(curr[r]), new)
       ELSE UNCHANGED <<curr, reported>>

SetAuthority(g, a) ==
    /\ status[g] = "open"
    /\ ~Electing(regionOf[g])
    /\ authority' = [authority EXCEPT ![g] = a]
    /\ \/ UpdateController(g, regionOf[g], a)
       \/ UpdateContender(g, regionOf[g], a)
    /\ UNCHANGED <<status, subject, position, regionOf,
                   timeRange, counter, gates, listed, emptied>>

Detach(g, st) ==
    /\ ~Electing(regionOf[g])
    /\ gates' = [gates EXCEPT ![regionOf[g]] = @ \ {g}]
    /\ status' = [status EXCEPT ![g] = st]
    /\ UNCHANGED <<subject, authority, position, regionOf,
                   timeRange, counter, listed>>

Remaining(g) == gates[regionOf[g]] \ {g}

\* unprotectedRelease of the last gate: curr keeps pointing to the gate it
\* held.  release() then unlocks the region, and removes it in Remove.
ReleaseLast(g) ==
    /\ Remaining(g) = {}
    /\ Detach(g, "removing")
    /\ curr' = curr
    /\ Report(regionOf[g], State(g), Nil)
    /\ emptied' = [emptied EXCEPT ![regionOf[g]] = counter[regionOf[g]]]

\* Mutant: control is not handed to the last remaining gate.
ReleaseToLastKeepsCurr(g) ==
    \E k \in Remaining(g) :
        /\ Remaining(g) = {k}
        /\ Detach(g, "released")
        /\ curr' = curr
        /\ Report(regionOf[g], State(curr[regionOf[g]]), State(k))
        /\ UNCHANGED emptied

\* Mutant: release() removes the region when one gate remains.
ReleaseToLastRemoves(g) ==
    \E k \in Remaining(g) :
        /\ Remaining(g) = {k}
        /\ Detach(g, "removing")
        /\ curr' = [curr EXCEPT ![regionOf[g]] = k]
        /\ Report(regionOf[g], State(curr[regionOf[g]]), State(k))
        /\ UNCHANGED emptied

\* One gate remains: it is in control, whichever gate was released.
ReleaseToLast(g) ==
    \E k \in Remaining(g) :
        /\ Remaining(g) = {k}
        /\ Detach(g, "released")
        /\ curr' = [curr EXCEPT ![regionOf[g]] = k]
        /\ Report(regionOf[g], State(curr[regionOf[g]]), State(k))
        /\ UNCHANGED emptied

\* More than one gate remains and g is not in control.
ReleaseContender(g) ==
    /\ \E k, l \in Remaining(g) : k # l
    /\ g # curr[regionOf[g]]
    /\ Detach(g, "released")
    /\ UNCHANGED <<curr, reported, emptied>>

\* More than one gate remains and g is in control: curr is nil while the loop
\* over the gates, still under the region's lock, looks for the next one.
ReleaseController(g) ==
    /\ \E k, l \in Remaining(g) : k # l
    /\ g = curr[regionOf[g]]
    /\ Detach(g, "electing")
    /\ curr' = [curr EXCEPT ![regionOf[g]] = Nil]
    /\ UNCHANGED <<reported, emptied>>

Release(g) ==
    /\ status[g] = "open"
    /\ \/ ReleaseLast(g)
       \/ ReleaseToLast(g)
       \/ ReleaseContender(g)
       \/ ReleaseController(g)

\* The gate the loop of unprotectedRelease ends with.
Elect(g) ==
    /\ status[g] = "electing"
    /\ status' = [status EXCEPT ![g] = "released"]
    /\ \E og \in gates[regionOf[g]] :
          /\ \A k \in gates[regionOf[g]] \ {og} : Outranks(og, k)
          /\ curr' = [curr EXCEPT ![regionOf[g]] = og]
          /\ Report(regionOf[g], State(g), State(og))
    /\ UNCHANGED <<subject, authority, position, regionOf,
                   timeRange, counter, gates, listed, emptied>>

\* Controller.remove, called by release() after it unlocked the region.
Remove(g) ==
    /\ status[g] = "removing"
    /\ status' = [status EXCEPT ![g] = "released"]
    /\ listed' = listed \ {regionOf[g]}
    /\ UNCHANGED <<subject, authority, position, regionOf,
                   regionVars, reported, emptied>>

Open(g) ==
    \E s \in Subjects, tr \in Ranges :
        \/ \E a \in Authorities : OpenGateAndMaybeRegister(g, s, a, tr)
        \/ OpenAbsoluteGateIfUncontrolled(g, s, tr)

Next ==
    \/ \E g \in Gates :
          \/ Open(g)
          \/ \E a \in Authorities : SetAuthority(g, a)
          \/ Release(g)
          \/ Elect(g)
          \/ Remove(g)
    \/ \E r \in Regions, tr \in Ranges : Register(r, tr)

Spec == Init /\ [][Next]_vars

-----------------------------------------------------------------------------
(* Properties *)

\* Types of the gate and region structs.
TypeOK ==
    /\ status \in [Gates -> {"fresh", "open", "leaked", "electing",
                             "removing", "released"}]
    /\ subject \in [Gates -> Subjects \cup {Nil}]
    /\ authority \in [Gates -> Nat]
    /\ position \in [Gates -> Nat]
    /\ regionOf \in [Gates -> Regions \cup {Nil}]
    /\ timeRange \in [Regions -> Ranges \cup {Nil}]
    /\ counter \in [Regions -> Nat]
    /\ curr \in [Regions -> Gates \cup {Nil}]
    /\ gates \in [Regions -> SUBSET Gates]
    /\ listed \subseteq Regions
    /\ reported \in [Regions -> States \cup {Nil}]
    /\ emptied \in [Regions -> Nat]

\* Controller.regions never holds two regions that overlap: the search of
\* OpenGateAndMaybeRegister, OpenAbsoluteGateIfUncontrolled and register and
\* the insertion happen under one lock.
ListedRegionsDisjoint ==
    \A r, s \in listed : r # s => ~OverlapsWith(timeRange[r], timeRange[s])

\* A release of r's last gate has unlocked r and has not removed it yet.
Dying(r) == \E g \in Gates : status[g] = "removing" /\ regionOf[g] = r

\* r is listed, no call is half way through it, and it has gates.
Settled(r) == r \in listed /\ ~Dying(r) /\ ~Electing(r) /\ gates[r] # {}

\* A listed region that no release is tearing down is controlled by one of
\* its own gates: open, update and release never leave curr at a gate that
\* has been released, nor at nil.
SettledRegionControlled == \A r \in Regions : Settled(r) => curr[r] \in gates[r]

\* A reader of the transfers that open, SetAuthority and Release return knows
\* the controller of every such region and its authority.
TransfersTellController ==
    \A r \in Regions : Settled(r) => reported[r] = State(curr[r])

\* A gate of r was opened before r lost its last gate, or r never lost it.
HeldThroughout(g, r) == g \in gates[r] /\ (emptied[r] = 0 \/ position[g] < emptied[r])

\* release() removes a region when, and only when, it took its last gate: a
\* listed region that had gates and has none is about to be removed, and no
\* region is taken out of the list from under a gate that was open when the
\* release that removes it ran.  (A gate opened after that release unlocked the
\* region, and before remove, does end up on a region that is not listed: see
\* OverlappingGatesShareRegion.  A region whose last gate nobody received stays.)
RemovedWhenEmptied ==
    \A r \in Regions :
        /\ r \in listed /\ gates[r] = {} => counter[r] = 0 \/ Dying(r)
        /\ r \notin listed => \A g \in Gates : ~HeldThroughout(g, r)

\* Gates over overlapping time ranges are bound to the same region, as the
\* comment on GateConfig.TimeRange says, so that one of them is in control.
OverlappingGatesShareRegion ==
    \A g, h \in Gates :
        /\ status[g] = "open" /\ status[h] = "open"
        /\ OverlapsWith(timeRange[regionOf[g]], timeRange[regionOf[h]])
        => regionOf[g] = regionOf[h]

\* Control leaves a gate that stays open only for a gate that outranks it.
TakeoverOutranks ==
    \A r \in Regions :
        LET c == curr[r]
            d == curr'[r]
        IN  (c # d /\ c # Nil /\ d # Nil /\ c \in gates'[r]) =>
                Precedes(authority'[d], position'[d], authority'[c], position'[c])

ControlNeverUsurped == [][TakeoverOutranks]_vars

\* The controller of r outranks r's other gates.
HighestInControl(r) == \A k \in gates[r] \ {curr[r]} : Outranks(curr[r], k)

ControllerKeepsAuthority(r) == authority'[curr[r]] >= authority[curr[r]]

\* The highest gate stays in control in every step but the one in which the
\* controller lowers its own authority.
HighestKeptStep ==
    \A r \in Regions :
        /\ Settled(r)'
        /\ Settled(r) => HighestInControl(r) /\ ControllerKeepsAuthority(r)
        => HighestInControl(r)'

HighestKept == [][HighestKeptStep]_vars
=============================================================================
