----------------------- MODULE CesiumControllerProofs -----------------------
(***************************************************************************)
(* Safety of the control arbiter, for every set of gates, regions,         *)
(* subjects, authorities and time ranges.                                  *)
(*                                                                         *)
(* The three invariants are not inductive: that curr is one of the         *)
(* region's gates needs to know which gates the region holds and whose     *)
(* release is half way through; that transfers tell the controller needs   *)
(* subjects to be distinct within a region, or a transfer between two      *)
(* gates could look like none at all.  IInv adds those facts.              *)
(***************************************************************************)
EXTENDS CesiumController, TLAPS

\* A region's gates are the opened gates that point to it.
Membership ==
    \A g \in Gates, r \in Regions :
        g \in gates[r] <=> (status[g] \in {"open", "leaked"} /\ regionOf[g] = r)

\* An opened gate has a subject and an allocated region.
Opened ==
    \A g \in Gates : status[g] # "fresh" =>
        /\ subject[g] \in Subjects
        /\ regionOf[g] \in Regions
        /\ timeRange[regionOf[g]] # Nil

\* Positions are below the region's counter.
Positions ==
    \A g \in Gates : status[g] # "fresh" => position[g] < counter[regionOf[g]]

\* No two gates of a region have the same position.
PositionsDistinct ==
    \A g, h \in Gates :
        (/\ g # h
         /\ status[g] # "fresh"
         /\ status[h] # "fresh"
         /\ regionOf[g] = regionOf[h]) => position[g] # position[h]

\* A region that is not allocated is blank.
Blank ==
    \A r \in Regions : timeRange[r] = Nil =>
        r \notin listed /\ curr[r] = Nil /\ gates[r] = {} /\ counter[r] = 0

\* curr points to a gate that was opened on the region.
CurrOpened ==
    \A r \in Regions : curr[r] # Nil =>
        status[curr[r]] # "fresh" /\ regionOf[curr[r]] = r

\* Subjects are distinct within a region, the one whose release is electing
\* included.
SubjectsDistinct ==
    \A g, h \in Gates :
        (/\ g # h
         /\ status[g] \in {"open", "leaked", "electing"}
         /\ status[h] \in {"open", "leaked", "electing"}
         /\ regionOf[g] = regionOf[h]) => subject[g] # subject[h]

\* At most one release holds a region's lock, and gates remain.
OneElection ==
    /\ \A g, h \in Gates :
          (/\ status[g] = "electing"
           /\ status[h] = "electing"
           /\ regionOf[g] = regionOf[h]) => g = h
    /\ \A r \in Regions : Electing(r) => gates[r] # {}

\* While a release is electing, the region has no controller.
ElectingIsNil == \A g \in Gates : status[g] = "electing" => curr[regionOf[g]] = Nil

\* A listed region without gates has never had one, or is being removed.
EmptyRegion ==
    \A r \in listed : (gates[r] = {} /\ ~Dying(r)) => curr[r] = Nil /\ counter[r] = 0

IInv ==
    /\ TypeOK
    /\ Membership
    /\ Opened
    /\ Positions
    /\ PositionsDistinct
    /\ Blank
    /\ CurrOpened
    /\ SubjectsDistinct
    /\ OneElection
    /\ EmptyRegion
    /\ ListedRegionsDisjoint
    /\ SettledRegionControlled
    /\ TransfersTellController
    /\ ElectingIsNil

-----------------------------------------------------------------------------
\* Overlap of valid time ranges does not depend on the order of the two.
LEMMA OverlapSymmetric ==
    ASSUME NEW tr \in Ranges, NEW rng \in Ranges
    PROVE  OverlapsWith(tr, rng) <=> OverlapsWith(rng, tr)
  BY RangeAssumption DEF OverlapsWith, ContainsStamp

\* A control state is not the nil pointer.
LEMMA StateNotNil ==
    ASSUME NEW s \in Subjects, NEW a \in Levels
    PROVE  [subject |-> s, authority |-> a] # Nil
  <1>1. a \in Nat
    BY AuthorityAssumption DEF Levels
  <1>2. [subject |-> s, authority |-> a] \in [subject : Subjects, authority : Nat]
    BY <1>1
  <1> QED
    BY <1>2, NilAssumption

\* The initial state satisfies the invariant.
LEMMA InitIInv == Init => IInv
  BY AuthorityAssumption, NilAssumption
     DEF Init, IInv, TypeOK, Membership, Opened, Positions, PositionsDistinct,
         Blank, CurrOpened, SubjectsDistinct, OneElection, EmptyRegion,
         ListedRegionsDisjoint, SettledRegionControlled, TransfersTellController, ElectingIsNil,
         Electing, Dying, Settled

\* A gate opened on a new region preserves the invariant.
LEMMA OpenOnNewRegionStep ==
    ASSUME IInv, NEW g \in Gates, NEW r \in Regions,
           NEW s \in Subjects, NEW a \in Levels, NEW tr \in Ranges,
           OpenOnNewRegion(g, r, s, a, tr)
    PROVE  IInv'
  <1> USE AuthorityAssumption, RangeAssumption, NilAssumption
      DEF
          OpenOnNewRegion, NewGate, Unallocated
  <1>1. TypeOK'
    BY DEF IInv, TypeOK, Membership, Opened, CurrOpened, Report, Occurred,
           State, States, Levels
  <1>2. Membership'
    BY DEF IInv, TypeOK, Membership, Opened, Blank
  <1>3. Opened'
    BY DEF IInv, TypeOK, Opened, Blank
  <1>4. Positions'
    BY DEF IInv, TypeOK, Opened, Positions, Blank
  <1>5. Blank'
    BY DEF IInv, TypeOK, Membership, Opened, Blank
  <1>6. CurrOpened'
    BY DEF IInv, TypeOK, Membership, Opened, Blank, CurrOpened
  <1>7. SubjectsDistinct'
    BY DEF IInv, TypeOK, Membership, Opened, Blank, SubjectsDistinct, Electing
  <1>8. OneElection'
    <2>1. \A q \in Regions : Electing(q)' => Electing(q) /\ q # r
      BY DEF IInv, TypeOK, Opened, Electing
    <2>2. \A q \in Regions : q # r => gates'[q] = gates[q]
      BY DEF IInv, TypeOK
    <2> QED
      BY <2>1, <2>2 DEF IInv, TypeOK, OneElection
  <1>9. EmptyRegion'
    BY DEF IInv, TypeOK, Membership, Opened, Blank, CurrOpened, EmptyRegion,
           Dying
  <1>10. ListedRegionsDisjoint'
    <2> SUFFICES ASSUME NEW q1 \in listed', NEW q2 \in listed', q1 # q2
                 PROVE  ~OverlapsWith(timeRange'[q1], timeRange'[q2])
      BY DEF ListedRegionsDisjoint
    <2>1. \A q \in listed : q # r /\ timeRange'[q] = timeRange[q]
                             /\ timeRange[q] \in Ranges
      BY DEF IInv, TypeOK, Blank
    <2>2. \A q \in listed : ~OverlapsWith(timeRange[q], tr)
      BY DEF Overlapping
    <2>3. timeRange'[r] = tr /\ listed' = listed \cup {r}
      BY DEF IInv, TypeOK
    <2>4. CASE q1 \in listed /\ q2 \in listed
      BY <2>1, <2>4 DEF IInv, ListedRegionsDisjoint
    <2>5. CASE q1 \in listed /\ q2 = r
      BY <2>1, <2>2, <2>3, <2>5
    <2>6. CASE q1 = r /\ q2 \in listed
      BY <2>1, <2>2, <2>3, <2>6, OverlapSymmetric
    <2> QED
      BY <2>3, <2>4, <2>5, <2>6
  <1>11. SettledRegionControlled'
    <2> SUFFICES ASSUME NEW q \in Regions, Settled(q)'
                 PROVE  curr'[q] \in gates'[q]
      BY DEF SettledRegionControlled
    <2>1. CASE q = r
      BY <2>1 DEF IInv, TypeOK
    <2>2. CASE q # r
      <3>1. curr'[q] = curr[q] /\ gates'[q] = gates[q]
        BY <2>2 DEF IInv, TypeOK
      <3>2. \A h \in Gates \ {g} : /\ status'[h] = status[h]
                                   /\ regionOf'[h] = regionOf[h]
        BY DEF IInv, TypeOK
      <3>3. Settled(q)
        BY <2>2, <3>1, <3>2 DEF Settled, Dying, Electing
      <3> QED
        BY <3>1, <3>3 DEF IInv, SettledRegionControlled
    <2> QED BY <2>1, <2>2
  <1>12. TransfersTellController'
    <2> SUFFICES ASSUME NEW q \in Regions, Settled(q)'
                 PROVE  reported'[q] = State(curr[q])'
      BY DEF TransfersTellController
    <2>1. CASE q = r
      <3>1. [subject |-> s, authority |-> a] # Nil
        BY StateNotNil
      <3>2. reported'[r] = [subject |-> s, authority |-> a]
        BY <3>1 DEF IInv, TypeOK, Report, Occurred
      <3> QED
        BY <2>1, <3>2 DEF IInv, TypeOK, State
    <2>2. CASE q # r
      <3>1. Settled(q) /\ curr'[q] = curr[q] /\ reported'[q] = reported[q]
        BY <2>2 DEF IInv, TypeOK, Opened, Blank, Settled, Dying, Electing,
                    Report
      <3>2. curr[q] \in Gates /\ curr[q] # g
        BY <3>1 DEF IInv, TypeOK, Membership, SettledRegionControlled
      <3> QED
        BY <3>1, <3>2 DEF IInv, TypeOK, TransfersTellController, State
    <2> QED BY <2>1, <2>2
  <1>13. ElectingIsNil'
    BY DEF IInv, TypeOK, Membership, Opened, ElectingIsNil, OneElection,
           Electing
  <1>14. PositionsDistinct'
    BY DEF IInv, TypeOK, Opened, Blank, Positions, PositionsDistinct
  <1> QED
    BY <1>1, <1>2, <1>3, <1>4, <1>5, <1>6, <1>7, <1>8, <1>9, <1>10,
         <1>11, <1>12, <1>13, <1>14 DEF IInv

\* A gate that joins a region preserves the invariant.
LEMMA OpenOnExistingRegionStep ==
    ASSUME IInv, NEW g \in Gates, NEW r \in Regions,
           NEW s \in Subjects, NEW a \in Levels, NEW tr \in Ranges,
           OpenOnExistingRegion(g, r, s, a, tr)
    PROVE  IInv'
  <1> USE AuthorityAssumption, RangeAssumption, NilAssumption
      DEF
          OpenOnExistingRegion, NewGate, Attach, SubjectTaken,
          TakesControlOnOpen, OpenedStatus
  <1>a. r \in listed
    BY DEF IsFirst, Overlapping
  <1> USE <1>a
  <1>1. TypeOK'
    <2>1. a \in Nat /\ [subject |-> s, authority |-> a] \in States
      BY DEF States, Levels
    <2>2. /\ curr' \in [Regions -> Gates \cup {Nil}]
          /\ reported' \in [Regions -> States \cup {Nil}]
      <3>1. CASE TakesControlOnOpen(r, a)
        <4>1. curr' \in [Regions -> Gates \cup {Nil}]
          BY <3>1 DEF IInv, TypeOK
        <4>2. reported' = reported
              \/ reported' = [reported EXCEPT
                                ![r] = [subject |-> s, authority |-> a]]
          BY <3>1 DEF Report
        <4>3. reported' \in [Regions -> States \cup {Nil}]
          BY <2>1, <4>2 DEF IInv, TypeOK
        <4> QED
          BY <4>1, <4>3
      <3>2. CASE ~TakesControlOnOpen(r, a)
        BY <3>2 DEF IInv, TypeOK
      <3> QED BY <3>1, <3>2
    <2>3. /\ status' \in [Gates -> {"fresh", "open", "leaked", "electing",
                                   "removing", "released"}]
          /\ subject' \in [Gates -> Subjects \cup {Nil}]
          /\ authority' \in [Gates -> Nat]
      BY <2>1 DEF IInv, TypeOK
    <2>4. /\ position' \in [Gates -> Nat]
          /\ regionOf' \in [Gates -> Regions \cup {Nil}]
      BY DEF IInv, TypeOK
    <2>5. /\ counter' \in [Regions -> Nat]
          /\ gates' \in [Regions -> SUBSET Gates]
      BY DEF IInv, TypeOK
    <2> QED
      BY <2>2, <2>3, <2>4, <2>5 DEF IInv, TypeOK
  <1>2. Membership'
    BY DEF IInv, TypeOK, Membership, Opened, Blank
  <1>3. Opened'
    BY DEF IInv, TypeOK, Opened, Blank
  <1>4. Positions'
    BY DEF IInv, TypeOK, Opened, Positions, Blank
  <1>5. Blank'
    BY DEF IInv, TypeOK, Membership, Opened, Blank
  <1>6. CurrOpened'
    BY DEF IInv, TypeOK, Membership, Opened, Blank, CurrOpened
  <1>7. SubjectsDistinct'
    BY DEF IInv, TypeOK, Membership, Opened, Blank, SubjectsDistinct, Electing
  <1>8. OneElection'
    <2>1. \A h \in Gates : /\ (status'[h] = "electing" => h # g)
                            /\ (h # g => /\ status'[h] = status[h]
                                         /\ regionOf'[h] = regionOf[h])
      BY DEF IInv, TypeOK
    <2>2. \A q \in Regions : Electing(q)' => Electing(q)
      BY <2>1 DEF Electing
    <2>3. \A q \in Regions : gates[q] \subseteq gates'[q]
      BY DEF IInv, TypeOK
    <2> QED
      BY <2>1, <2>2, <2>3 DEF IInv, OneElection
  <1>9. EmptyRegion'
    BY DEF IInv, TypeOK, Membership, Opened, Blank, CurrOpened, EmptyRegion,
           Dying
  <1>10. ListedRegionsDisjoint'
    BY DEF IInv, TypeOK, Blank, ListedRegionsDisjoint
  <1>11. SettledRegionControlled'
    BY DEF IInv, TypeOK, Membership, Opened, Blank, CurrOpened,
           SettledRegionControlled, Settled, Dying, Electing, OneElection,
           EmptyRegion
  <1>12. TransfersTellController'
    <2> SUFFICES ASSUME NEW q \in Regions, Settled(q)'
                 PROVE  reported'[q] = State(curr[q])'
      BY DEF TransfersTellController
    <2>1. CASE q # r
      <3>1. Settled(q) /\ curr'[q] = curr[q] /\ reported'[q] = reported[q]
        BY <2>1 DEF IInv, TypeOK, Settled, Dying, Electing, Report
      <3>2. curr[q] \in Gates /\ curr[q] # g
        BY <3>1 DEF IInv, TypeOK, Membership, SettledRegionControlled
      <3> QED
        BY <3>1, <3>2 DEF IInv, TypeOK, TransfersTellController, State
    <2>2. CASE q = r /\ TakesControlOnOpen(r, a)
      <3> DEFINE new == [subject |-> s, authority |-> a]
      <3>1. curr[r] = Nil \/ State(curr[r]) # new
        BY <2>2 DEF IInv, TypeOK, State, Levels
      <3>2. new # Nil
        BY StateNotNil
      <3>3. reported'[r] = new
        BY <2>2, <3>1, <3>2 DEF IInv, TypeOK, Report, Occurred
      <3> QED
        BY <2>2, <3>3 DEF IInv, TypeOK, State
    <2>3. CASE q = r /\ ~TakesControlOnOpen(r, a)
      <3>1. Settled(r)
        BY <2>3 DEF IInv, TypeOK, EmptyRegion, Settled, Dying, Electing
      <3>2. curr[r] \in Gates /\ curr[r] # g /\ reported[r] = State(curr[r])
        BY <3>1 DEF IInv, TypeOK, Membership, SettledRegionControlled,
                    TransfersTellController
      <3> QED
        BY <2>3, <3>2 DEF IInv, TypeOK, State
    <2> QED BY <2>1, <2>2, <2>3
  <1>13. ElectingIsNil'
    BY DEF IInv, TypeOK, Membership, Opened, ElectingIsNil, OneElection,
           Electing
  <1>14. PositionsDistinct'
    BY DEF IInv, TypeOK, Opened, Blank, Positions, PositionsDistinct
  <1> QED
    BY <1>1, <1>2, <1>3, <1>4, <1>5, <1>6, <1>7, <1>8, <1>9, <1>10,
         <1>11, <1>12, <1>13, <1>14 DEF IInv

\* Registering a region preserves the invariant.
LEMMA RegisterStep ==
    ASSUME IInv, NEW r \in Regions, NEW tr \in Ranges,
           Register(r, tr)
    PROVE  IInv'
  <1> USE AuthorityAssumption, RangeAssumption, NilAssumption
      DEF
          Register, Unallocated, gateVars
  <1>1. TypeOK'
    BY DEF IInv, TypeOK, Membership, Opened, CurrOpened, Report, Occurred,
           State, States, Levels
  <1>2. Membership'
    BY DEF IInv, TypeOK, Membership, Opened, Blank
  <1>3. Opened'
    BY DEF IInv, TypeOK, Opened, Blank
  <1>4. Positions'
    BY DEF IInv, TypeOK, Opened, Positions, Blank
  <1>5. Blank'
    BY DEF IInv, TypeOK, Membership, Opened, Blank
  <1>6. CurrOpened'
    BY DEF IInv, TypeOK, Membership, Opened, Blank, CurrOpened
  <1>7. SubjectsDistinct'
    BY DEF IInv, TypeOK, Membership, Opened, Blank, SubjectsDistinct, Electing
  <1>8. OneElection'
    BY DEF IInv, TypeOK, Membership, Opened, Blank, OneElection, Electing
  <1>9. EmptyRegion'
    BY DEF IInv, TypeOK, Membership, Opened, Blank, CurrOpened, EmptyRegion,
           Dying
  <1>10. ListedRegionsDisjoint'
    <2> SUFFICES ASSUME NEW q1 \in listed', NEW q2 \in listed', q1 # q2
                 PROVE  ~OverlapsWith(timeRange'[q1], timeRange'[q2])
      BY DEF ListedRegionsDisjoint
    <2>1. \A q \in listed : q # r /\ timeRange'[q] = timeRange[q]
                             /\ timeRange[q] \in Ranges
      BY DEF IInv, TypeOK, Blank
    <2>2. \A q \in listed : ~OverlapsWith(timeRange[q], tr)
      BY DEF Overlapping
    <2>3. timeRange'[r] = tr /\ listed' = listed \cup {r}
      BY DEF IInv, TypeOK
    <2>4. CASE q1 \in listed /\ q2 \in listed
      BY <2>1, <2>4 DEF IInv, ListedRegionsDisjoint
    <2>5. CASE q1 \in listed /\ q2 = r
      BY <2>1, <2>2, <2>3, <2>5
    <2>6. CASE q1 = r /\ q2 \in listed
      BY <2>1, <2>2, <2>3, <2>6, OverlapSymmetric
    <2> QED
      BY <2>3, <2>4, <2>5, <2>6
  <1>11. SettledRegionControlled'
    BY DEF IInv, TypeOK, Membership, Opened, Blank, CurrOpened,
           SettledRegionControlled, Settled, Dying, Electing, OneElection,
           EmptyRegion
  <1>12. TransfersTellController'
    BY DEF IInv, TypeOK, Membership, Opened, Blank, CurrOpened, Report,
           Occurred, State, TransfersTellController, SettledRegionControlled,
           Settled, Dying, Electing, OneElection, EmptyRegion, SubjectsDistinct
  <1>13. ElectingIsNil'
    BY DEF IInv, TypeOK, Membership, Opened, ElectingIsNil, OneElection,
           Electing
  <1>14. PositionsDistinct'
    BY DEF IInv, TypeOK, Opened, Blank, Positions, PositionsDistinct
  <1> QED
    BY <1>1, <1>2, <1>3, <1>4, <1>5, <1>6, <1>7, <1>8, <1>9, <1>10,
         <1>11, <1>12, <1>13, <1>14 DEF IInv

\* A change of authority preserves the invariant.
LEMMA UpdateStep ==
    ASSUME IInv, NEW g \in Gates, NEW a \in Authorities,
           SetAuthority(g, a)
    PROVE  IInv'
  <1> USE AuthorityAssumption, RangeAssumption, NilAssumption
      DEF
          SetAuthority, UpdateController, UpdateContender, Better
  <1>1. TypeOK'
    <2> DEFINE r == regionOf[g]
    <2>1. r \in Regions /\ g \in gates[r] /\ subject[g] \in Subjects
      BY DEF IInv, TypeOK, Membership, Opened
    <2>2. [subject |-> subject[g], authority |-> a] \in States
      BY <2>1 DEF States
    <2>3. \A h \in gates[r] : h \in Gates /\ State(h) \in States
      BY <2>1 DEF IInv, TypeOK, Membership, Opened, State, States
    <2>4. CASE UpdateController(g, r, a)
      BY <2>1, <2>2, <2>3, <2>4 DEF IInv, TypeOK, Report
    <2>5. CASE UpdateContender(g, r, a)
      BY <2>1, <2>2, <2>5 DEF IInv, TypeOK, Report
    <2> QED BY <2>4, <2>5
  <1>2. Membership'
    BY DEF IInv, TypeOK, Membership, Opened, Blank
  <1>3. Opened'
    BY DEF IInv, TypeOK, Opened, Blank
  <1>4. Positions'
    BY DEF IInv, TypeOK, Opened, Positions, Blank
  <1>5. Blank'
    BY DEF IInv, TypeOK, Membership, Opened, Blank
  <1>6. CurrOpened'
    BY DEF IInv, TypeOK, Membership, Opened, Blank, CurrOpened
  <1>7. SubjectsDistinct'
    BY DEF IInv, TypeOK, Membership, Opened, Blank, SubjectsDistinct, Electing
  <1>8. OneElection'
    BY DEF IInv, TypeOK, Membership, Opened, Blank, OneElection, Electing
  <1>9. EmptyRegion'
    BY DEF IInv, TypeOK, Membership, Opened, Blank, CurrOpened, EmptyRegion,
           Dying
  <1>10. ListedRegionsDisjoint'
    BY DEF IInv, TypeOK, Blank, ListedRegionsDisjoint
  <1>11. SettledRegionControlled'
    BY DEF IInv, TypeOK, Membership, Opened, Blank, CurrOpened,
           SettledRegionControlled, Settled, Dying, Electing, OneElection,
           EmptyRegion
  <1>12. TransfersTellController'
    <2> DEFINE r == regionOf[g]
    <2> SUFFICES ASSUME NEW q \in Regions, Settled(q)'
                 PROVE  reported'[q] = State(curr[q])'
      BY DEF TransfersTellController
    <2>1. r \in Regions /\ g \in gates[r] /\ subject[g] \in Subjects
      BY DEF IInv, TypeOK, Membership, Opened
    <2>2. Settled(q)
      BY DEF Settled, Dying, Electing
    <2>3. curr[q] \in gates[q] /\ reported[q] = State(curr[q])
      BY <2>2 DEF IInv, SettledRegionControlled, TransfersTellController
    <2>4. CASE q # r
      <3>1. curr'[q] = curr[q] /\ reported'[q] = reported[q]
        BY <2>1, <2>4 DEF IInv, TypeOK, Report
      <3>2. curr[q] \in Gates /\ curr[q] # g
        BY <2>1, <2>3, <2>4 DEF IInv, TypeOK, Membership
      <3> QED
        BY <2>3, <3>1, <3>2 DEF IInv, TypeOK, State
    <2>5. CASE q = r /\ UpdateController(g, r, a)
      <3>1. CASE Better(g, r, a) = {}
        BY <2>1, <2>3, <2>5, <3>1 DEF IInv, TypeOK, Report, Occurred, State
      <3>2. CASE Better(g, r, a) # {}
        <4>1. PICK og \in Better(g, r, a) :
                 /\ curr' = [curr EXCEPT ![r] = og]
                 /\ Report(r, [subject |-> subject[g], authority |-> a], State(og))
          BY <2>5, <3>2
        <4>2. og \in gates[r] /\ og \in Gates /\ og # g
          BY <2>1, <4>1 DEF IInv, TypeOK
        <4>3. subject[og] # subject[g]
          BY <2>1, <4>2 DEF IInv, Membership, SubjectsDistinct
        <4>4. reported'[r] = State(og)
          BY <2>1, <4>1, <4>3 DEF IInv, TypeOK, Report, Occurred, State
        <4> QED
          BY <2>1, <2>5, <4>1, <4>2, <4>4 DEF IInv, TypeOK, State
      <3> QED BY <3>1, <3>2
    <2>6. CASE q = r /\ UpdateContender(g, r, a)
      <3>1. curr[r] \in Gates /\ subject[curr[r]] # subject[g]
        BY <2>1, <2>3, <2>6 DEF IInv, TypeOK, Membership, SubjectsDistinct
      <3> QED
        BY <2>1, <2>3, <2>6, <3>1 DEF IInv, TypeOK, Report, Occurred, State
    <2> QED BY <2>4, <2>5, <2>6
  <1>13. ElectingIsNil'
    BY DEF IInv, TypeOK, Membership, Opened, ElectingIsNil, OneElection,
           Electing
  <1>14. PositionsDistinct'
    BY DEF IInv, TypeOK, Opened, Blank, Positions, PositionsDistinct
  <1> QED
    BY <1>1, <1>2, <1>3, <1>4, <1>5, <1>6, <1>7, <1>8, <1>9, <1>10,
         <1>11, <1>12, <1>13, <1>14 DEF IInv

\* The release of the last gate preserves the invariant.
LEMMA ReleaseLastStep ==
    ASSUME IInv, NEW g \in Gates, status[g] = "open",
           ReleaseLast(g)
    PROVE  IInv'
  <1> USE AuthorityAssumption, RangeAssumption, NilAssumption
      DEF
          ReleaseLast, Detach, Remaining
  <1>1. TypeOK'
    BY DEF IInv, TypeOK, Membership, Opened, CurrOpened, Report, Occurred,
           State, States, Levels
  <1>2. Membership'
    BY DEF IInv, TypeOK, Membership, Opened, Blank
  <1>3. Opened'
    BY DEF IInv, TypeOK, Opened, Blank
  <1>4. Positions'
    BY DEF IInv, TypeOK, Opened, Positions, Blank
  <1>5. Blank'
    BY DEF IInv, TypeOK, Membership, Opened, Blank
  <1>6. CurrOpened'
    BY DEF IInv, TypeOK, Membership, Opened, Blank, CurrOpened
  <1>7. SubjectsDistinct'
    BY DEF IInv, TypeOK, Membership, Opened, Blank, SubjectsDistinct, Electing
  <1>8. OneElection'
    BY DEF IInv, TypeOK, Membership, Opened, Blank, OneElection, Electing
  <1>9. EmptyRegion'
    BY DEF IInv, TypeOK, Membership, Opened, Blank, CurrOpened, EmptyRegion,
           Dying
  <1>10. ListedRegionsDisjoint'
    BY DEF IInv, TypeOK, Blank, ListedRegionsDisjoint
  <1>11. SettledRegionControlled'
    BY DEF IInv, TypeOK, Membership, Opened, Blank, CurrOpened,
           SettledRegionControlled, Settled, Dying, Electing, OneElection,
           EmptyRegion
  <1>12. TransfersTellController'
    BY DEF IInv, TypeOK, Membership, Opened, Blank, CurrOpened, Report,
           Occurred, State, TransfersTellController, SettledRegionControlled,
           Settled, Dying, Electing, OneElection, EmptyRegion, SubjectsDistinct
  <1>13. ElectingIsNil'
    BY DEF IInv, TypeOK, Membership, Opened, ElectingIsNil, OneElection,
           Electing
  <1>14. PositionsDistinct'
    BY DEF IInv, TypeOK, Opened, Blank, Positions, PositionsDistinct
  <1> QED
    BY <1>1, <1>2, <1>3, <1>4, <1>5, <1>6, <1>7, <1>8, <1>9, <1>10,
         <1>11, <1>12, <1>13, <1>14 DEF IInv

\* The release that leaves one gate preserves the invariant.
LEMMA ReleaseToLastStep ==
    ASSUME IInv, NEW g \in Gates, status[g] = "open",
           ReleaseToLast(g)
    PROVE  IInv'
  <1> USE AuthorityAssumption, RangeAssumption, NilAssumption
      DEF
          ReleaseToLast, Detach, Remaining
  <1>1. TypeOK'
    BY DEF IInv, TypeOK, Membership, Opened, CurrOpened, Report, Occurred,
           State, States, Levels
  <1>2. Membership'
    BY DEF IInv, TypeOK, Membership, Opened, Blank
  <1>3. Opened'
    BY DEF IInv, TypeOK, Opened, Blank
  <1>4. Positions'
    BY DEF IInv, TypeOK, Opened, Positions, Blank
  <1>5. Blank'
    BY DEF IInv, TypeOK, Membership, Opened, Blank
  <1>6. CurrOpened'
    BY DEF IInv, TypeOK, Membership, Opened, Blank, CurrOpened
  <1>7. SubjectsDistinct'
    BY DEF IInv, TypeOK, Membership, Opened, Blank, SubjectsDistinct, Electing
  <1>8. OneElection'
    BY DEF IInv, TypeOK, Membership, Opened, Blank, OneElection, Electing
  <1>9. EmptyRegion'
    BY DEF IInv, TypeOK, Membership, Opened, Blank, CurrOpened, EmptyRegion,
           Dying
  <1>10. ListedRegionsDisjoint'
    BY DEF IInv, TypeOK, Blank, ListedRegionsDisjoint
  <1>11. SettledRegionControlled'
    BY DEF IInv, TypeOK, Membership, Opened, Blank, CurrOpened,
           SettledRegionControlled, Settled, Dying, Electing, OneElection,
           EmptyRegion
  <1>12. TransfersTellController'
    <2> DEFINE r == regionOf[g]
    <2> SUFFICES ASSUME NEW q \in Regions, Settled(q)'
                 PROVE  reported'[q] = State(curr[q])'
      BY DEF TransfersTellController
    <2>1. r \in Regions /\ g \in gates[r]
      BY DEF IInv, TypeOK, Membership, Opened
    <2>2. Settled(q)
      BY <2>1 DEF IInv, TypeOK, Settled, Dying, Electing
    <2>3. curr[q] \in gates[q] /\ reported[q] = State(curr[q])
      BY <2>2 DEF IInv, SettledRegionControlled, TransfersTellController
    <2>4. CASE q # r
      <3>1. curr'[q] = curr[q] /\ reported'[q] = reported[q]
        BY <2>1, <2>4 DEF IInv, TypeOK, Report
      <3> QED
        BY <2>3, <3>1 DEF State
    <2>5. CASE q = r
      <3>1. PICK k \in gates[r] :
               /\ curr' = [curr EXCEPT ![r] = k]
               /\ Report(r, State(curr[r]), State(k))
        OBVIOUS
      <3>2. reported'[r] = State(k)
        BY <2>1, <2>3, <2>5, <3>1 DEF IInv, TypeOK, Report, Occurred
      <3>3. curr'[r] = k
        BY <2>1, <3>1 DEF IInv, TypeOK
      <3> QED
        BY <2>5, <3>2, <3>3 DEF State
    <2> QED BY <2>4, <2>5
  <1>13. ElectingIsNil'
    BY DEF IInv, TypeOK, Membership, Opened, ElectingIsNil, OneElection,
           Electing
  <1>14. PositionsDistinct'
    BY DEF IInv, TypeOK, Opened, Blank, Positions, PositionsDistinct
  <1> QED
    BY <1>1, <1>2, <1>3, <1>4, <1>5, <1>6, <1>7, <1>8, <1>9, <1>10,
         <1>11, <1>12, <1>13, <1>14 DEF IInv

\* The release of a gate that is not in control preserves the invariant.
LEMMA ReleaseContenderStep ==
    ASSUME IInv, NEW g \in Gates, status[g] = "open",
           ReleaseContender(g)
    PROVE  IInv'
  <1> USE AuthorityAssumption, RangeAssumption, NilAssumption
      DEF
          ReleaseContender, Detach, Remaining
  <1>1. TypeOK'
    BY DEF IInv, TypeOK, Membership, Opened, CurrOpened, Report, Occurred,
           State, States, Levels
  <1>2. Membership'
    BY DEF IInv, TypeOK, Membership, Opened, Blank
  <1>3. Opened'
    BY DEF IInv, TypeOK, Opened, Blank
  <1>4. Positions'
    BY DEF IInv, TypeOK, Opened, Positions, Blank
  <1>5. Blank'
    BY DEF IInv, TypeOK, Membership, Opened, Blank
  <1>6. CurrOpened'
    BY DEF IInv, TypeOK, Membership, Opened, Blank, CurrOpened
  <1>7. SubjectsDistinct'
    BY DEF IInv, TypeOK, Membership, Opened, Blank, SubjectsDistinct, Electing
  <1>8. OneElection'
    BY DEF IInv, TypeOK, Membership, Opened, Blank, OneElection, Electing
  <1>9. EmptyRegion'
    BY DEF IInv, TypeOK, Membership, Opened, Blank, CurrOpened, EmptyRegion,
           Dying
  <1>10. ListedRegionsDisjoint'
    BY DEF IInv, TypeOK, Blank, ListedRegionsDisjoint
  <1>11. SettledRegionControlled'
    BY DEF IInv, TypeOK, Membership, Opened, Blank, CurrOpened,
           SettledRegionControlled, Settled, Dying, Electing, OneElection,
           EmptyRegion
  <1>12. TransfersTellController'
    BY DEF IInv, TypeOK, Membership, Opened, Blank, CurrOpened, Report,
           Occurred, State, TransfersTellController, SettledRegionControlled,
           Settled, Dying, Electing, OneElection, EmptyRegion, SubjectsDistinct
  <1>13. ElectingIsNil'
    BY DEF IInv, TypeOK, Membership, Opened, ElectingIsNil, OneElection,
           Electing
  <1>14. PositionsDistinct'
    BY DEF IInv, TypeOK, Opened, Blank, Positions, PositionsDistinct
  <1> QED
    BY <1>1, <1>2, <1>3, <1>4, <1>5, <1>6, <1>7, <1>8, <1>9, <1>10,
         <1>11, <1>12, <1>13, <1>14 DEF IInv

\* The release of the gate in control preserves the invariant.
LEMMA ReleaseControllerStep ==
    ASSUME IInv, NEW g \in Gates, status[g] = "open",
           ReleaseController(g)
    PROVE  IInv'
  <1> USE AuthorityAssumption, RangeAssumption, NilAssumption
      DEF
          ReleaseController, Detach, Remaining
  <1>1. TypeOK'
    BY DEF IInv, TypeOK, Membership, Opened, CurrOpened, Report, Occurred,
           State, States, Levels
  <1>2. Membership'
    BY DEF IInv, TypeOK, Membership, Opened, Blank
  <1>3. Opened'
    BY DEF IInv, TypeOK, Opened, Blank
  <1>4. Positions'
    BY DEF IInv, TypeOK, Opened, Positions, Blank
  <1>5. Blank'
    BY DEF IInv, TypeOK, Membership, Opened, Blank
  <1>6. CurrOpened'
    BY DEF IInv, TypeOK, Membership, Opened, Blank, CurrOpened
  <1>7. SubjectsDistinct'
    BY DEF IInv, TypeOK, Membership, Opened, Blank, SubjectsDistinct, Electing
  <1>8. OneElection'
    BY DEF IInv, TypeOK, Membership, Opened, Blank, OneElection, Electing
  <1>9. EmptyRegion'
    BY DEF IInv, TypeOK, Membership, Opened, Blank, CurrOpened, EmptyRegion,
           Dying
  <1>10. ListedRegionsDisjoint'
    BY DEF IInv, TypeOK, Blank, ListedRegionsDisjoint
  <1>11. SettledRegionControlled'
    BY DEF IInv, TypeOK, Membership, Opened, Blank, CurrOpened,
           SettledRegionControlled, Settled, Dying, Electing, OneElection,
           EmptyRegion
  <1>12. TransfersTellController'
    BY DEF IInv, TypeOK, Membership, Opened, Blank, CurrOpened, Report,
           Occurred, State, TransfersTellController, SettledRegionControlled,
           Settled, Dying, Electing, OneElection, EmptyRegion, SubjectsDistinct
  <1>13. ElectingIsNil'
    BY DEF IInv, TypeOK, Membership, Opened, ElectingIsNil, OneElection,
           Electing
  <1>14. PositionsDistinct'
    BY DEF IInv, TypeOK, Opened, Blank, Positions, PositionsDistinct
  <1> QED
    BY <1>1, <1>2, <1>3, <1>4, <1>5, <1>6, <1>7, <1>8, <1>9, <1>10,
         <1>11, <1>12, <1>13, <1>14 DEF IInv

\* An election preserves the invariant.
LEMMA ElectStep ==
    ASSUME IInv, NEW g \in Gates,
           Elect(g)
    PROVE  IInv'
  <1> USE AuthorityAssumption, RangeAssumption, NilAssumption
      DEF Elect
  <1>1. TypeOK'
    <2>1. PICK og \in gates[regionOf[g]] :
             /\ curr' = [curr EXCEPT ![regionOf[g]] = og]
             /\ Report(regionOf[g], State(g), State(og))
      OBVIOUS
    <2>2. /\ og \in Gates /\ regionOf[g] \in Regions
          /\ subject[og] \in Subjects
      BY DEF IInv, TypeOK, Membership, Opened
    <2>3. State(og) \in States
      BY <2>2 DEF IInv, TypeOK, State, States
    <2>4. reported' \in [Regions -> States \cup {Nil}]
      BY <2>1, <2>2, <2>3 DEF IInv, TypeOK, Report
    <2>5. curr' \in [Regions -> Gates \cup {Nil}]
      BY <2>1, <2>2 DEF IInv, TypeOK
    <2> QED
      BY <2>4, <2>5 DEF IInv, TypeOK
  <1>2. Membership'
    BY DEF IInv, TypeOK, Membership, Opened, Blank
  <1>3. Opened'
    BY DEF IInv, TypeOK, Opened, Blank
  <1>4. Positions'
    BY DEF IInv, TypeOK, Opened, Positions, Blank
  <1>5. Blank'
    BY DEF IInv, TypeOK, Membership, Opened, Blank
  <1>6. CurrOpened'
    BY DEF IInv, TypeOK, Membership, Opened, Blank, CurrOpened
  <1>7. SubjectsDistinct'
    BY DEF IInv, TypeOK, Membership, Opened, Blank, SubjectsDistinct, Electing
  <1>8. OneElection'
    <2>1. \A h \in Gates : status'[h] = "electing" => status[h] = "electing"
      BY DEF IInv, TypeOK
    <2>2. \A q \in Regions : Electing(q)' => Electing(q)
      BY <2>1 DEF Electing
    <2> QED
      BY <2>1, <2>2 DEF IInv, OneElection
  <1>9. EmptyRegion'
    BY DEF IInv, TypeOK, Membership, Opened, Blank, CurrOpened, EmptyRegion,
           Dying
  <1>10. ListedRegionsDisjoint'
    BY DEF IInv, TypeOK, Blank, ListedRegionsDisjoint
  <1>11. SettledRegionControlled'
    BY DEF IInv, TypeOK, Membership, Opened, Blank, CurrOpened,
           SettledRegionControlled, Settled, Dying, Electing, OneElection,
           EmptyRegion
  <1>12. TransfersTellController'
    <2> DEFINE r == regionOf[g]
    <2> SUFFICES ASSUME NEW q \in Regions, Settled(q)'
                 PROVE  reported'[q] = State(curr[q])'
      BY DEF TransfersTellController
    <2>1. r \in Regions
      BY DEF IInv, TypeOK, Opened
    <2>2. CASE q # r
      <3>1. curr'[q] = curr[q] /\ reported'[q] = reported[q]
        BY <2>1, <2>2 DEF IInv, TypeOK, Report
      <3>2. Settled(q)
        BY <2>1, <2>2 DEF IInv, TypeOK, Settled, Dying, Electing
      <3> QED
        BY <3>1, <3>2 DEF IInv, TransfersTellController, State
    <2>3. CASE q = r
      <3>1. PICK og \in gates[r] :
               /\ curr' = [curr EXCEPT ![r] = og]
               /\ Report(r, State(g), State(og))
        OBVIOUS
      <3>2. subject[g] # subject[og]
        BY <2>1, <3>1 DEF IInv, TypeOK, Membership, SubjectsDistinct
      <3>3. State(g) # State(og)
        BY <3>2 DEF State
      <3>4. reported'[r] = State(og) /\ curr'[r] = og
        BY <2>1, <3>1, <3>3 DEF IInv, TypeOK, Report, Occurred
      <3> QED
        BY <2>3, <3>4 DEF State
    <2> QED BY <2>2, <2>3
  <1>13. ElectingIsNil'
    BY DEF IInv, TypeOK, Membership, Opened, ElectingIsNil, OneElection,
           Electing
  <1>14. PositionsDistinct'
    BY DEF IInv, TypeOK, Opened, Blank, Positions, PositionsDistinct
  <1> QED
    BY <1>1, <1>2, <1>3, <1>4, <1>5, <1>6, <1>7, <1>8, <1>9, <1>10,
         <1>11, <1>12, <1>13, <1>14 DEF IInv

\* Removing a region preserves the invariant.
LEMMA RemoveStep ==
    ASSUME IInv, NEW g \in Gates,
           Remove(g)
    PROVE  IInv'
  <1> USE AuthorityAssumption, RangeAssumption, NilAssumption
      DEF Remove,
          regionVars
  <1>1. TypeOK'
    BY DEF IInv, TypeOK, Membership, Opened, CurrOpened, Report, Occurred,
           State, States, Levels
  <1>2. Membership'
    BY DEF IInv, TypeOK, Membership, Opened, Blank
  <1>3. Opened'
    BY DEF IInv, TypeOK, Opened, Blank
  <1>4. Positions'
    BY DEF IInv, TypeOK, Opened, Positions, Blank
  <1>5. Blank'
    BY DEF IInv, TypeOK, Membership, Opened, Blank
  <1>6. CurrOpened'
    BY DEF IInv, TypeOK, Membership, Opened, Blank, CurrOpened
  <1>7. SubjectsDistinct'
    BY DEF IInv, TypeOK, Membership, Opened, Blank, SubjectsDistinct, Electing
  <1>8. OneElection'
    BY DEF IInv, TypeOK, Membership, Opened, Blank, OneElection, Electing
  <1>9. EmptyRegion'
    BY DEF IInv, TypeOK, Membership, Opened, Blank, CurrOpened, EmptyRegion,
           Dying
  <1>10. ListedRegionsDisjoint'
    BY DEF IInv, TypeOK, Blank, ListedRegionsDisjoint
  <1>11. SettledRegionControlled'
    BY DEF IInv, TypeOK, Membership, Opened, Blank, CurrOpened,
           SettledRegionControlled, Settled, Dying, Electing, OneElection,
           EmptyRegion
  <1>12. TransfersTellController'
    BY DEF IInv, TypeOK, Membership, Opened, Blank, CurrOpened, Report,
           Occurred, State, TransfersTellController, SettledRegionControlled,
           Settled, Dying, Electing, OneElection, EmptyRegion, SubjectsDistinct
  <1>13. ElectingIsNil'
    BY DEF IInv, TypeOK, Membership, Opened, ElectingIsNil, OneElection,
           Electing
  <1>14. PositionsDistinct'
    BY DEF IInv, TypeOK, Opened, Blank, Positions, PositionsDistinct
  <1> QED
    BY <1>1, <1>2, <1>3, <1>4, <1>5, <1>6, <1>7, <1>8, <1>9, <1>10,
         <1>11, <1>12, <1>13, <1>14 DEF IInv

\* Every step, stuttering included, preserves the invariant.
LEMMA NextIInv == IInv /\ [Next]_vars => IInv'
  <1> SUFFICES ASSUME IInv, [Next]_vars PROVE IInv'
    OBVIOUS
  <1> USE AuthorityAssumption
  <1>1. ASSUME NEW g \in Gates, Open(g) PROVE IInv'
    BY <1>1, OpenOnNewRegionStep, OpenOnExistingRegionStep
       DEF Open, OpenGateAndMaybeRegister, OpenAbsoluteGateIfUncontrolled, Levels
  <1>2. ASSUME NEW g \in Gates, NEW a \in Authorities, SetAuthority(g, a)
        PROVE  IInv'
    BY <1>2, UpdateStep
  <1>3. ASSUME NEW g \in Gates, Release(g) PROVE IInv'
    BY <1>3, ReleaseLastStep, ReleaseToLastStep, ReleaseContenderStep,
       ReleaseControllerStep DEF Release
  <1>4. ASSUME NEW g \in Gates, Elect(g) PROVE IInv'
    BY <1>4, ElectStep
  <1>5. ASSUME NEW g \in Gates, Remove(g) PROVE IInv'
    BY <1>5, RemoveStep
  <1>6. ASSUME NEW r \in Regions, NEW tr \in Ranges, Register(r, tr)
        PROVE  IInv'
    BY <1>6, RegisterStep
  <1>7. CASE UNCHANGED vars
    <2>1. /\ TypeOK' /\ Membership' /\ Opened' /\ Positions' /\ Blank'
          /\ PositionsDistinct' /\ CurrOpened' /\ SubjectsDistinct'
      BY <1>7 DEF vars, IInv, TypeOK, Membership, Opened, Positions, Blank,
         PositionsDistinct, CurrOpened, SubjectsDistinct
    <2>2. OneElection' /\ EmptyRegion' /\ ElectingIsNil' /\ ListedRegionsDisjoint'
      BY <1>7 DEF vars, IInv, OneElection, EmptyRegion, ElectingIsNil,
         ListedRegionsDisjoint, Electing, Dying
    <2>3. SettledRegionControlled' /\ TransfersTellController'
      BY <1>7 DEF vars, IInv, SettledRegionControlled, TransfersTellController,
         Settled, Electing, Dying, State
    <2> QED
      BY <2>1, <2>2, <2>3 DEF IInv
  <1> QED
    BY <1>1, <1>2, <1>3, <1>4, <1>5, <1>6, <1>7 DEF Next

\* The inductive invariant holds in every reachable state.
THEOREM IInvHolds == Spec => []IInv
  BY InitIInv, NextIInv, PTL DEF Spec

\* Types of the gate and region structs.
THEOREM TypeCorrect == Spec => []TypeOK
  BY IInvHolds, PTL DEF IInv

\* The search for an overlapping region and the insertion of a new one under
\* one lock keep Controller.regions free of overlaps, whatever ranges are
\* asked for.
THEOREM RegionsStayDisjoint == Spec => []ListedRegionsDisjoint
  BY IInvHolds, PTL DEF IInv

\* open, update and release leave every listed region that no release is
\* tearing down in the control of one of its own gates.
THEOREM RegionsStayControlled == Spec => []SettledRegionControlled
  BY IInvHolds, PTL DEF IInv

\* The transfers that open, SetAuthority and Release return are enough to know
\* who controls such a region.
THEOREM TransfersAreTruthful == Spec => []TransfersTellController
  BY IInvHolds, PTL DEF IInv

-----------------------------------------------------------------------------

\* What a removal, pending or done, says of a region's gates: they were opened
\* after the release that emptied it.
Slipped ==
    \A r \in Regions :
        /\ emptied[r] <= counter[r]
        /\ (Dying(r) \/ (~Unallocated(r) /\ r \notin listed)) =>
              /\ emptied[r] > 0
              /\ \A g \in gates[r] : position[g] >= emptied[r]

\* Every step preserves it: only the release of the last gate starts a removal.
LEMMA SlippedStep == IInv /\ Slipped /\ [Next]_vars => Slipped'
  <1> SUFFICES ASSUME IInv, Slipped, [Next]_vars PROVE Slipped'
    OBVIOUS
  <1> USE AuthorityAssumption, NilAssumption
  <1>t. TypeOK /\ Membership /\ Opened /\ Positions /\ Blank
    BY DEF IInv
  <1>1. ASSUME NEW g \in Gates, NEW r \in Regions, NEW s \in Subjects,
               NEW a \in Levels, NEW tr \in Ranges,
               OpenOnNewRegion(g, r, s, a, tr)
        PROVE  Slipped'
    <2> USE DEF OpenOnNewRegion, NewGate
    <2>1. /\ \A q \in Regions : Dying(q)' => Dying(q) /\ q # r
          /\ r \in listed' /\ \A q \in Regions : q \in listed => q \in listed'
      BY <1>1, <1>t DEF Dying, TypeOK, Opened, Unallocated
    <2>2. ASSUME NEW q \in Regions, q # r
          PROVE  /\ gates'[q] = gates[q] /\ counter'[q] = counter[q]
                 /\ timeRange'[q] = timeRange[q] /\ emptied'[q] = emptied[q]
                 /\ \A h \in gates[q] : position'[h] = position[h]
      BY <1>1, <1>t, <2>2 DEF TypeOK, Membership
    <2>3. emptied'[r] = 0 /\ counter'[r] = 1
      BY <1>1, <1>t DEF TypeOK, Slipped, Blank, Unallocated
    <2> QED
      BY <2>1, <2>2, <2>3 DEF Slipped, Unallocated
  <1>2. ASSUME NEW g \in Gates, NEW r \in Regions, NEW s \in Subjects,
               NEW a \in Levels, NEW tr \in Ranges,
               OpenOnExistingRegion(g, r, s, a, tr)
        PROVE  Slipped'
    <2> USE DEF OpenOnExistingRegion, NewGate, Attach
    <2>1. r \in listed /\ listed' = listed /\ timeRange' = timeRange /\ emptied' = emptied
      BY <1>2 DEF IsFirst, Overlapping
    <2>2. \A q \in Regions : Dying(q)' => Dying(q)
      BY <1>2, <1>t DEF Dying, OpenedStatus, TypeOK
    <2>3. \A h \in Gates : h # g => position'[h] = position[h]
      BY <1>2, <1>t DEF TypeOK
    <2>4. position'[g] = counter[r] /\ counter'[r] = counter[r] + 1
      BY <1>2, <1>t DEF TypeOK
    <2>5. \A q \in Regions : q # r => gates'[q] = gates[q] /\ counter'[q] = counter[q]
                                                        /\ g \notin gates[q]
      BY <1>2, <1>t DEF TypeOK, Membership
    <2>6. gates'[r] = gates[r] \cup {g} /\ g \notin gates[r]
      BY <1>2, <1>t DEF TypeOK, Membership
    <2>7. counter[r] \in Nat /\ emptied[r] \in Nat /\ emptied[r] <= counter[r]
      BY <1>t DEF TypeOK, Slipped
    <2>8. ASSUME NEW q \in Regions
          PROVE  /\ emptied'[q] <= counter'[q]
                 /\ (Dying(q) \/ (~Unallocated(q) /\ q \notin listed)) =>
                       /\ emptied[q] > 0
                       /\ \A h \in gates'[q] : position'[h] >= emptied[q]
      <3>1. CASE q = r
        BY <3>1, <2>1, <2>3, <2>4, <2>6, <2>7, <1>t DEF Slipped, TypeOK
      <3>2. CASE q # r
        BY <3>2, <2>1, <2>3, <2>5, <1>t DEF Slipped, TypeOK
      <3> QED BY <3>1, <3>2
    <2> QED
      BY <2>1, <2>2, <2>8 DEF Slipped, Unallocated
  <1>3. ASSUME NEW r \in Regions, NEW tr \in Ranges, Register(r, tr)
        PROVE  Slipped'
    BY <1>3, <1>t DEF Register, gateVars, Slipped, Dying, Unallocated, TypeOK,
                      Opened
  <1>4. ASSUME NEW g \in Gates, NEW a \in Authorities, SetAuthority(g, a)
        PROVE  Slipped'
    BY <1>4, <1>t DEF SetAuthority, Slipped, Dying, Unallocated, TypeOK
  <1>5. ASSUME NEW g \in Gates, status[g] = "open", ReleaseLast(g)
        PROVE  Slipped'
    BY <1>5, <1>t DEF ReleaseLast, Detach, Remaining, Slipped, Dying,
       Unallocated, TypeOK, Opened, Positions
  <1>6. ASSUME NEW g \in Gates, status[g] = "open",
               ReleaseToLast(g) \/ ReleaseContender(g) \/ ReleaseController(g)
        PROVE  Slipped'
    <2>1. /\ gates' = [gates EXCEPT ![regionOf[g]] = @ \ {g}]
          /\ \A h \in Gates : status'[h] = "removing" => status[h] = "removing"
          /\ UNCHANGED <<position, regionOf, timeRange, counter, listed, emptied>>
      BY <1>6, <1>t DEF ReleaseToLast, ReleaseContender, ReleaseController,
         Detach, TypeOK
    <2> QED
      BY <2>1, <1>t DEF Slipped, Dying, Unallocated, TypeOK, Opened
  <1>7. ASSUME NEW g \in Gates, Elect(g) PROVE Slipped'
    BY <1>7, <1>t DEF Elect, Slipped, Dying, Unallocated, TypeOK
  <1>8. ASSUME NEW g \in Gates, Remove(g) PROVE Slipped'
    <2>1. Dying(regionOf[g])
      BY <1>8 DEF Remove, Dying
    <2> QED
      BY <1>8, <2>1, <1>t DEF Remove, regionVars, Slipped, Dying, Unallocated,
         TypeOK, Opened
  <1>9. CASE UNCHANGED vars
    BY <1>9 DEF vars, Slipped, Dying, Unallocated
  <1> QED
    BY <1>1, <1>2, <1>3, <1>4, <1>5, <1>6, <1>7, <1>8, <1>9
       DEF Next, Open, OpenGateAndMaybeRegister, OpenAbsoluteGateIfUncontrolled,
           Levels, Release

\* release() removes a region if and only if it took its last gate, and never
\* from under a gate that was open at the time.
THEOREM RegionsRemovedWhenEmptied == Spec => []RemovedWhenEmptied
  <1>1. Init => Slipped
    BY NilAssumption DEF Init, Slipped, Dying, Unallocated
  <1>2. Spec => []Slipped
    BY <1>1, IInvHolds, SlippedStep, PTL DEF Spec
  <1>3. IInv /\ Slipped => RemovedWhenEmptied
    <2> SUFFICES ASSUME IInv, Slipped, NEW r \in Regions
                 PROVE  /\ r \in listed /\ gates[r] = {} => counter[r] = 0 \/ Dying(r)
                        /\ r \notin listed => \A g \in Gates : ~HeldThroughout(g, r)
      BY DEF RemovedWhenEmptied
    <2>1. r \in listed /\ gates[r] = {} => counter[r] = 0 \/ Dying(r)
      BY DEF IInv, EmptyRegion
    <2>2. ASSUME r \notin listed, NEW g \in Gates, HeldThroughout(g, r) PROVE FALSE
      <3>1. ~Unallocated(r)
        BY <2>2 DEF IInv, Blank, HeldThroughout, Unallocated
      <3>2. emptied[r] \in Nat /\ position[g] \in Nat
        BY DEF IInv, TypeOK
      <3> QED
        BY <2>2, <3>1, <3>2 DEF Slipped, HeldThroughout
    <2> QED
      BY <2>1, <2>2
  <1> QED
    BY <1>2, <1>3, IInvHolds, PTL

-----------------------------------------------------------------------------

\* In one step control leaves a gate that stays open only for one above it.
LEMMA TakeoverStep == IInv /\ Next => TakeoverOutranks
  <1> SUFFICES ASSUME IInv, Next,
                      NEW q \in Regions,
                      curr[q] # curr'[q], curr[q] # Nil, curr'[q] # Nil,
                      curr[q] \in gates'[q]
               PROVE  Precedes(authority'[curr'[q]], position'[curr'[q]],
                               authority'[curr[q]], position'[curr[q]])
    BY DEF TakeoverOutranks
  <1> USE AuthorityAssumption DEF Precedes
  <1>1. ASSUME NEW g \in Gates, NEW r \in Regions, NEW s \in Subjects,
               NEW a \in Levels, NEW tr \in Ranges,
               OpenOnNewRegion(g, r, s, a, tr)
        PROVE  FALSE
    BY <1>1 DEF OpenOnNewRegion, Unallocated, IInv, TypeOK, Blank
  <1>2. ASSUME NEW g \in Gates, NEW r \in Regions, NEW s \in Subjects,
               NEW a \in Levels, NEW tr \in Ranges,
               OpenOnExistingRegion(g, r, s, a, tr)
        PROVE  authority'[curr'[q]] > authority'[curr[q]]
    BY <1>2 DEF OpenOnExistingRegion, NewGate, Attach, TakesControlOnOpen, IInv,
                TypeOK, CurrOpened, Levels
  <1>3. ASSUME NEW g \in Gates, NEW a \in Authorities, SetAuthority(g, a)
        PROVE  Precedes(authority'[curr'[q]], position'[curr'[q]],
                        authority'[curr[q]], position'[curr[q]])
    <2>1. regionOf[g] = q /\ curr[q] \in Gates
      BY <1>3 DEF SetAuthority, UpdateController, UpdateContender, IInv, TypeOK
    <2>2. CASE UpdateController(g, q, a)
      BY <1>3, <2>1, <2>2 DEF SetAuthority, UpdateController, Better, IInv, TypeOK
    <2>3. CASE UpdateContender(g, q, a)
      BY <1>3, <2>1, <2>3 DEF SetAuthority, UpdateContender, IInv, TypeOK
    <2> QED
      BY <1>3, <2>1, <2>2, <2>3 DEF SetAuthority
  <1>4. ASSUME NEW g \in Gates, Release(g)
        PROVE  FALSE
    BY <1>4 DEF Release, ReleaseLast, ReleaseToLast, ReleaseContender,
                ReleaseController, Detach, Remaining, IInv, TypeOK
  <1>5. ASSUME NEW g \in Gates, Elect(g)
        PROVE  FALSE
    BY <1>5 DEF Elect, IInv, TypeOK, ElectingIsNil, Opened
  <1>6. ASSUME NEW g \in Gates, Remove(g)
        PROVE  FALSE
    BY <1>6 DEF Remove, regionVars
  <1>7. ASSUME NEW r \in Regions, NEW tr \in Ranges, Register(r, tr)
        PROVE  FALSE
    BY <1>7 DEF Register
  <1>8. ASSUME NEW g \in Gates, Open(g)
        PROVE  authority'[curr'[q]] > authority'[curr[q]]
    BY <1>1, <1>2, <1>8 DEF Open, OpenGateAndMaybeRegister,
       OpenAbsoluteGateIfUncontrolled, Levels
  <1> QED
    BY <1>3, <1>4, <1>5, <1>6, <1>7, <1>8 DEF Next

\* Control leaves a gate that stays open only for a gate that outranks it: no
\* interleaving of opens, updates and releases lets a lower gate usurp it.
THEOREM ControlIsNeverUsurped == Spec => ControlNeverUsurped
  <1>1. IInv /\ [Next]_vars => [TakeoverOutranks]_vars
    BY TakeoverStep
  <1> QED
    BY <1>1, IInvHolds, PTL DEF Spec, ControlNeverUsurped

\* In one step the highest gate keeps control, unless the controller lowers
\* its own authority.
LEMMA HighestStep == IInv /\ Next => HighestKeptStep
  <1> SUFFICES ASSUME IInv, Next,
                      NEW q \in Regions, Settled(q)',
                      Settled(q) => HighestInControl(q) /\ ControllerKeepsAuthority(q),
                      NEW k \in gates'[q], k # curr'[q]
               PROVE  Precedes(authority'[curr'[q]], position'[curr'[q]],
                               authority'[k], position'[k])
    BY DEF HighestKeptStep, HighestInControl, Outranks
  <1> USE AuthorityAssumption DEF Precedes
  <1>0. IInv'
    BY NextIInv
  <1>a. /\ k \in Gates
        /\ curr'[q] \in Gates
        /\ curr'[q] \in gates'[q]
    BY <1>0 DEF IInv, TypeOK, SettledRegionControlled
  <1>1. ASSUME NEW g \in Gates, NEW r \in Regions, NEW s \in Subjects,
               NEW a \in Levels, NEW tr \in Ranges,
               OpenOnNewRegion(g, r, s, a, tr)
        PROVE  Precedes(authority'[curr'[q]], position'[curr'[q]],
                        authority'[k], position'[k])
    <2>1. CASE q = r
      BY <1>a, <1>1, <2>1 DEF OpenOnNewRegion, IInv, TypeOK
    <2>2. CASE q # r
      <3>1. Settled(q) /\ curr'[q] = curr[q] /\ gates'[q] = gates[q]
        BY <1>1, <2>2 DEF OpenOnNewRegion, NewGate, Settled, Dying, Electing,
                          IInv, TypeOK
      <3>2. \A h \in gates[q] : /\ authority'[h] = authority[h]
                                /\ position'[h] = position[h]
        BY <1>1 DEF OpenOnNewRegion, NewGate, IInv, TypeOK, Membership
      <3> QED
        BY <1>a, <3>1, <3>2 DEF HighestInControl, Outranks
    <2> QED BY <2>1, <2>2
  <1>2. ASSUME NEW g \in Gates, NEW r \in Regions, NEW s \in Subjects,
               NEW a \in Levels, NEW tr \in Ranges,
               OpenOnExistingRegion(g, r, s, a, tr)
        PROVE  Precedes(authority'[curr'[q]], position'[curr'[q]],
                        authority'[k], position'[k])
    <2> USE DEF OpenOnExistingRegion, NewGate, Attach, TakesControlOnOpen
    <2>1. \A h \in Gates \ {g} : /\ authority'[h] = authority[h]
                                 /\ position'[h] = position[h]
                                 /\ status'[h] = status[h]
                                 /\ regionOf'[h] = regionOf[h]
      BY <1>2 DEF IInv, TypeOK
    <2>2. /\ authority'[g] = a /\ a \in Nat
          /\ position'[g] = counter[r]
          /\ status[g] = "fresh"
      BY <1>2 DEF IInv, TypeOK, Levels
    <2>3. \A h \in gates[q] : h \in Gates \ {g} /\ regionOf[h] = q
      BY <1>2 DEF IInv, TypeOK, Membership
    <2>4. ~Dying(q) /\ ~Electing(q) /\ q \in listed
      BY <1>2, <2>1, <2>2 DEF Settled, Dying, Electing, IInv, TypeOK
    <2>5. CASE q # r
      <3>1. curr'[q] = curr[q] /\ gates'[q] = gates[q]
        BY <1>2, <2>5 DEF IInv, TypeOK
      <3>2. Settled(q)
        BY <2>4, <3>1 DEF Settled
      <3> QED
        BY <1>a, <2>1, <2>3, <3>1, <3>2 DEF HighestInControl, Outranks
    <2>6. CASE q = r /\ gates[q] = {}
      <3>1. curr[r] = Nil /\ gates'[r] = {g}
        BY <1>2, <2>4, <2>6 DEF IInv, TypeOK, EmptyRegion
      <3> QED
        BY <1>a, <2>6, <3>1
    <2>7. CASE q = r /\ gates[q] # {}
      <3>1. Settled(r) /\ curr[r] \in gates[r] /\ curr[r] # Nil
        BY <2>4, <2>7, NilAssumption DEF Settled, IInv, TypeOK,
           SettledRegionControlled
      <3>2. gates'[r] = gates[r] \cup {g}
        BY <1>2 DEF IInv, TypeOK
      <3>3. \A h \in gates[r] : h # curr[r] => Outranks(curr[r], h)
        BY <2>7, <3>1 DEF HighestInControl
      <3>4. \A h \in gates[r] : position[h] < counter[r] /\ position[h] \in Nat
                                /\ authority[h] \in Nat /\ counter[r] \in Nat
        BY <2>3, <2>7 DEF IInv, TypeOK, Positions, Membership
      <3>5. CASE TakesControlOnOpen(r, a)
        <4>1. curr'[r] = g /\ a > authority[curr[r]]
          BY <1>2, <3>1, <3>5 DEF IInv, TypeOK
        <4>2. k \in gates[r] /\ authority[k] <= authority[curr[r]]
          BY <2>7, <3>1, <3>2, <3>3, <3>4, <4>1 DEF Outranks
        <4> QED
          BY <2>1, <2>2, <2>3, <2>7, <3>1, <3>4, <4>1, <4>2
      <3>6. CASE ~TakesControlOnOpen(r, a)
        <4>1. curr'[r] = curr[r] /\ ~(a > authority[curr[r]])
          BY <1>2, <3>1, <3>6
        <4>2. CASE k = g
          BY <2>1, <2>2, <2>3, <2>7, <3>1, <3>4, <4>1, <4>2
        <4>3. CASE k \in gates[r]
          BY <2>1, <2>3, <2>7, <3>1, <3>3, <4>1, <4>3 DEF Outranks
        <4> QED
          BY <2>7, <3>2, <4>2, <4>3
      <3> QED BY <3>5, <3>6
    <2> QED BY <2>5, <2>6, <2>7
  <1>3. ASSUME NEW g \in Gates, NEW a \in Authorities, SetAuthority(g, a)
        PROVE  Precedes(authority'[curr'[q]], position'[curr'[q]],
                        authority'[k], position'[k])
    <2> USE DEF SetAuthority
    <2>1. /\ Settled(q) /\ gates'[q] = gates[q] /\ position' = position
          /\ curr[q] \in gates[q]
      BY <1>3 DEF Settled, Dying, Electing, IInv, SettledRegionControlled
    <2>2. /\ authority' = [authority EXCEPT ![g] = a] /\ a \in Nat
          /\ authority \in [Gates -> Nat] /\ position \in [Gates -> Nat]
          /\ curr[q] \in Gates /\ curr \in [Regions -> Gates \cup {Nil}]
          /\ regionOf[g] \in Regions
      BY <1>3, <2>1 DEF IInv, TypeOK, Opened
    <2>3. \A h \in gates[q] : h # curr[q] => Outranks(curr[q], h)
      BY <2>1 DEF HighestInControl
    <2>4. authority'[curr[q]] >= authority[curr[q]]
      BY <2>1 DEF ControllerKeepsAuthority
    <2>5. CASE q # regionOf[g]
      <3>1. curr'[q] = curr[q]
        BY <1>3, <2>2, <2>5 DEF UpdateController, UpdateContender
      <3>2. g \notin gates[q]
        BY <2>5 DEF IInv, Membership
      <3> QED
        BY <1>a, <2>1, <2>2, <2>3, <3>1, <3>2 DEF Outranks
    <2>6. CASE q = regionOf[g] /\ UpdateController(g, q, a)
      <3>1. Better(g, q, a) = {}
        <4> SUFFICES ASSUME NEW og \in Better(g, q, a) PROVE FALSE
          OBVIOUS
        <4>1. og \in gates[q] /\ og \in Gates /\ og # g /\ g = curr[q]
          BY <2>6 DEF UpdateController, Better, IInv, TypeOK
        <4>2. Precedes(authority[g], position[g], authority[og], position[og])
          BY <2>3, <4>1 DEF Outranks
        <4>3. Precedes(authority[og], position[og], a, position[g])
          BY DEF Better
        <4> QED
          BY <2>2, <2>4, <4>1, <4>2, <4>3
      <3>2. curr'[q] = curr[q] /\ g = curr[q]
        BY <2>6, <3>1 DEF UpdateController
      <3> QED
        BY <1>a, <2>1, <2>2, <2>3, <2>4, <3>2 DEF Outranks
    <2>7. CASE q = regionOf[g] /\ UpdateContender(g, q, a)
      <3>1. g # curr[q]
        BY <2>7 DEF UpdateContender
      <3>2. CASE Precedes(a, position[g], authority[curr[q]], position[curr[q]])
        <4>1. curr'[q] = g
          BY <2>2, <2>7, <3>2 DEF UpdateContender
        <4> QED
          BY <1>a, <2>1, <2>2, <2>3, <3>1, <3>2, <4>1 DEF Outranks
      <3>3. CASE ~Precedes(a, position[g], authority[curr[q]], position[curr[q]])
        <4>1. curr'[q] = curr[q]
          BY <2>7, <3>3 DEF UpdateContender
        <4>2. g \in gates[q] => position[g] # position[curr[q]]
          BY <2>1, <2>2, <3>1 DEF IInv, PositionsDistinct, Membership
        <4> QED
          BY <1>a, <2>1, <2>2, <2>3, <3>1, <3>3, <4>1, <4>2 DEF Outranks
      <3> QED BY <3>2, <3>3
    <2> QED
      BY <1>3, <2>5, <2>6, <2>7
  <1>4. ASSUME NEW g \in Gates, Release(g)
        PROVE  Precedes(authority'[curr'[q]], position'[curr'[q]],
                        authority'[k], position'[k])
    <2> USE DEF Release, ReleaseLast, ReleaseToLast, ReleaseContender,
                ReleaseController, Detach, Remaining
    <2>1. /\ authority' = authority /\ position' = position
          /\ gates'[q] \subseteq gates[q]
          /\ regionOf[g] \in Regions
          /\ g \in gates[regionOf[g]]
      BY <1>4 DEF IInv, TypeOK, Opened, Membership
    <2>2. Settled(q)
      BY <1>4, <2>1 DEF Settled, Dying, Electing, IInv, TypeOK
    <2>3. \A h \in gates[q] : h # curr[q] => Outranks(curr[q], h)
      BY <2>2 DEF HighestInControl
    <2>4. CASE curr'[q] = curr[q]
      BY <1>a, <2>1, <2>3, <2>4 DEF Outranks
    <2>5. CASE curr'[q] # curr[q]
      <3>1. q = regionOf[g] /\ gates'[q] = {curr'[q]}
        BY <1>4, <1>a, <2>1, <2>5, NilAssumption DEF IInv, TypeOK
      <3> QED BY <3>1
    <2> QED BY <2>4, <2>5
  <1>5. ASSUME NEW g \in Gates, Elect(g)
        PROVE  Precedes(authority'[curr'[q]], position'[curr'[q]],
                        authority'[k], position'[k])
    <2> USE DEF Elect
    <2>1. /\ authority' = authority /\ position' = position /\ gates' = gates
          /\ regionOf[g] \in Regions
      BY <1>5 DEF IInv, TypeOK, Opened
    <2>2. CASE q = regionOf[g]
      BY <1>5, <1>a, <2>1, <2>2 DEF Outranks, IInv, TypeOK
    <2>3. CASE q # regionOf[g]
      <3>1. Settled(q) /\ curr'[q] = curr[q]
        BY <1>5, <2>1, <2>3 DEF Settled, Dying, Electing, IInv, TypeOK
      <3> QED
        BY <1>a, <2>1, <3>1 DEF HighestInControl, Outranks
    <2> QED BY <2>2, <2>3
  <1>6. ASSUME NEW g \in Gates, Remove(g)
        PROVE  Precedes(authority'[curr'[q]], position'[curr'[q]],
                        authority'[k], position'[k])
    <2>1. /\ authority' = authority /\ position' = position /\ gates' = gates
          /\ curr' = curr
      BY <1>6 DEF Remove, regionVars
    <2>2. Settled(q)
      BY <1>6, <2>1 DEF Remove, Settled, Dying, Electing, IInv, TypeOK
    <2> QED
      BY <1>a, <2>1, <2>2 DEF HighestInControl, Outranks
  <1>7. ASSUME NEW r \in Regions, NEW tr \in Ranges, Register(r, tr)
        PROVE  Precedes(authority'[curr'[q]], position'[curr'[q]],
                        authority'[k], position'[k])
    <2>1. /\ authority' = authority /\ position' = position /\ gates' = gates
          /\ curr' = curr
      BY <1>7 DEF Register, gateVars
    <2>2. Settled(q)
      BY <1>7, <2>1 DEF Register, gateVars, Unallocated, Settled, Dying,
         Electing, IInv, TypeOK, Blank
    <2> QED
      BY <1>a, <2>1, <2>2 DEF HighestInControl, Outranks
  <1>8. ASSUME NEW g \in Gates, Open(g)
        PROVE  Precedes(authority'[curr'[q]], position'[curr'[q]],
                        authority'[k], position'[k])
    BY <1>1, <1>2, <1>8 DEF Open, OpenGateAndMaybeRegister,
       OpenAbsoluteGateIfUncontrolled, Levels
  <1> QED
    BY <1>3, <1>4, <1>5, <1>6, <1>7, <1>8 DEF Next

\* open, update and release keep the highest gate in control, in every step but
\* the one in which the controller lowers its own authority.
THEOREM HighestStaysInControl == Spec => HighestKept
  <1>1. IInv /\ [Next]_vars => [HighestKeptStep]_vars
    BY HighestStep
  <1> QED
    BY <1>1, IInvHolds, PTL DEF Spec, HighestKept
=============================================================================
