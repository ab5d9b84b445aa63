------------------------- MODULE AspenPledgeProofs --------------------------
(***************************************************************************)
(* What the pledge protocol does guarantee about the keys it assigns, for  *)
(* every number of nodes, proposals and restarts and every message order.  *)
(*                                                                         *)
(* The inductive invariant ties approvals that were collected, or used in  *)
(* an admission, to the memory of the juror that gave them: an incarnation *)
(* that approved a key still holds it in approvals, so it cannot approve   *)
(* the key again.  Together with the size of the jury this makes keys      *)
(* given on the same candidates distinct, since two majorities of one set  *)
(* intersect.                                                              *)
(***************************************************************************)
EXTENDS AspenPledge, FiniteSetTheorems, TLAPS

\* Only a node without a key pledges, and a proposal under way has a key.
Proposing ==
    \A n \in Nodes :
        /\ at[n] # None => key[n] = None
        /\ (round[n] > 0 \/ waiting[n] # {}) => proposed[n] \in Keys

\* The juror behind approval x still remembers k, unless it was restarted.
Remembers(x, k) ==
    /\ x[2] <= epoch[x[1][2]]
    /\ x[2] = epoch[x[1][2]] => k \in approvals[x[1][2]]

\* Two approvals were given by the same incarnation of the same node.
SameJuror(x, y) == x[1][2] = y[1][2] /\ x[2] = y[2]

GrantsRemembered ==
    \A n \in Nodes : \A x \in granted[n] : Remembers(x, proposed[n])

AdmissionsRemembered ==
    \A n \in Nodes : \A a \in admitted[n] : \A x \in a.approvals : Remembers(x, a.key)

\* A node without a key has approved nothing since it was started.
OutsidersBlank == \A n \in Nodes : key[n] = None => approvals[n] = {}

PendingApart ==
    \A n1, n2 \in Nodes : (n1 # n2 /\ proposed[n1] = proposed[n2]) =>
        \A x \in granted[n1], y \in granted[n2] : ~SameJuror(x, y)

PendingAdmittedApart ==
    \A n1, n2 \in Nodes : \A a \in admitted[n2] : proposed[n1] = a.key =>
        \A x \in granted[n1], y \in a.approvals : ~SameJuror(x, y)

AdmittedApart ==
    \A n1, n2 \in Nodes : \A a1 \in admitted[n1], a2 \in admitted[n2] :
        (a1.key = a2.key /\ <<n1, a1>> # <<n2, a2>>) =>
            \A x \in a1.approvals, y \in a2.approvals : ~SameJuror(x, y)

\* A proposal under way has the jury that buildQuorum chose.
JuryComplete ==
    \A n \in Nodes :
        /\ JuryOf(granted[n]) \subseteq candidates[n]
        /\ waiting[n] \subseteq candidates[n]
        /\ (round[n] > 0 /\ ~failed[n]) =>
              Cardinality(JuryOf(granted[n]) \cup waiting[n])
                = QuorumSize(candidates[n])

IInv ==
    /\ TypeOK
    /\ Proposing
    /\ GrantsRemembered
    /\ AdmissionsRemembered
    /\ OutsidersBlank
    /\ PendingApart
    /\ PendingAdmittedApart
    /\ AdmittedApart
    /\ JuryComplete
    /\ JuryIsMajority

-----------------------------------------------------------------------------

\* Every set of members is finite.
LEMMA MembersFinite == ASSUME NEW S \in SUBSET Members
                       PROVE  IsFiniteSet(S) /\ Cardinality(S) \in Nat
  <1>1. IsFiniteSet(Keys)
    BY BoundAssumption, FS_Interval DEF Keys
  <1>2. IsFiniteSet(Members)
    BY <1>1, NodeAssumption, FS_Product DEF Members
  <1> QED
    BY <1>2, FS_Subset, FS_CardinalityType

LEMMA InitIInv == Init => IInv
  <1> SUFFICES ASSUME Init PROVE IInv
    OBVIOUS
  <1> USE BoundAssumption, NodeAssumption, ClusterAssumption DEF Init
  <1>1. TypeOK
    <2>1. /\ cluster.members \in Seq(Nodes) /\ Len(cluster.members) <= MaxKey
          /\ DOMAIN cluster.members \subseteq Keys
      BY ClusterAssumption DEF Keys
    <2>2. Roster(cluster) \in SUBSET Members
      BY <2>1 DEF Roster, Members
    <2>3. ASSUME NEW n \in Nodes, KeysIn(cluster, n) # {}
          PROVE  (CHOOSE k \in KeysIn(cluster, n) : TRUE) \in Keys
      BY <2>1, <2>3 DEF KeysIn
    <2>4. key \in [Nodes -> Keys \cup {None}]
      BY <2>3 DEF InitCluster
    <2> QED
      BY <2>2, <2>4 DEF TypeOK, InitCluster
  <1>p. Proposing
    BY DEF Proposing
  <1>2. GrantsRemembered /\ AdmissionsRemembered /\ OutsidersBlank
    BY DEF GrantsRemembered, AdmissionsRemembered, OutsidersBlank
  <1>3. PendingApart /\ PendingAdmittedApart /\ AdmittedApart
    BY DEF PendingApart, PendingAdmittedApart, AdmittedApart
  <1>4. JuryComplete /\ JuryIsMajority
    BY DEF JuryComplete, JuryIsMajority, JuryOf
  <1> QED
    BY <1>1, <1>p, <1>2, <1>3, <1>4 DEF IInv

\* A step that admits nobody and collects no approval, and whose jurors
\* forget what they approved only in a restart.
LEMMA QuietStep ==
    ASSUME IInv, TypeOK', Proposing',
           OutsidersBlank',
           UNCHANGED admitted,
           \A x \in Approvals, k \in Keys \cup {0} :
              Remembers(x, k) => Remembers(x, k)',
           \A n \in Nodes :
              \/ /\ granted'[n] = granted[n] /\ proposed'[n] = proposed[n]
                 /\ candidates'[n] = candidates[n]
                 /\ waiting'[n] \subseteq candidates[n]
                 /\ (round'[n] > 0 /\ ~failed'[n]) =>
                        round[n] > 0 /\ ~failed[n] /\ waiting'[n] = waiting[n]
              \/ /\ granted'[n] = {}
                 /\ waiting'[n] \subseteq candidates'[n]
                 /\ (round'[n] > 0 /\ ~failed'[n]) =>
                        Cardinality(waiting'[n]) = QuorumSize(candidates'[n])
    PROVE  IInv'
  <1>0. GrantsRemembered'
    BY DEF IInv, TypeOK, GrantsRemembered
  <1>1. AdmissionsRemembered'
    BY DEF IInv, TypeOK, AdmissionsRemembered, Admissions
  <1>2. PendingApart'
    BY DEF IInv, PendingApart, SameJuror
  <1>3. PendingAdmittedApart'
    BY DEF IInv, PendingAdmittedApart, SameJuror
  <1>4. AdmittedApart' /\ JuryIsMajority'
    BY DEF IInv, AdmittedApart, JuryIsMajority, SameJuror, JuryOf
  <1>5. JuryComplete'
    <2> SUFFICES ASSUME NEW n \in Nodes
                 PROVE  /\ JuryOf(granted'[n]) \subseteq candidates'[n]
                        /\ waiting'[n] \subseteq candidates'[n]
                        /\ (round'[n] > 0 /\ ~failed'[n]) =>
                              Cardinality(JuryOf(granted'[n]) \cup waiting'[n])
                                = QuorumSize(candidates'[n])
      BY DEF JuryComplete, QuorumSize, JuryOf
    <2>1. CASE granted'[n] = {}
      <3>1. JuryOf(granted'[n]) = {}
        BY <2>1 DEF JuryOf
      <3>2. JuryOf(granted'[n]) \cup waiting'[n] = waiting'[n]
        BY <3>1
      <3>3. CASE granted'[n] = granted[n] /\ waiting'[n] = waiting[n]
                 /\ candidates'[n] = candidates[n] /\ round[n] > 0 /\ ~failed[n]
        BY <3>3 DEF IInv, JuryComplete
      <3> QED
        BY <2>1, <3>1, <3>2, <3>3
    <2>2. CASE granted'[n] # {}
      BY <2>2 DEF IInv, JuryComplete
    <2> QED BY <2>1, <2>2
  <1> QED
    BY <1>0, <1>1, <1>2, <1>3, <1>4, <1>5 DEF IInv

\* The types are preserved by every step.
LEMMA TypeStep == TypeOK /\ Proposing /\ [Next]_vars => TypeOK' /\ Proposing'
  <1> SUFFICES ASSUME TypeOK, Proposing, [Next]_vars
               PROVE  TypeOK' /\ Proposing'
    OBVIOUS
  <1> USE BoundAssumption, NodeAssumption DEF TypeOK, Proposing
  <1>0. ASSUME NEW n \in Nodes, NEW js \in SUBSET waiting[n]
        PROVE  Abandoned(n, js) \subseteq (Nodes \X Keys)
    <2>1. \A m \in js : m[2] \in Nodes /\ proposed[n] \in Keys
      BY DEF Members
    <2> QED
      BY <2>1 DEF Abandoned
  <1>1. ASSUME NEW n \in Nodes, NEW p \in Nodes, SendPledge(n, p)
        PROVE  TypeOK' /\ Proposing'
    BY <1>1 DEF SendPledge
  <1>2. ASSUME NEW n \in Nodes, NEW m \in Nodes, Gossip(n, m)
        PROVE  TypeOK' /\ Proposing'
    <2>1. \A told \in SUBSET (view[m] \ view[n]) : Merge(view[n], told) \in SUBSET Members
      BY DEF Merge
    <2> QED
      BY <1>2, <2>1 DEF Gossip, pledgeVars
  <1>3. ASSUME NEW n \in Nodes, Propose(n) PROVE TypeOK' /\ Proposing'
    <2>1. at[n] \in Nodes /\ view[at[n]] \in SUBSET Members
      BY <1>3 DEF Propose
    <2>2. round[n] + 1 \in 0 .. MaxProposals
      BY <1>3 DEF Propose
    <2>3. \A jury \in Quorums(view[at[n]]) : jury \in SUBSET Members
      BY <2>1 DEF Quorums
    <2> QED
      BY <1>3, <2>1, <2>2, <2>3 DEF Propose
  <1>4. ASSUME NEW n \in Nodes, NEW m \in waiting[n], Verdict(n, m)
        PROVE  TypeOK' /\ Proposing'
    <2>1. /\ m \in Members /\ m[2] \in Nodes /\ proposed[n] \in Keys
          /\ <<m, epoch[m[2]]>> \in Approvals
      BY DEF Members, Approvals
    <2>2. Abandoned(n, waiting[n] \ {m}) \subseteq (Nodes \X Keys)
      BY <1>0
    <2>3. approvals' \in [Nodes -> SUBSET Keys]
      BY <1>4, <2>1 DEF Verdict, Record
    <2>4. CASE Approves(m[2], proposed[n])
      <3>1. /\ waiting' = [waiting EXCEPT ![n] = @ \ {m}]
            /\ granted' = [granted EXCEPT ![n] = @ \cup {<<m, epoch[m[2]]>>}]
            /\ UNCHANGED <<cluster, key, epoch, view, disk, at, round, proposed,
                           candidates, admitted, failed, stray>>
        BY <1>4, <2>4 DEF Verdict
      <3>2. granted' \in [Nodes -> SUBSET Approvals]
        BY <2>1, <3>1
      <3>3. waiting' \in [Nodes -> SUBSET Members]
            /\ \A l \in Nodes : waiting'[l] \subseteq waiting[l]
        BY <3>1
      <3>4. Proposing'
        BY <3>1, <3>3
      <3> QED
        BY <2>3, <3>1, <3>2, <3>3, <3>4
    <2>5. CASE ~Approves(m[2], proposed[n])
      <3>1. /\ waiting' = [waiting EXCEPT ![n] = {}]
            /\ failed' = [failed EXCEPT ![n] = TRUE]
            /\ stray' = Abandoned(n, waiting[n] \ {m})
            /\ UNCHANGED <<cluster, key, epoch, view, disk, at, round, proposed,
                           candidates, admitted, granted>>
        BY <1>4, <2>5 DEF Verdict
      <3> QED
        BY <2>2, <2>3, <3>1
    <2> QED BY <2>4, <2>5
  <1>5. ASSUME NEW n \in Nodes, JurorUnreachable(n) PROVE TypeOK' /\ Proposing'
    <2>1. Abandoned(n, waiting[n]) \subseteq (Nodes \X Keys)
      BY <1>0
    <2> QED
      BY <1>5, <2>1 DEF JurorUnreachable
  <1>6. ASSUME NEW n \in Nodes, Admit(n) PROVE TypeOK' /\ Proposing'
    <2>1. proposed[n] \in Keys
      BY <1>6 DEF Admit, Unanimous
    <2>2. {<<proposed[n], n>>} \in SUBSET Members
      BY <2>1 DEF Members
    <2>3. [key |-> proposed[n], approvals |-> granted[n],
           candidates |-> candidates[n]] \in Admissions
      BY <2>1 DEF Admissions
    <2> QED
      BY <1>6, <2>1, <2>2, <2>3 DEF Admit, EndPledge
  <1>7. ASSUME NEW n \in Nodes, GiveUp(n) PROVE TypeOK' /\ Proposing'
    <2>1. Abandoned(n, waiting[n]) \subseteq (Nodes \X Keys)
      BY <1>0
    <2> QED
      BY <1>7, <2>1 DEF GiveUp, EndPledge
  <1>8. ASSUME NEW n \in Nodes, Flush(n) PROVE TypeOK' /\ Proposing'
    BY <1>8 DEF Flush, pledgeVars
  <1>9. ASSUME NEW n \in Nodes, Restart(n) PROVE TypeOK' /\ Proposing'
    <2>1. /\ epoch' \in [Nodes -> Nat]
          /\ approvals' \in [Nodes -> SUBSET Keys]
          /\ view' \in [Nodes -> SUBSET Members]
          /\ key' \in [Nodes -> Keys \cup {None}]
      BY <1>9 DEF Restart
    <2>2. /\ at' \in [Nodes -> Nodes \cup {None}]
          /\ round' \in [Nodes -> 0 .. MaxProposals]
          /\ proposed' \in [Nodes -> Keys \cup {0}]
      BY <1>9 DEF Restart
    <2>3. /\ candidates' \in [Nodes -> SUBSET Members]
          /\ waiting' \in [Nodes -> SUBSET Members]
          /\ granted' \in [Nodes -> SUBSET Approvals]
      BY <1>9 DEF Restart
    <2>4. failed' \in [Nodes -> BOOLEAN]
      BY <1>9 DEF Restart
    <2>5. Proposing'
      BY <1>9 DEF Restart
    <2> QED
      BY <1>9, <2>1, <2>2, <2>3, <2>4, <2>5 DEF Restart
  <1>10. ASSUME NEW t \in stray, StrayVerdict(t) PROVE TypeOK' /\ Proposing'
    BY <1>10 DEF StrayVerdict, Record, pledgeVars
  <1>11. CASE UNCHANGED vars
    BY <1>11 DEF vars
  <1> QED
    BY <1>1, <1>2, <1>3, <1>4, <1>5, <1>6, <1>7, <1>8, <1>9, <1>10, <1>11 DEF Next

\* An approval adds a juror that has approved the key for nobody else.
LEMMA ApprovalStep ==
    ASSUME IInv, TypeOK', Proposing',
           NEW n \in Nodes, NEW m \in waiting[n], Verdict(n, m),
           Approves(m[2], proposed[n])
    PROVE  IInv'
  <1> DEFINE q == m[2]
             k == proposed[n]
             x == <<m, epoch[q]>>
  <1>1. /\ q \in Nodes /\ m \in Members /\ k \in Keys /\ x \in Approvals
        /\ k \notin approvals[q]
        /\ x[1] = m /\ x[1][2] = q /\ x[2] = epoch[q]
    BY DEF IInv, TypeOK, Proposing, Members, Approvals, Approves
  <1>2. /\ UNCHANGED <<key, epoch, admitted, proposed, candidates, round, failed>>
        /\ approvals' = [approvals EXCEPT ![q] = @ \cup {k}]
        /\ waiting' = [waiting EXCEPT ![n] = @ \ {m}]
        /\ granted' = [granted EXCEPT ![n] = @ \cup {x}]
    BY DEF Verdict, Record
  <1>3. \A y \in Approvals, j \in Keys \cup {0} : Remembers(y, j) => Remembers(y, j)'
    BY <1>1, <1>2 DEF IInv, TypeOK, Remembers, Approvals, Members
  <1>4. Remembers(x, k)'
    BY <1>1, <1>2 DEF IInv, TypeOK, Remembers
  <1>5. \A y \in Approvals : Remembers(y, k) => ~SameJuror(x, y)
    BY <1>1 DEF Remembers, SameJuror
  <1>6. \A l \in Nodes : /\ l # n => granted'[l] = granted[l]
                         /\ l = n => granted'[l] = granted[l] \cup {x}
                         /\ granted[l] \subseteq Approvals
                         /\ proposed[l] \in Keys \cup {0}
    BY <1>2 DEF IInv, TypeOK
  <1>7. \A l \in Nodes : \A a \in admitted[l] : a.approvals \subseteq Approvals
                                                /\ a.key \in Keys
    BY DEF IInv, TypeOK, Admissions
  <1>8. GrantsRemembered'
    BY <1>2, <1>3, <1>4, <1>6 DEF IInv, GrantsRemembered
  <1>9. AdmissionsRemembered'
    BY <1>2, <1>3, <1>7 DEF IInv, AdmissionsRemembered
  <1>10. OutsidersBlank'
    BY <1>1, <1>2 DEF IInv, TypeOK, OutsidersBlank, Verdict
  <1>11. PendingApart'
    <2> SUFFICES ASSUME NEW n1 \in Nodes, NEW n2 \in Nodes, n1 # n2,
                        proposed[n1] = proposed[n2],
                        NEW y \in granted'[n1], NEW z \in granted'[n2]
                 PROVE  ~SameJuror(y, z)
      BY <1>2 DEF PendingApart, SameJuror
    <2>1. CASE y \in granted[n1] /\ z \in granted[n2]
      BY <2>1 DEF IInv, PendingApart
    <2>2. CASE n1 = n /\ y = x
      <3>1. z \in granted[n2] /\ z \in Approvals /\ Remembers(z, k)
        BY <1>6, <2>2 DEF IInv, GrantsRemembered
      <3> QED BY <1>5, <2>2, <3>1
    <2>3. CASE n2 = n /\ z = x
      <3>1. y \in granted[n1] /\ y \in Approvals /\ Remembers(y, k)
        BY <1>6, <2>3 DEF IInv, GrantsRemembered
      <3> QED BY <1>5, <2>3, <3>1 DEF SameJuror
    <2> QED BY <1>6, <2>1, <2>2, <2>3
  <1>12. PendingAdmittedApart'
    <2> SUFFICES ASSUME NEW n1 \in Nodes, NEW n2 \in Nodes,
                        NEW a \in admitted[n2], proposed[n1] = a.key,
                        NEW y \in granted'[n1], NEW z \in a.approvals
                 PROVE  ~SameJuror(y, z)
      BY <1>2 DEF PendingAdmittedApart, SameJuror
    <2>1. CASE y \in granted[n1]
      BY <2>1 DEF IInv, PendingAdmittedApart
    <2>2. CASE n1 = n /\ y = x
      <3>1. z \in Approvals /\ Remembers(z, k)
        BY <1>7, <2>2 DEF IInv, AdmissionsRemembered
      <3> QED BY <1>5, <2>2, <3>1
    <2> QED BY <1>6, <2>1, <2>2
  <1>13. AdmittedApart' /\ JuryIsMajority'
    BY <1>2 DEF IInv, AdmittedApart, JuryIsMajority, JuryOf, SameJuror
  <1>14. JuryComplete'
    <2> SUFFICES ASSUME NEW l \in Nodes
                 PROVE  /\ JuryOf(granted'[l]) \subseteq candidates[l]
                        /\ waiting'[l] \subseteq candidates[l]
                        /\ (round[l] > 0 /\ ~failed[l]) =>
                              Cardinality(JuryOf(granted'[l]) \cup waiting'[l])
                                = QuorumSize(candidates[l])
      BY <1>2 DEF JuryComplete, QuorumSize, JuryOf
    <2>1. CASE l # n
      <3>1. granted'[l] = granted[l] /\ waiting'[l] = waiting[l]
        BY <1>2, <2>1 DEF IInv, TypeOK
      <3> QED
        BY <3>1 DEF IInv, JuryComplete
    <2>2. CASE l = n
      <3>1. JuryOf(granted'[n]) = JuryOf(granted[n]) \cup {m}
        BY <1>1, <1>6 DEF JuryOf
      <3>2. waiting'[n] = waiting[n] \ {m} /\ m \in waiting[n]
        BY <1>2 DEF IInv, TypeOK
      <3>3. JuryOf(granted'[n]) \cup waiting'[n] = JuryOf(granted[n]) \cup waiting[n]
        BY <3>1, <3>2
      <3> QED
        BY <2>2, <3>1, <3>2, <3>3 DEF IInv, JuryComplete
    <2> QED BY <2>1, <2>2
  <1> QED
    BY <1>8, <1>9, <1>10, <1>11, <1>12, <1>13, <1>14 DEF IInv

\* An admission moves the grants of a pledge to the key it is given.
LEMMA AdmitStep ==
    ASSUME IInv, TypeOK', Proposing', NEW n \in Nodes, Admit(n)
    PROVE  IInv'
  <1> DEFINE new == [key |-> proposed[n], approvals |-> granted[n],
                     candidates |-> candidates[n]]
  <1>1. /\ UNCHANGED epoch
        /\ approvals' = approvals
    BY DEF IInv, TypeOK, Proposing, OutsidersBlank, Admit
  <1>2. \A l \in Nodes :
           /\ l # n => /\ granted'[l] = granted[l] /\ proposed'[l] = proposed[l]
                       /\ candidates'[l] = candidates[l] /\ waiting'[l] = waiting[l]
                       /\ round'[l] = round[l] /\ failed'[l] = failed[l]
                       /\ admitted'[l] = admitted[l]
           /\ l = n => /\ granted'[l] = {} /\ candidates'[l] = {}
                       /\ waiting'[l] = {} /\ round'[l] = 0
                       /\ admitted'[l] = admitted[l] \cup {new}
    <2> SUFFICES ASSUME NEW l \in Nodes
                 PROVE  /\ l # n => /\ granted'[l] = granted[l]
                                    /\ proposed'[l] = proposed[l]
                                    /\ candidates'[l] = candidates[l]
                                    /\ waiting'[l] = waiting[l]
                                    /\ round'[l] = round[l]
                                    /\ failed'[l] = failed[l]
                                    /\ admitted'[l] = admitted[l]
                        /\ l = n => /\ granted'[l] = {} /\ candidates'[l] = {}
                                    /\ waiting'[l] = {} /\ round'[l] = 0
                                    /\ admitted'[l] = admitted[l] \cup {new}
      OBVIOUS
    <2>1. admitted' = [admitted EXCEPT ![n] = @ \cup {new}] /\ EndPledge(n)
      BY DEF Admit
    <2> HIDE DEF new
    <2>2. /\ l # n => admitted'[l] = admitted[l]
          /\ l = n => admitted'[l] = admitted[l] \cup {new}
      BY <2>1 DEF IInv, TypeOK
    <2>3. /\ l # n => /\ granted'[l] = granted[l] /\ proposed'[l] = proposed[l]
                      /\ candidates'[l] = candidates[l]
          /\ l = n => granted'[l] = {} /\ candidates'[l] = {}
      BY <2>1 DEF IInv, TypeOK, EndPledge
    <2>4. /\ l # n => waiting'[l] = waiting[l] /\ round'[l] = round[l]
          /\ l = n => waiting'[l] = {} /\ round'[l] = 0
      BY <2>1 DEF IInv, TypeOK, EndPledge
    <2>5. l # n => failed'[l] = failed[l]
      <3>1. failed \in [Nodes -> BOOLEAN] /\ failed' = [failed EXCEPT ![n] = FALSE]
        BY <2>1 DEF IInv, TypeOK, EndPledge
      <3> QED
        BY <3>1
    <2> QED
      BY <2>2, <2>3, <2>4, <2>5, Zenon
  <1>3. /\ new.key = proposed[n] /\ new.approvals = granted[n]
        /\ new.candidates = candidates[n]
    OBVIOUS
  <1> HIDE DEF new
  <1>4. OutsidersBlank'
    BY <1>1 DEF IInv, TypeOK, OutsidersBlank, Admit, Proposing
  <1>5. GrantsRemembered'
    BY <1>1, <1>2 DEF IInv, GrantsRemembered, Remembers
  <1>6. AdmissionsRemembered'
    <2> SUFFICES ASSUME NEW l \in Nodes, NEW a \in admitted'[l], NEW x \in a.approvals
                 PROVE  Remembers(x, a.key)
      BY <1>1 DEF AdmissionsRemembered, Remembers
    <2>1. CASE a \in admitted[l]
      BY <2>1 DEF IInv, AdmissionsRemembered
    <2>2. CASE a = new
      BY <1>3, <2>2 DEF IInv, GrantsRemembered
    <2> QED BY <1>2, <2>1, <2>2
  <1>7. PendingApart'
    BY <1>2 DEF IInv, PendingApart, SameJuror
  <1>8. PendingAdmittedApart'
    <2> SUFFICES ASSUME NEW n1 \in Nodes, NEW n2 \in Nodes, NEW a \in admitted'[n2],
                        proposed'[n1] = a.key,
                        NEW x \in granted'[n1], NEW y \in a.approvals
                 PROVE  ~SameJuror(x, y)
      BY DEF PendingAdmittedApart, SameJuror
    <2>0. n1 # n /\ granted'[n1] = granted[n1] /\ proposed'[n1] = proposed[n1]
      BY <1>2
    <2>1. CASE a \in admitted[n2]
      BY <2>0, <2>1 DEF IInv, PendingAdmittedApart
    <2>2. CASE a = new /\ n2 = n
      BY <1>3, <2>0, <2>2 DEF IInv, PendingApart
    <2> QED BY <1>2, <2>1, <2>2
  <1>9. AdmittedApart'
    <2> SUFFICES ASSUME NEW n1 \in Nodes, NEW n2 \in Nodes,
                        NEW a1 \in admitted'[n1], NEW a2 \in admitted'[n2],
                        a1.key = a2.key, <<n1, a1>> # <<n2, a2>>,
                        NEW x \in a1.approvals, NEW y \in a2.approvals
                 PROVE  ~SameJuror(x, y)
      BY DEF AdmittedApart, SameJuror
    <2>1. CASE a1 \in admitted[n1] /\ a2 \in admitted[n2]
      BY <2>1 DEF IInv, AdmittedApart
    <2>2. CASE a1 = new /\ n1 = n /\ a2 \in admitted[n2]
      BY <1>3, <2>2 DEF IInv, PendingAdmittedApart
    <2>3. CASE a2 = new /\ n2 = n /\ a1 \in admitted[n1]
      <3>1. ~SameJuror(y, x)
        BY <1>3, <2>3 DEF IInv, PendingAdmittedApart
      <3> QED BY <3>1 DEF SameJuror
    <2> QED BY <1>2, <2>1, <2>2, <2>3
  <1>10. JuryComplete'
    <2> SUFFICES ASSUME NEW l \in Nodes
                 PROVE  /\ JuryOf(granted'[l]) \subseteq candidates'[l]
                        /\ waiting'[l] \subseteq candidates'[l]
                        /\ (round'[l] > 0 /\ ~failed'[l]) =>
                              Cardinality(JuryOf(granted'[l]) \cup waiting'[l])
                                = QuorumSize(candidates'[l])
      BY DEF JuryComplete, QuorumSize, JuryOf
    <2>1. CASE l # n
      BY <1>2, <2>1 DEF IInv, JuryComplete
    <2>2. CASE l = n
      BY <1>2, <2>2 DEF JuryOf
    <2> QED BY <2>1, <2>2
  <1>11. JuryIsMajority'
    <2>1. waiting[n] = {} /\ round[n] > 0 /\ ~failed[n]
      BY DEF Admit, Unanimous
    <2>2. JuryOf(granted[n]) \cup waiting[n] = JuryOf(granted[n])
      BY <2>1
    <2>3. /\ JuryOf(granted[n]) \subseteq candidates[n]
          /\ Cardinality(JuryOf(granted[n])) = QuorumSize(candidates[n])
      BY <2>1, <2>2 DEF IInv, JuryComplete
    <2>4. Cardinality(candidates[n]) \in Nat
      BY MembersFinite DEF IInv, TypeOK
    <2>5. 2 * Cardinality(JuryOf(granted[n])) > Cardinality(candidates[n])
      BY <2>3, <2>4 DEF QuorumSize
    <2> SUFFICES ASSUME NEW l \in Nodes, NEW a \in admitted'[l]
                 PROVE  /\ JuryOf(a.approvals) \subseteq a.candidates
                        /\ 2 * Cardinality(JuryOf(a.approvals)) > Cardinality(a.candidates)
      BY DEF JuryIsMajority, JuryOf
    <2>6. CASE a \in admitted[l]
      BY <2>6 DEF IInv, JuryIsMajority
    <2>7. CASE a = new
      BY <1>3, <2>3, <2>5, <2>7
    <2> QED BY <1>2, <2>6, <2>7
  <1> QED
    BY <1>4, <1>5, <1>6, <1>7, <1>8, <1>9, <1>10, <1>11 DEF IInv

LEMMA NextIInv == IInv /\ [Next]_vars => IInv'
  <1> SUFFICES ASSUME IInv, [Next]_vars PROVE IInv'
    OBVIOUS
  <1>t. TypeOK' /\ Proposing'
    BY TypeStep DEF IInv
  <1> USE NodeAssumption
  <1>r. ASSUME UNCHANGED epoch, \A q \in Nodes : approvals[q] \subseteq approvals'[q],
               NEW x \in Approvals, NEW k \in Keys \cup {0}, Remembers(x, k)
        PROVE  Remembers(x, k)'
    BY <1>r DEF Remembers, Approvals, Members
  <1>s. ASSUME UNCHANGED <<epoch, approvals>>,
               \A q \in Nodes : key'[q] = None => key[q] = None
        PROVE  /\ OutsidersBlank'
               /\ \A x \in Approvals, k \in Keys \cup {0} :
                     Remembers(x, k) => Remembers(x, k)'
    BY <1>r, <1>s DEF IInv, OutsidersBlank
  <1>1. ASSUME NEW n \in Nodes, NEW p \in Nodes, SendPledge(n, p) PROVE IInv'
    <2>1. UNCHANGED <<epoch, approvals, key, admitted, round, proposed, candidates,
                      waiting, granted, failed>>
      BY <1>1 DEF SendPledge
    <2> QED
      BY <1>t, <1>s, <2>1, QuietStep DEF IInv, JuryComplete
  <1>2. ASSUME NEW n \in Nodes, NEW p \in Nodes, Gossip(n, p) PROVE IInv'
    <2>1. UNCHANGED <<epoch, approvals, key, admitted, round, proposed, candidates,
                      waiting, granted, failed>>
      BY <1>2 DEF Gossip, pledgeVars
    <2> QED
      BY <1>t, <1>s, <2>1, QuietStep DEF IInv, JuryComplete
  <1>3. ASSUME NEW n \in Nodes, Propose(n) PROVE IInv'
    <2>1. UNCHANGED <<epoch, approvals, key, admitted>>
      BY <1>3 DEF Propose
    <2>2. PICK jury \in Quorums(view[at[n]]) : waiting' = [waiting EXCEPT ![n] = jury]
      BY <1>3 DEF Propose
    <2>3. jury \subseteq view[at[n]] /\ Cardinality(jury) = QuorumSize(view[at[n]])
      BY <2>2 DEF Quorums
    <2>4. /\ waiting'[n] = jury /\ candidates'[n] = view[at[n]] /\ granted'[n] = {}
      BY <1>3, <2>2 DEF IInv, TypeOK, Propose
    <2>5. \A l \in Nodes : l # n =>
             /\ granted'[l] = granted[l] /\ proposed'[l] = proposed[l]
             /\ candidates'[l] = candidates[l] /\ waiting'[l] = waiting[l]
             /\ round'[l] = round[l] /\ failed'[l] = failed[l]
      BY <1>3, <2>2 DEF IInv, TypeOK, Propose
    <2> QED
      BY <1>t, <1>s, <2>1, <2>3, <2>4, <2>5, QuietStep DEF IInv, JuryComplete
  <1>4. ASSUME NEW n \in Nodes, NEW m \in waiting[n], Verdict(n, m) PROVE IInv'
    <2>1. CASE Approves(m[2], proposed[n])
      BY <1>4, <1>t, <2>1, ApprovalStep
    <2>2. CASE ~Approves(m[2], proposed[n])
      <3>1. /\ UNCHANGED <<epoch, key, admitted, round, proposed, candidates, granted>>
            /\ waiting' = [waiting EXCEPT ![n] = {}]
            /\ failed' = [failed EXCEPT ![n] = TRUE]
            /\ approvals' = [approvals EXCEPT ![m[2]] = @ \cup {proposed[n]}]
            /\ key[m[2]] # None
        BY <1>4, <2>2 DEF Verdict, Record
      <3>2. \A q \in Nodes : approvals[q] \subseteq approvals'[q]
        BY <3>1 DEF IInv, TypeOK
      <3>3. OutsidersBlank'
        BY <3>1 DEF IInv, TypeOK, OutsidersBlank
      <3>4. \A l \in Nodes : /\ l # n => waiting'[l] = waiting[l] /\ failed'[l] = failed[l]
                             /\ l = n => waiting'[l] = {} /\ failed'[l]
        BY <3>1 DEF IInv, TypeOK
      <3> QED
        BY <1>t, <1>r, <3>1, <3>2, <3>3, <3>4, QuietStep DEF IInv, JuryComplete
    <2> QED BY <2>1, <2>2
  <1>5. ASSUME NEW n \in Nodes, JurorUnreachable(n) PROVE IInv'
    <2>1. /\ UNCHANGED <<epoch, approvals, key, admitted, round, proposed, candidates, granted>>
          /\ waiting' = [waiting EXCEPT ![n] = {}]
          /\ failed' = [failed EXCEPT ![n] = TRUE]
      BY <1>5 DEF JurorUnreachable
    <2>2. \A l \in Nodes : /\ l # n => waiting'[l] = waiting[l] /\ failed'[l] = failed[l]
                           /\ l = n => waiting'[l] = {} /\ failed'[l]
      BY <2>1 DEF IInv, TypeOK
    <2> QED
      BY <1>t, <1>s, <2>1, <2>2, QuietStep DEF IInv, JuryComplete
  <1>6. ASSUME NEW n \in Nodes, Admit(n) PROVE IInv'
    BY <1>6, <1>t, AdmitStep
  <1>7. ASSUME NEW n \in Nodes, GiveUp(n) PROVE IInv'
    <2>1. UNCHANGED <<epoch, approvals, key, admitted>> /\ EndPledge(n)
      BY <1>7 DEF GiveUp
    <2>2. \A l \in Nodes :
             /\ l # n => /\ granted'[l] = granted[l] /\ proposed'[l] = proposed[l]
                         /\ candidates'[l] = candidates[l] /\ waiting'[l] = waiting[l]
                         /\ round'[l] = round[l] /\ failed'[l] = failed[l]
             /\ l = n => granted'[l] = {} /\ waiting'[l] = {} /\ round'[l] = 0
      BY <2>1 DEF IInv, TypeOK, EndPledge
    <2>3. \A l \in Nodes :
             \/ /\ granted'[l] = granted[l] /\ proposed'[l] = proposed[l]
                /\ candidates'[l] = candidates[l]
                /\ waiting'[l] \subseteq candidates[l]
                /\ (round'[l] > 0 /\ ~failed'[l]) =>
                       round[l] > 0 /\ ~failed[l] /\ waiting'[l] = waiting[l]
             \/ /\ granted'[l] = {}
                /\ waiting'[l] \subseteq candidates'[l]
                /\ ~(round'[l] > 0)
      <3>1. \A l \in Nodes : waiting[l] \subseteq candidates[l]
        BY DEF IInv, JuryComplete
      <3>2. ~(0 > 0)
        OBVIOUS
      <3> QED
        BY <2>2, <3>1, <3>2, Zenon
    <2> QED
      BY <1>t, <1>s, <2>1, <2>3, QuietStep
  <1>8. ASSUME NEW n \in Nodes, Flush(n) PROVE IInv'
    <2>1. UNCHANGED <<epoch, approvals, key, admitted, round, proposed, candidates,
                      waiting, granted, failed>>
      BY <1>8 DEF Flush, pledgeVars
    <2> QED
      BY <1>t, <1>s, <2>1, QuietStep DEF IInv, JuryComplete
  <1>9. ASSUME NEW p \in Nodes, Restart(p) PROVE IInv'
    <2>1. /\ UNCHANGED admitted
          /\ epoch' = [epoch EXCEPT ![p] = @ + 1]
          /\ approvals' = [approvals EXCEPT ![p] = {}]
      BY <1>9 DEF Restart
    <2>2. OutsidersBlank'
      BY <1>9 DEF IInv, TypeOK, OutsidersBlank, Restart
    <2>3. ASSUME NEW x \in Approvals, NEW k \in Keys \cup {0}, Remembers(x, k)
          PROVE  Remembers(x, k)'
      <3>1. x[1][2] \in Nodes /\ x[2] \in Nat /\ epoch[x[1][2]] \in Nat
        BY DEF IInv, TypeOK, Approvals, Members
      <3>2. CASE x[1][2] = p
        <4>1. x[2] <= epoch[p] /\ epoch'[p] = epoch[p] + 1
          BY <2>1, <2>3, <3>2 DEF IInv, TypeOK, Remembers
        <4> QED BY <3>1, <3>2, <4>1 DEF Remembers
      <3>3. CASE x[1][2] # p
        BY <2>1, <2>3, <3>1, <3>3 DEF IInv, TypeOK, Remembers
      <3> QED BY <3>2, <3>3
    <2>4. \A l \in Nodes :
             \/ /\ granted'[l] = granted[l] /\ proposed'[l] = proposed[l]
                /\ candidates'[l] = candidates[l] /\ waiting'[l] = waiting[l]
                /\ round'[l] = round[l] /\ failed'[l] = failed[l]
             \/ granted'[l] = {} /\ waiting'[l] = {} /\ round'[l] = 0
      BY <1>9 DEF Restart
    <2>5. \A l \in Nodes :
             \/ /\ granted'[l] = granted[l] /\ proposed'[l] = proposed[l]
                /\ candidates'[l] = candidates[l]
                /\ waiting'[l] \subseteq candidates[l]
                /\ (round'[l] > 0 /\ ~failed'[l]) =>
                       round[l] > 0 /\ ~failed[l] /\ waiting'[l] = waiting[l]
             \/ /\ granted'[l] = {}
                /\ waiting'[l] \subseteq candidates'[l]
                /\ ~(round'[l] > 0)
      <3>1. \A l \in Nodes : waiting[l] \subseteq candidates[l]
        BY DEF IInv, JuryComplete
      <3>2. ~(0 > 0)
        OBVIOUS
      <3> QED
        BY <2>4, <3>1, <3>2, Zenon
    <2> QED
      BY <1>t, <2>1, <2>2, <2>3, <2>5, QuietStep
  <1>10. ASSUME NEW t \in stray, StrayVerdict(t) PROVE IInv'
    <2>1. /\ UNCHANGED <<epoch, key, admitted, round, proposed, candidates, granted,
                         waiting, failed>>
          /\ approvals' = [approvals EXCEPT ![t[1]] = @ \cup {t[2]}]
          /\ key[t[1]] # None
      BY <1>10 DEF StrayVerdict, Record, pledgeVars
    <2>2. (\A q \in Nodes : approvals[q] \subseteq approvals'[q]) /\ OutsidersBlank'
      BY <2>1 DEF IInv, TypeOK, OutsidersBlank
    <2> QED
      BY <1>t, <1>r, <2>1, <2>2, QuietStep DEF IInv, JuryComplete
  <1>11. CASE UNCHANGED vars
    <2>1. UNCHANGED <<epoch, approvals, key, admitted, round, proposed, candidates,
                      waiting, granted, failed>>
      BY <1>11 DEF vars
    <2> QED
      BY <1>t, <1>s, <2>1, QuietStep DEF IInv, JuryComplete
  <1> QED
    BY <1>1, <1>2, <1>3, <1>4, <1>5, <1>6, <1>7, <1>8, <1>9, <1>10, <1>11 DEF Next

-----------------------------------------------------------------------------

\* The invariant holds in every reachable state.
THEOREM IInvHolds == Spec => []IInv
  BY InitIInv, NextIInv, PTL DEF Spec

\* Every variable keeps its type; in particular a pledge makes at most
\* MaxProposals proposals (propose, pledge.go).
THEOREM TypeCorrect == Spec => []TypeOK
  <1>1. IInv => TypeOK
    BY DEF IInv
  <1> QED
    BY IInvHolds, <1>1, PTL

\* An incarnation of a juror approves a key for one admission only (verdict
\* under juror.mu, pledge.go).
THEOREM JurorsApproveOnce == Spec => []SameKeyDisjointJuries
  <1>1. IInv => SameKeyDisjointJuries
    <2> SUFFICES ASSUME IInv, NEW n1 \in Nodes, NEW n2 \in Nodes,
                        NEW a1 \in admitted[n1], NEW a2 \in admitted[n2],
                        a1.key = a2.key, <<n1, a1>> # <<n2, a2>>,
                        NEW j \in Jurors(a1.approvals), j \in Jurors(a2.approvals)
                 PROVE  FALSE
      BY DEF SameKeyDisjointJuries
    <2>1. PICK x \in a1.approvals : j = <<x[1][2], x[2]>>
      BY DEF Jurors
    <2>2. PICK y \in a2.approvals : j = <<y[1][2], y[2]>>
      BY DEF Jurors
    <2>3. SameJuror(x, y)
      BY <2>1, <2>2 DEF SameJuror
    <2> QED
      BY <2>3 DEF IInv, AdmittedApart
  <1> QED
    BY IInvHolds, <1>1, PTL

\* Every key was given by a majority of the candidates that the responsible
\* knew when it made its last proposal (buildQuorum, consultQuorum).
THEOREM MajorityApproves == Spec => []JuryIsMajority
  <1>1. IInv => JuryIsMajority
    BY DEF IInv
  <1> QED
    BY IInvHolds, <1>1, PTL

\* Without restarts, responsibles that agree on the members give distinct
\* keys: their juries intersect, and a juror approves a key only once.
THEOREM KeysDistinct == Spec => []SameCandidatesUniqueKeys
  <1>1. IInv => SameCandidatesUniqueKeys
    <2> SUFFICES ASSUME IInv, NEW n1 \in Nodes, NEW n2 \in Nodes,
                        NEW a1 \in admitted[n1], NEW a2 \in admitted[n2],
                        <<n1, a1>> # <<n2, a2>>, JurorsKept(a1, a2),
                        a1.candidates = a2.candidates, a1.key = a2.key
                 PROVE  FALSE
      BY DEF SameCandidatesUniqueKeys
    <2> DEFINE C == a1.candidates
               J1 == JuryOf(a1.approvals)
               J2 == JuryOf(a2.approvals)
    <2>1. /\ a1.approvals \subseteq Approvals /\ a2.approvals \subseteq Approvals
          /\ C \in SUBSET Members
      BY DEF IInv, TypeOK, Admissions
    <2>2. /\ J1 \subseteq C /\ 2 * Cardinality(J1) > Cardinality(C)
          /\ J2 \subseteq C /\ 2 * Cardinality(J2) > Cardinality(C)
      BY DEF IInv, JuryIsMajority
    <2>3. IsFiniteSet(C) /\ Cardinality(C) \in Nat
      BY <2>1, MembersFinite
    <2>4. IsFiniteSet(J1) /\ IsFiniteSet(J2)
      BY <2>2, <2>3, FS_Subset
    <2>5. Cardinality(J1) \in Nat /\ Cardinality(J2) \in Nat
      BY <2>4, FS_CardinalityType
    <2>6. Cardinality(J1) + Cardinality(J2) > Cardinality(C)
      BY <2>2, <2>3, <2>5
    <2>7. J1 \cap J2 # {}
      BY <2>2, <2>3, <2>6, FS_MajoritiesIntersect
    <2>8. PICK x \in a1.approvals, y \in a2.approvals : x[1] = y[1]
      BY <2>7 DEF JuryOf
    <2>9. x[2] = y[2]
      BY <2>8 DEF JurorsKept
    <2> QED
      BY <2>8, <2>9 DEF IInv, AdmittedApart, SameJuror
  <1> QED
    BY IInvHolds, <1>1, PTL
=============================================================================
