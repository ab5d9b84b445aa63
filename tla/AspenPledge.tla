---------------------------- MODULE AspenPledge -----------------------------
(***************************************************************************)
(* Key assignment in an Aspen cluster                                      *)
(* (aspen/internal/cluster/pledge/pledge.go, and the parts of              *)
(* cluster.go that call it).                                               *)
(*                                                                         *)
(* A node without a key sends a pledge to a member, the RESPONSIBLE, which *)
(* proposes keys to a JURY: a random majority of the members it knows.     *)
(* A juror approves a key once, and only above every key it knows.  When   *)
(* the whole jury approves, the node owns the key, arbitrates pledges      *)
(* itself, and learns the other members by gossip.                         *)
(*                                                                         *)
(* No code path makes a node's state other than StateHealthy, so every     *)
(* known member is active and healthy.  Approvals live in memory and are   *)
(* lost in a restart; the member list is flushed to storage.               *)
(***************************************************************************)
EXTENDS Integers, Sequences, FiniteSets, FiniteSetsExt

CONSTANTS
    Nodes,        \* processes, i.e. addresses
    Bootstrapper, \* the node that was opened without peers
    Clusters,     \* clusters to start from (their Config.Peers and bounds too)
    MaxKey,       \* bound on the keys proposed
    MaxProposals, \* Config.MaxProposals
    MaxRestarts,  \* bound on the restarts of all nodes
    None          \* no key, no responsible

ASSUME BoundAssumption ==
    MaxKey \in Nat \ {0} /\ MaxProposals \in Nat \ {0} /\ MaxRestarts \in Nat

ASSUME NodeAssumption ==
    /\ IsFiniteSet(Nodes)
    /\ Bootstrapper \in Nodes
    /\ None \notin Nodes
    /\ None \notin 1 .. MaxKey

\* members: in the order of their keys.  peers: the Config.Peers of the nodes
\* that join.  calm: nobody gossips or restarts, a bound on large clusters.
ASSUME ClusterAssumption ==
    \A c \in Clusters :
        /\ c.members \in Seq(Nodes) /\ Len(c.members) \in 1 .. MaxKey
        /\ c.members[1] = Bootstrapper
        /\ \A i, j \in DOMAIN c.members : c.members[i] = c.members[j] => i = j
        /\ DOMAIN c.peers \subseteq Nodes
        /\ c.calm \in BOOLEAN

Keys == 1 .. MaxKey

\* A member as another node knows it: its key and its address.
Members == Keys \X Nodes

\* A juror's approval: the member, and the incarnation that gave it.
Approvals == Members \X Nat

VARIABLES
    cluster,   \* the cluster this behaviour started from
    key,       \* the host key of each node
    epoch,     \* how often each node was restarted
    view,      \* Store.State.Nodes of each node, a set of members
    disk,      \* the member list last flushed to storage
    approvals, \* juror.approvals of each node
    at,        \* the responsible that handles a node's pledge
    round,     \* proposals made for the pledge (propC)
    proposed,  \* responsible._proposedKey
    candidates,\* responsible.candidateSnapshot
    waiting,   \* jurors whose verdict is outstanding
    granted,   \* approvals of the current proposal
    failed,    \* a juror rejected the proposal or could not be reached
    stray,     \* proposals still on their way whose answer nobody awaits
    admitted   \* the approvals and candidates that each key was given on

pledgeVars == <<at, round, proposed, candidates, waiting, granted, failed>>
vars == <<cluster, key, epoch, view, disk, approvals, at, round, proposed, candidates,
          waiting, granted, failed, stray, admitted>>

-----------------------------------------------------------------------------
(* Helpers *)

\* highestNodeID: 0 when no member is known.
HighestNodeID(ms) == Max({m[1] : m \in ms} \cup {0})

\* Mutant: half of the candidates, rounded up, is taken for a majority.
HalfQuorumSize(ms) == (Cardinality(ms) + 1) \div 2

\* The size that buildQuorum asks for.
QuorumSize(ms) == Cardinality(ms) \div 2 + 1

Quorums(ms) == {q \in SUBSET ms : Cardinality(q) = QuorumSize(ms)}

\* The proposals that a pledge leaves behind when it stops waiting.
Abandoned(n, js) == stray \cup {<<m[2], proposed[n]>> : m \in js}

EndPledge(n) ==
    /\ at' = [at EXCEPT ![n] = None]
    /\ round' = [round EXCEPT ![n] = 0]
    /\ proposed' = [proposed EXCEPT ![n] = 0]
    /\ candidates' = [candidates EXCEPT ![n] = {}]
    /\ waiting' = [waiting EXCEPT ![n] = {}]
    /\ granted' = [granted EXCEPT ![n] = {}]
    /\ failed' = [failed EXCEPT ![n] = FALSE]

\* Store.Merge: a member told of takes the place of one with the same key.
Merge(mine, told) == {m \in mine : \A t \in told : t[1] # m[1]} \cup told

-----------------------------------------------------------------------------
(* Actions *)

\* The members of cluster c as all of them know each other.
Roster(c) == {<<i, c.members[i]>> : i \in DOMAIN c.members}

\* The key of node n in cluster c, if it is a member.
KeysIn(c, n) == {i \in DOMAIN c.members : c.members[i] = n}

\* A cluster opened from storage.  With one member it is the bootstrapped node
\* alone: cluster.Open without peers.
InitCluster(c) ==
    /\ key = [n \in Nodes |-> IF KeysIn(c, n) = {} THEN None
                                               ELSE CHOOSE k \in KeysIn(c, n) : TRUE]
    /\ view = [n \in Nodes |-> IF KeysIn(c, n) = {} THEN {} ELSE Roster(c)]
    /\ disk = view

Init ==
    /\ cluster \in Clusters
    /\ InitCluster(cluster)
    /\ epoch = [n \in Nodes |-> 0]
    /\ approvals = [n \in Nodes |-> {}]
    /\ at = [n \in Nodes |-> None]
    /\ round = [n \in Nodes |-> 0]
    /\ proposed = [n \in Nodes |-> 0]
    /\ candidates = [n \in Nodes |-> {}]
    /\ waiting = [n \in Nodes |-> {}]
    /\ granted = [n \in Nodes |-> {}]
    /\ failed = [n \in Nodes |-> FALSE]
    /\ stray = {}
    /\ admitted = [n \in Nodes |-> {}]

\* Pledge sends Request{Key: 0} to one of its peers, which arbitrates.
SendPledge(n, p) ==
    /\ n \in DOMAIN cluster.peers /\ p \in cluster.peers[n]
    /\ key[n] = None
    /\ at[n] = None
    /\ key[p] # None
    /\ at' = [at EXCEPT ![n] = p]
    /\ UNCHANGED <<cluster, key, epoch, view, disk, approvals, round, proposed,
                   candidates, waiting, granted, failed, stray, admitted>>

\* idToPropose on the fresh candidate snapshot.
IdToPropose(n) ==
    IF proposed[n] = 0 THEN HighestNodeID(view[at[n]]) + 1 ELSE proposed[n] + 1

\* Bound on the keys of a cluster: one for every node.
HighestKey == Len(cluster.members) + Cardinality(DOMAIN cluster.peers)

\* One iteration of propose: refresh, choose the key and the jury, consult.
Propose(n) ==
    /\ at[n] # None
    /\ round[n] < MaxProposals
    /\ round[n] = 0 \/ failed[n]
    /\ IdToPropose(n) \in Keys /\ IdToPropose(n) <= HighestKey
    /\ round' = [round EXCEPT ![n] = @ + 1]
    /\ proposed' = [proposed EXCEPT ![n] = IdToPropose(n)]
    /\ candidates' = [candidates EXCEPT ![n] = view[at[n]]]
    /\ \E jury \in Quorums(view[at[n]]) : waiting' = [waiting EXCEPT ![n] = jury]
    /\ granted' = [granted EXCEPT ![n] = {}]
    /\ failed' = [failed EXCEPT ![n] = FALSE]
    /\ UNCHANGED <<cluster, key, epoch, view, disk, approvals, at, stray, admitted>>

\* Mutant: the juror does not look at what it approved before.
ApprovesAgain(q, k) == k > HighestNodeID(view[q])

\* What a juror approves.
Approves(q, k) == k \notin approvals[q] /\ k > HighestNodeID(view[q])

\* verdict records every key it did not hold, a rejected one too.
Record(q, k) == approvals' = [approvals EXCEPT ![q] = @ \cup {k}]

\* Juror m answers the proposal made for n.  A rejection cancels the others.
Verdict(n, m) ==
    /\ m \in waiting[n]
    /\ key[m[2]] # None
    /\ Record(m[2], proposed[n])
    /\ IF Approves(m[2], proposed[n])
       THEN /\ waiting' = [waiting EXCEPT ![n] = @ \ {m}]
            /\ granted' = [granted EXCEPT ![n] = @ \cup {<<m, epoch[m[2]]>>}]
            /\ UNCHANGED <<failed, stray>>
       ELSE /\ waiting' = [waiting EXCEPT ![n] = {}]
            /\ failed' = [failed EXCEPT ![n] = TRUE]
            /\ stray' = Abandoned(n, waiting[n] \ {m})
            /\ UNCHANGED granted
    /\ UNCHANGED <<cluster, key, epoch, view, disk, at, round, proposed, candidates,
                   admitted>>

\* Mutant: only a rejection counts, a juror that cannot be reached does not.
JurorUnreachableIgnored(n) ==
    /\ waiting[n] # {}
    /\ stray' = Abandoned(n, waiting[n])
    /\ waiting' = [waiting EXCEPT ![n] = {}]
    /\ UNCHANGED <<cluster, key, epoch, view, disk, approvals, at, round, proposed,
                   candidates, granted, failed, admitted>>

\* A juror cannot be reached, or its answer is lost or comes too late: the
\* remaining requests are cancelled, some after they were sent.
JurorUnreachable(n) ==
    /\ waiting[n] # {}
    /\ stray' = Abandoned(n, waiting[n])
    /\ waiting' = [waiting EXCEPT ![n] = {}]
    /\ failed' = [failed EXCEPT ![n] = TRUE]
    /\ UNCHANGED <<cluster, key, epoch, view, disk, approvals, at, round, proposed,
                   candidates, granted, admitted>>

\* A cancelled proposal reaches its juror all the same.  One that never does
\* stays in stray.
StrayVerdict(s) ==
    /\ s \in stray
    /\ key[s[1]] # None
    /\ stray' = stray \ {s}
    /\ Record(s[1], s[2])
    /\ UNCHANGED <<cluster, key, epoch, view, disk, pledgeVars, admitted>>

\* consultQuorum returned without an error.
Unanimous(n) == round[n] > 0 /\ waiting[n] = {} /\ ~failed[n]

\* The response reaches the pledge, which binds its own arbiter and sets
\* itself as the host of an otherwise empty store.
Admit(n) ==
    /\ at[n] # None
    /\ Unanimous(n)
    /\ key' = [key EXCEPT ![n] = proposed[n]]
    /\ view' = [view EXCEPT ![n] = {<<proposed[n], n>>}]
    /\ approvals' = [approvals EXCEPT ![n] = {}]
    /\ admitted' = [admitted EXCEPT ![n] =
          @ \cup {[key |-> proposed[n], approvals |-> granted[n],
                   candidates |-> candidates[n]]}]
    /\ EndPledge(n)
    /\ UNCHANGED <<cluster, epoch, disk, stray>>

\* The pledge's request fails: its timeout passes, the response is lost, or
\* the responsible gives up.  The node will pledge to the next peer.
GiveUp(n) ==
    /\ at[n] # None
    /\ stray' = Abandoned(n, waiting[n])
    /\ EndPledge(n)
    /\ UNCHANGED <<cluster, key, epoch, view, disk, approvals, admitted>>

\* n merges what m told it, as initiator (ack) or as peer (ack2): those
\* members m knows, or knew when it answered, that n lacked or had an older
\* heartbeat of.
Gossip(n, m) ==
    /\ ~cluster.calm
    /\ n # m /\ key[n] # None /\ key[m] # None
    /\ \E told \in SUBSET (view[m] \ view[n]) \ {{}} :
          view' = [view EXCEPT ![n] = Merge(view[n], told)]
    /\ UNCHANGED <<cluster, key, epoch, disk, approvals, pledgeVars, stray, admitted>>

\* Bound on the crashes of all nodes.
CrashesLeft ==
    ~cluster.calm /\ MapThenSumSet(LAMBDA n : epoch[n], Nodes) < MaxRestarts

\* goFlushStore: not before the node has seen another member, unless it
\* bootstrapped the cluster.  Only a restart reads what is flushed.
Flush(n) ==
    /\ key[n] # None
    /\ n = Bootstrapper \/ Cardinality(view[n]) > 1 \/ disk[n] # {}
    /\ disk[n] # view[n]
    /\ CrashesLeft
    /\ disk' = [disk EXCEPT ![n] = view[n]]
    /\ UNCHANGED <<cluster, key, epoch, view, approvals, pledgeVars, stray, admitted>>

\* A crash and a restart: the approvals are gone, the store is what was
\* flushed, and pledges the node was handling fail.  A node with nothing in
\* storage pledges again.
Restart(p) ==
    /\ key[p] # None
    /\ CrashesLeft
    /\ disk[p] # {} \/ p # Bootstrapper
    /\ epoch' = [epoch EXCEPT ![p] = @ + 1]
    /\ approvals' = [approvals EXCEPT ![p] = {}]
    /\ view' = [view EXCEPT ![p] = disk[p]]
    /\ key' = [key EXCEPT ![p] = IF disk[p] = {} THEN None ELSE @]
    /\ LET lost == {n \in Nodes : at[n] = p} IN
       /\ at' = [n \in Nodes |-> IF n \in lost THEN None ELSE at[n]]
       /\ round' = [n \in Nodes |-> IF n \in lost THEN 0 ELSE round[n]]
       /\ proposed' = [n \in Nodes |-> IF n \in lost THEN 0 ELSE proposed[n]]
       /\ candidates' = [n \in Nodes |-> IF n \in lost THEN {} ELSE candidates[n]]
       /\ waiting' = [n \in Nodes |-> IF n \in lost THEN {} ELSE waiting[n]]
       /\ granted' = [n \in Nodes |-> IF n \in lost THEN {} ELSE granted[n]]
       /\ failed' = [n \in Nodes |-> IF n \in lost THEN FALSE ELSE failed[n]]
    /\ UNCHANGED <<cluster, disk, stray, admitted>>

Next ==
    \/ \E n, p \in Nodes : SendPledge(n, p) \/ Gossip(n, p)
    \/ \E n \in Nodes :
          \/ Propose(n)
          \/ \E m \in waiting[n] : Verdict(n, m)
          \/ JurorUnreachable(n)
          \/ Admit(n)
          \/ GiveUp(n)
          \/ Flush(n)
          \/ Restart(n)
    \/ \E s \in stray : StrayVerdict(s)

Spec == Init /\ [][Next]_vars

-----------------------------------------------------------------------------
(* Properties *)

\* One admission: the key a node was given, on which approvals, from which
\* candidates.
Admissions == [key : Keys, approvals : SUBSET Approvals, candidates : SUBSET Members]

TypeOK ==
    /\ cluster \in Clusters
    /\ key \in [Nodes -> Keys \cup {None}]
    /\ epoch \in [Nodes -> Nat]
    /\ view \in [Nodes -> SUBSET Members]
    /\ disk \in [Nodes -> SUBSET Members]
    /\ approvals \in [Nodes -> SUBSET Keys]
    /\ at \in [Nodes -> Nodes \cup {None}]
    /\ round \in [Nodes -> 0 .. MaxProposals]
    /\ proposed \in [Nodes -> Keys \cup {0}]
    /\ candidates \in [Nodes -> SUBSET Members]
    /\ waiting \in [Nodes -> SUBSET Members]
    /\ granted \in [Nodes -> SUBSET Approvals]
    /\ failed \in [Nodes -> BOOLEAN]
    /\ stray \subseteq (Nodes \X Keys)
    /\ admitted \in [Nodes -> SUBSET Admissions]

\* The members behind a set of approvals, and the incarnations of them.
JuryOf(as) == {a[1] : a \in as}
Jurors(as) == {<<a[1][2], a[2]>> : a \in as}

\* Two admissions with the same key share no juror: one juror, until it is
\* restarted, approves a key for one pledge only, whatever order proposals,
\* cancellations and late deliveries come in.
SameKeyDisjointJuries ==
    \A n1, n2 \in Nodes : \A a1 \in admitted[n1], a2 \in admitted[n2] :
        (a1.key = a2.key /\ <<n1, a1>> # <<n2, a2>>) =>
            Jurors(a1.approvals) \cap Jurors(a2.approvals) = {}

\* A key is given on the approvals of a majority of the candidates, each of
\* them counted once.
JuryIsMajority ==
    \A n \in Nodes : \A a \in admitted[n] :
        /\ JuryOf(a.approvals) \subseteq a.candidates
        /\ 2 * Cardinality(JuryOf(a.approvals)) > Cardinality(a.candidates)

\* The jurors that took part in both admissions were not restarted in between.
JurorsKept(a1, a2) ==
    \A x \in a1.approvals, y \in a2.approvals : x[1] = y[1] => x[2] = y[2]

\* Responsibles that know the same members never give a key twice, whichever
\* majorities they ask, unless a juror they have in common lost its memory:
\* the majorities differ and still meet, and who is in both approves once.
SameCandidatesUniqueKeys ==
    \A n1, n2 \in Nodes : \A a1 \in admitted[n1], a2 \in admitted[n2] :
        /\ a1.candidates = a2.candidates
        /\ <<n1, a1>> # <<n2, a2>>
        /\ JurorsKept(a1, a2)
        => a1.key # a2.key
=============================================================================
