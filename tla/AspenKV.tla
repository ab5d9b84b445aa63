------------------------------ MODULE AspenKV -------------------------------
(***************************************************************************)
(* Aspen's replicated key-value store (aspen/internal/kv).                 *)
(*                                                                         *)
(* Every key has a LEASEHOLDER, the node that its writes are forwarded to. *)
(* The leaseholder gives each write a version from a counter of its own,   *)
(* persists it with a digest, and from then on the write spreads by SIR    *)
(* gossip: a node sends the operations it is infected with to random       *)
(* peers, a peer persists what is newer than its digest and sends feedback *)
(* on the rest, and enough feedback makes the sender stop.  A node that    *)
(* opens copies the values of its peers that are past its own high water.  *)
(*                                                                         *)
(* A pipeline of goroutines does this in every node: what the version      *)
(* filter accepts waits in a channel for the persist stage.  An operation  *)
(* stands for its value; a delete is an operation like any other (its      *)
(* digest stays), which only needs a lease to exist.                       *)
(***************************************************************************)
EXTENDS Integers, Sequences, FiniteSets, FiniteSetsExt

CONSTANTS
    Nodes,             \* node keys, ordered: a leaseholder is one of them
    Founders,          \* the nodes that are members from the start
    Keys,              \* database keys
    RecoveryThreshold, \* Config.RecoveryThreshold
    MaxVersion,        \* bound on the writes of all clients
    MaxQueue,          \* bound on the batches between filter and persist
    MaxOpens,          \* bound on joins and reopens, and so on crashes
    Fallible,          \* the stages whose engine writes may fail
    MaxFailures,       \* bound on failing engine writes
    None

ASSUME BoundAssumption ==
    /\ RecoveryThreshold \in Nat /\ MaxVersion \in Nat /\ MaxQueue \in Nat \ {0}
    /\ MaxOpens \in Nat /\ MaxFailures \in Nat
    /\ Fallible \subseteq {"assign", "persist"}

ASSUME NodeAssumption ==
    /\ IsFiniteSet(Nodes) /\ Nodes \subseteq Nat \ {0}
    /\ Founders \subseteq Nodes

Versions == 1 .. MaxVersion

\* Operation: Digest and value in one.
Ops == [key : Keys, version : Versions, leaseholder : Nodes]

ASSUME NoneAssumption == None \notin Ops

Batches == [ops : SUBSET Ops, own : BOOLEAN]

VARIABLES
    up,          \* "new" (never a member), "up" or "down"
    opens,       \* how many nodes joined or were opened again
    failures,    \* how many engine writes failed
    digest,      \* the persisted digest of each key, per node
    data,        \* the persisted value of each key, per node
    counter,     \* versionAssigner.counter, in memory
    stored,      \* its persisted value
    requests,    \* TxRequests on their way to the leaseholder
    persistQ,    \* batches on their way to the persist stage
    infected,    \* operations of the gossip store in state infected
    repetitions, \* gossipRecoveryTransform.repetitions
    syncs,       \* operations on their way to a version filter
    feedback,    \* feedback on its way to the sender of an operation
    asking,      \* peers that runRecovery still waits for
    recovery,    \* values received from a peer and not committed
    acked,       \* operations whose leaseholder reported success
    written      \* every operation that was given a version, per key

engineVars == <<digest, data, counter, stored>>
gossipVars == <<infected, repetitions, syncs, feedback>>
recoveryVars == <<asking, recovery>>
clusterVars == <<up, opens, failures>>
vars == <<clusterVars, engineVars, requests, persistQ, gossipVars,
          recoveryVars, acked, written>>

-----------------------------------------------------------------------------
(* Helpers *)

Blank == [k \in Keys |-> None]

Known == {n \in Nodes : up[n] # "new"}

\* Open has returned: recovery is over.
Serving(n) ==
    up[n] = "up" /\ asking[n] = {} /\ \A t \in recovery : t.to # n

\* Mutant: any other version is accepted, an older one too.
AcceptsOlder(n, op) ==
    LET dig == digest[n][op.key] IN
    \/ dig = None
    \/ op.version # dig.version
    \/ op.leaseholder > dig.leaseholder

\* Mutant: a key without a digest is taken for an error.
AcceptsKnown(n, op) ==
    LET dig == digest[n][op.key] IN
    /\ dig # None
    /\ \/ op.version > dig.version
       \/ op.version = dig.version /\ op.leaseholder > dig.leaseholder

\* versionFilter.filter on the persisted digest.
Accepts(n, op) ==
    LET dig == digest[n][op.key] IN
    \/ dig = None
    \/ op.version > dig.version
    \/ op.version = dig.version /\ op.leaseholder > dig.leaseholder

\* Writes that leave the keys not in ops alone.
Put(f, ops) ==
    [k \in Keys |-> IF \E op \in ops : op.key = k
                    THEN CHOOSE op \in ops : op.key = k
                    ELSE f[k]]

Replace(old, ops) == {o \in old : \A op \in ops : op.key # o.key} \cup ops

\* loadHighWater
HighWater(n) ==
    Max({0} \cup {digest[n][k].version : k \in {j \in Keys : digest[n][j] # None}})

-----------------------------------------------------------------------------
(* Writes *)

Init ==
    /\ up = [n \in Nodes |-> IF n \in Founders THEN "up" ELSE "new"]
    /\ opens = 0
    /\ failures = 0
    /\ digest = [n \in Nodes |-> Blank]
    /\ data = [n \in Nodes |-> Blank]
    /\ counter = [n \in Nodes |-> 0]
    /\ stored = [n \in Nodes |-> 0]
    /\ requests = {}
    /\ persistQ = [n \in Nodes |-> <<>>]
    /\ infected = [n \in Nodes |-> {}]
    /\ repetitions = [n \in Nodes |-> [kv \in Keys \X Versions |-> 0]]
    /\ syncs = {}
    /\ feedback = {}
    /\ asking = [n \in Nodes |-> {}]
    /\ recovery = {}
    /\ acked = {}
    /\ written = [k \in Keys |-> {}]

\* leaseAllocator.allocate for lease option l (0: none), a failure aside.
Allocate(n, k, l) ==
    IF digest[n][k] # None THEN digest[n][k].leaseholder
    ELSE IF l = 0 THEN n ELSE l

\* The writes made so far.
Writes == MapThenSumSet(LAMBDA n : counter[n], Nodes) + Cardinality(requests)

\* A client sets or deletes k on n.  ErrLeaseNotTransferable changes nothing.
Commit(n, k, l) ==
    LET r == [from |-> n, key |-> k, leaseholder |-> Allocate(n, k, l)] IN
    /\ Serving(n)
    /\ digest[n][k] # None => l \in {0, digest[n][k].leaseholder}
    /\ r \notin requests
    /\ Writes < MaxVersion
    /\ requests' = requests \cup {r}
    /\ UNCHANGED <<clusterVars, engineVars, persistQ, gossipVars,
                   recoveryVars, acked, written>>

Enqueue(n, ops, own) ==
    /\ Len(persistQ[n]) < MaxQueue
    /\ persistQ' = [persistQ EXCEPT ![n] = Append(@, [ops |-> ops, own |-> own])]

\* leaseProxy, leaseSender and leaseReceiver bring a request to its leaseholder,
\* whose counter is below its bound.
Delivered(r) == up[r.leaseholder] = "up" /\ counter[r.leaseholder] < MaxVersion

\* The leaseholder cannot be resolved or reached: Commit returns the error.
SendFails(r) ==
    /\ r.from # r.leaseholder
    /\ requests' = requests \ {r}
    /\ UNCHANGED <<clusterVars, engineVars, persistQ, gossipVars,
                   recoveryVars, acked, written>>

\* Mutant: the counter is written before it is incremented.
BumpLate(n) ==
    /\ counter' = [counter EXCEPT ![n] = @ + 1]
    /\ stored' = [stored EXCEPT ![n] = counter[n]]

\* AtomicInt64Counter.Add
Bump(n) ==
    /\ counter' = [counter EXCEPT ![n] = @ + 1]
    /\ stored' = [stored EXCEPT ![n] = counter[n] + 1]

\* versionAssigner.assign
Assign(r) ==
    LET n == r.leaseholder
        op == [key |-> r.key, version |-> counter[n] + 1, leaseholder |-> n]
    IN
    /\ Delivered(r)
    /\ requests' = requests \ {r}
    /\ Bump(n)
    /\ written' = [written EXCEPT ![r.key] = @ \cup {op}]
    /\ Enqueue(n, {op}, TRUE)
    /\ UNCHANGED <<clusterVars, digest, data, gossipVars, recoveryVars, acked>>

\* The counter cannot be written: it has moved in memory, and the request is
\* dropped without a call of done.
AssignFails(r) ==
    /\ Delivered(r)
    /\ "assign" \in Fallible /\ failures < MaxFailures
    /\ failures' = failures + 1
    /\ requests' = requests \ {r}
    /\ counter' = [counter EXCEPT ![r.leaseholder] = @ + 1]
    /\ UNCHANGED <<up, opens, digest, data, stored, persistQ, gossipVars,
                   recoveryVars, acked, written>>

\* done is called on requests that have a doneF: the local ones.
Acknowledge(b) == acked' = IF b.own THEN acked \cup b.ops ELSE acked

\* persist and storeSink: one transaction with values and digests, then the
\* operations are infected.
Persist(n) ==
    LET b == Head(persistQ[n]) IN
    /\ up[n] = "up"
    /\ persistQ[n] # <<>>
    /\ persistQ' = [persistQ EXCEPT ![n] = Tail(@)]
    /\ digest' = [digest EXCEPT ![n] = Put(@, b.ops)]
    /\ data' = [data EXCEPT ![n] = Put(@, b.ops)]
    /\ infected' = [infected EXCEPT ![n] = Replace(@, b.ops)]
    /\ Acknowledge(b)
    /\ UNCHANGED <<clusterVars, counter, stored, requests, repetitions, syncs,
                   feedback, recoveryVars, written>>

\* commitTo fails.  If op.apply did, the error is replaced by that of closing
\* the transaction, so the batch counts as persisted; if Commit did, done gets
\* the error and the batch is dropped.
PersistFails(n) ==
    LET b == Head(persistQ[n]) IN
    /\ up[n] = "up"
    /\ persistQ[n] # <<>>
    /\ "persist" \in Fallible /\ failures < MaxFailures
    /\ failures' = failures + 1
    /\ persistQ' = [persistQ EXCEPT ![n] = Tail(@)]
    /\ \/ /\ infected' = [infected EXCEPT ![n] = Replace(@, b.ops)]
          /\ Acknowledge(b)
       \/ UNCHANGED <<infected, acked>>
    /\ UNCHANGED <<up, opens, engineVars, requests, repetitions, syncs, feedback,
                   recoveryVars, written>>

-----------------------------------------------------------------------------
(* Gossip *)

Sync(n, p, kind) == [to |-> p, sender |-> n, kind |-> kind, ops |-> infected[n]]

\* A sender waits for its peer to take a message before it sends the next
\* one of the same kind: at most one of each is on its way.
Idle(n, p, kind) == \A s \in syncs : <<s.to, s.sender, s.kind>> # <<p, n, kind>>

\* storeEmitter and operationClient: n sends what it is infected with to a
\* random peer, which answers with what it is infected with itself.  The
\* answer may be lost.
Gossip(n, p) ==
    /\ up[n] = "up" /\ up[p] = "up" /\ n # p
    /\ infected[n] # {}
    /\ Idle(n, p, "sync")
    /\ \/ syncs' = syncs \cup {Sync(n, p, "sync")}
       \/ /\ infected[p] # {}
          /\ Idle(p, n, "ack")
          /\ syncs' = syncs \cup {Sync(n, p, "sync"), Sync(p, n, "ack")}
    /\ UNCHANGED <<clusterVars, engineVars, requests, persistQ, infected,
                   repetitions, feedback, recoveryVars, acked, written>>

\* feedbackSender: the digests of rejected operations, which may be lost.
SendFeedback(n, p, ops) ==
    IF ops = {} THEN UNCHANGED feedback
    ELSE /\ \A f \in feedback : <<f.to, f.from>> # <<p, n>>
         /\ \/ feedback' = feedback \cup {[to |-> p, from |-> n, ops |-> ops]}
            \/ feedback' = feedback

\* versionFilter._switch
Filter(s) ==
    LET n == s.to
        accepted == {op \in s.ops : Accepts(n, op)}
    IN
    /\ up[n] = "up"
    /\ syncs' = syncs \ {s}
    /\ IF accepted = {} THEN UNCHANGED persistQ ELSE Enqueue(n, accepted, FALSE)
    /\ SendFeedback(n, s.sender, s.ops \ accepted)
    /\ UNCHANGED <<clusterVars, engineVars, requests, infected, repetitions,
                   recoveryVars, acked, written>>

\* Repetitions are counted per key and version.
Repeated(n, op) == repetitions[n][<<op.key, op.version>>]

\* The operations that n stops to gossip when it receives feedback on ops.
Recovered(n, ops) == {op \in ops : Repeated(n, op) > RecoveryThreshold}

\* gossipRecoveryTransform.transform and storeSink: an operation with enough
\* feedback takes the place of whatever the store holds for its key, in state
\* recovered.
ReceiveFeedback(f) ==
    LET n == f.to
        rec == Recovered(n, f.ops)
    IN
    /\ up[n] = "up"
    /\ feedback' = feedback \ {f}
    /\ repetitions' = [repetitions EXCEPT ![n] =
          [kv \in Keys \X Versions |->
             IF \E op \in rec : <<op.key, op.version>> = kv THEN 1
             ELSE IF \E op \in f.ops : <<op.key, op.version>> = kv THEN @[kv] + 1
             ELSE @[kv]]]
    /\ infected' = [infected EXCEPT ![n] = {o \in @ : \A op \in rec : op.key # o.key}]
    /\ UNCHANGED <<clusterVars, engineVars, requests, persistQ, syncs,
                   recoveryVars, acked, written>>

-----------------------------------------------------------------------------
(* Opening and crashing *)

\* kv.Open on a new or a stopped member: the pipeline starts, and recovery
\* asks every other member.
Open(n) ==
    /\ up[n] # "up"
    /\ opens < MaxOpens
    /\ opens' = opens + 1
    /\ up' = [up EXCEPT ![n] = "up"]
    /\ asking' = [asking EXCEPT ![n] = Known \ {n}]
    /\ UNCHANGED <<failures, engineVars, requests, persistQ, gossipVars,
                   recovery, acked, written>>

\* recoverPeer on p: the values of all digests not below n's high water.
RecoverPeer(n, p) ==
    LET ks == {k \in Keys : /\ digest[p][k] # None
                            /\ digest[p][k].version >= HighWater(n)}
    IN
    /\ up[n] = "up" /\ up[p] = "up"
    /\ p \in asking[n]
    /\ asking' = [asking EXCEPT ![n] = @ \ {p}]
    /\ recovery' = recovery \cup {[to |-> n, from |-> p,
                                   ops |-> {data[p][k] : k \in ks}]}
    /\ UNCHANGED <<clusterVars, engineVars, requests, persistQ, gossipVars,
                   acked, written>>

\* runSingleNodeRecovery commits what it received: values, no digests.
CommitRecovery(t) ==
    /\ recovery' = recovery \ {t}
    /\ data' = [data EXCEPT ![t.to] = Put(@, t.ops)]
    /\ UNCHANGED <<clusterVars, digest, counter, stored, requests, persistQ,
                   gossipVars, asking, acked, written>>

\* The process stops.  What is in memory is gone.
Crash(n) ==
    /\ up[n] = "up"
    /\ opens < MaxOpens
    /\ up' = [up EXCEPT ![n] = "down"]
    /\ counter' = [counter EXCEPT ![n] = stored[n]]
    /\ requests' = {r \in requests : r.from # n \/ r.leaseholder # n}
    /\ persistQ' = [persistQ EXCEPT ![n] = <<>>]
    /\ infected' = [infected EXCEPT ![n] = {}]
    /\ repetitions' = [repetitions EXCEPT ![n] = [kv \in Keys \X Versions |-> 0]]
    /\ syncs' = {s \in syncs : s.to # n}
    /\ feedback' = {f \in feedback : f.to # n}
    /\ asking' = [asking EXCEPT ![n] = {}]
    /\ recovery' = {t \in recovery : t.to # n}
    /\ UNCHANGED <<opens, failures, digest, data, stored, acked, written>>

Next ==
    \/ \E n \in Nodes :
          \/ \E k \in Keys, l \in {0} \cup Known : Commit(n, k, l)
          \/ Persist(n)
          \/ PersistFails(n)
          \/ Open(n)
          \/ Crash(n)
          \/ \E p \in Nodes : Gossip(n, p) \/ RecoverPeer(n, p)
    \/ \E r \in requests : Assign(r) \/ AssignFails(r) \/ SendFails(r)
    \/ \E s \in syncs : Filter(s)
    \/ \E f \in feedback : ReceiveFeedback(f)
    \/ \E t \in recovery : CommitRecovery(t)

Spec == Init /\ [][Next]_vars

\* The goroutines of a node's pipeline keep running, no message waits for
\* ever, and a node that has something to gossip picks every peer again and
\* again.
Fairness ==
    /\ \A n \in Nodes : WF_vars(Persist(n))
    /\ \A n \in Nodes : \A p \in Nodes \ {n} :
          /\ SF_vars(Gossip(n, p))
          /\ \A kind \in {"sync", "ack"} :
                SF_vars(\E s \in syncs : <<s.to, s.sender, s.kind>> = <<n, p, kind>> /\ Filter(s))
          /\ WF_vars(\E f \in feedback : <<f.to, f.from>> = <<n, p>> /\ ReceiveFeedback(f))

FairSpec == Spec /\ Fairness

-----------------------------------------------------------------------------
(* Properties *)

\* The types of the variables; a repetition count stops one past the threshold.
TypeOK ==
    /\ up \in [Nodes -> {"new", "up", "down"}]
    /\ opens \in 0 .. MaxOpens
    /\ failures \in 0 .. MaxFailures
    /\ digest \in [Nodes -> [Keys -> Ops \cup {None}]]
    /\ data \in [Nodes -> [Keys -> Ops \cup {None}]]
    /\ counter \in [Nodes -> 0 .. MaxVersion]
    /\ stored \in [Nodes -> 0 .. MaxVersion]
    /\ requests \subseteq [from : Nodes, key : Keys, leaseholder : Nodes]
    /\ persistQ \in [Nodes -> Seq(Batches)]
    /\ infected \in [Nodes -> SUBSET Ops]
    /\ repetitions \in [Nodes -> [Keys \X Versions -> 0 .. RecoveryThreshold + 1]]
    /\ syncs \subseteq [to : Nodes, sender : Nodes, kind : {"sync", "ack"},
                        ops : SUBSET Ops]
    /\ feedback \subseteq [to : Nodes, from : Nodes, ops : SUBSET Ops]
    /\ asking \in [Nodes -> SUBSET Nodes]
    /\ recovery \subseteq [to : Nodes, from : Nodes, ops : SUBSET Ops]
    /\ acked \subseteq Ops
    /\ written \in [Keys -> SUBSET Ops]

Version(dig) == IF dig = None THEN 0 ELSE dig.version

\* k was only ever written through leaseholder l.
Leased(k, l) == written[k] # {} /\ \A op \in written[k] : op.leaseholder = l

\* While engine writes succeed, no node is ahead of the only leaseholder of a
\* key: a write is persisted there before it spreads.  With type correctness.
NewestAtLeaseholder ==
    /\ TypeOK
    /\ failures = 0 =>
        \A k \in Keys, l, n \in Nodes :
            Leased(k, l) => Version(digest[n][k]) <= Version(digest[l][k])

\* Stale gossip, a crash or a recovery never takes the only leaseholder of a
\* key back to an older version of it.
LeaseholderNeverRegresses ==
    [][failures = 0 =>
        \A k \in Keys, l \in Nodes :
            Leased(k, l) => Version(digest'[l][k]) >= Version(digest[l][k])]_vars

\* A leaseholder never gives a version twice, whatever fails or crashes
\* between the increment of its counter and the write of it.
VersionsNeverReused ==
    [][\A n \in Nodes :
          Len(persistQ'[n]) > Len(persistQ[n]) =>
              LET b == persistQ'[n][Len(persistQ'[n])] IN
              b.own => \A op \in b.ops : op \notin written[op.key]]_vars

\* In a cluster of two, the only write of a key reaches both nodes: feedback
\* stops the gossip of an operation only after the peer has it.
OnlyWriteSpreads ==
    \A k \in Keys : \A op \in Ops :
        written[k] = {op} /\ op \in acked ~>
            written[k] # {op} \/ \A n \in Nodes : digest[n][k] = op
=============================================================================
