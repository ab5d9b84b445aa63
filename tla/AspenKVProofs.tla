--------------------------- MODULE AspenKVProofs ----------------------------
(***************************************************************************)
(* Proofs about AspenKV, for any nodes and keys, any number of writes,     *)
(* crashes, reopens and failing engine writes, and any loss and delay of   *)
(* gossip.                                                                 *)
(***************************************************************************)
EXTENDS AspenKV, TLAPS

-----------------------------------------------------------------------------
(* The inductive invariant.                                                *)

(* A persisted digest comes with a value, so recovery has one to send.     *)
Valued ==
    \A n \in Nodes, k \in Keys : digest[n][k] # None => data[n][k] # None

(* Whatever is persisted, queued, gossiped or on its way was written.      *)
Traced ==
    /\ \A n \in Nodes, k \in Keys : digest[n][k] # None => digest[n][k] \in written[k]
    /\ \A n \in Nodes : \A i \in DOMAIN persistQ[n] :
          \A op \in persistQ[n][i].ops : op \in written[op.key]
    /\ \A n \in Nodes : \A op \in infected[n] : op \in written[op.key]
    /\ \A s \in syncs : \A op \in s.ops : op \in written[op.key]

(* Versions given so far are within the persisted counter of who gave them, *)
(* and that is at most the one in memory.                                  *)
Counted ==
    /\ \A k \in Keys : \A op \in written[k] :
          op.key = k /\ op.version <= stored[op.leaseholder]
    /\ \A n \in Nodes : stored[n] <= counter[n]

(* A node's own writes, those it holds the lease for, wait in its queue one *)
(* by one, in the order of their versions.                                 *)
InOrder ==
    /\ \A n \in Nodes : \A i \in DOMAIN persistQ[n] :
          persistQ[n][i].own =>
              \A op, oq \in persistQ[n][i].ops : op.leaseholder = n /\ oq = op
    /\ \A n \in Nodes : \A i, j \in DOMAIN persistQ[n] :
          i < j /\ persistQ[n][i].own /\ persistQ[n][j].own =>
              \A op \in persistQ[n][i].ops, oq \in persistQ[n][j].ops :
                  op.version < oq.version

(* What the only leaseholder l of k has queued for k are writes of its own, *)
(* newer than what it has persisted.                                       *)
Ahead(k, l) ==
    \A i \in DOMAIN persistQ[l] : \A op \in persistQ[l][i].ops :
        op.key = k => persistQ[l][i].own /\ op.version > Version(digest[l][k])

(* Nothing anywhere else is newer than what l has persisted.               *)
Behind(k, l) ==
    /\ \A n \in Nodes : Version(digest[n][k]) <= Version(digest[l][k])
    /\ \A n \in Nodes \ {l} : \A i \in DOMAIN persistQ[n] :
          \A op \in persistQ[n][i].ops :
              op.key = k => op.version <= Version(digest[l][k])
    /\ \A n \in Nodes : \A op \in infected[n] :
          op.key = k => op.version <= Version(digest[l][k])
    /\ \A s \in syncs : \A op \in s.ops :
          op.key = k => op.version <= Version(digest[l][k])

LeaseholderFirst ==
    failures = 0 => \A k \in Keys, l \in Nodes : Leased(k, l) => Ahead(k, l) /\ Behind(k, l)

IInv == TypeOK /\ Valued /\ Traced /\ Counted /\ InOrder /\ LeaseholderFirst

-----------------------------------------------------------------------------
(* Facts about the operators of the model.                                 *)

(* Put gives a key an operation of it if there is one, and leaves it alone  *)
(* otherwise.                                                              *)
LEMMA PutFacts ==
    ASSUME NEW f \in [Keys -> Ops \cup {None}], NEW ops \in SUBSET Ops
    PROVE  /\ Put(f, ops) \in [Keys -> Ops \cup {None}]
           /\ \A k \in Keys :
                 \/ /\ \A op \in ops : op.key # k
                    /\ Put(f, ops)[k] = f[k]
                 \/ /\ Put(f, ops)[k] \in ops
                    /\ Put(f, ops)[k].key = k
                    /\ Put(f, ops)[k] # None
<1> SUFFICES ASSUME NEW k \in Keys
             PROVE  \/ /\ \A op \in ops : op.key # k
                       /\ Put(f, ops)[k] = f[k]
                    \/ /\ Put(f, ops)[k] \in ops
                       /\ Put(f, ops)[k].key = k
                       /\ Put(f, ops)[k] # None
  BY DEF Put
<1>1. CASE \E op \in ops : op.key = k
  BY <1>1, NoneAssumption DEF Put
<1>2. CASE ~ \E op \in ops : op.key = k
  BY <1>2 DEF Put
<1> QED
  BY <1>1, <1>2

(* What is left of a queue whose head is taken.                            *)
LEMMA TailFacts ==
    ASSUME NEW q \in Seq(Batches), q # <<>>
    PROVE  /\ Tail(q) \in Seq(Batches)
           /\ 1 \in DOMAIN q /\ Head(q) = q[1] /\ Head(q) \in Batches
           /\ \A i \in DOMAIN Tail(q) : i \in Nat \ {0} /\ i + 1 \in DOMAIN q /\ Tail(q)[i] = q[i + 1]
OBVIOUS

(* A batch that joins a queue comes last.                                  *)
LEMMA AppendFacts ==
    ASSUME NEW q \in Seq(Batches), NEW b \in Batches
    PROVE  /\ Append(q, b) \in Seq(Batches)
           /\ Len(Append(q, b)) = Len(q) + 1 /\ Append(q, b)[Len(q) + 1] = b
           /\ \A i \in DOMAIN Append(q, b) :
                 \/ i \in DOMAIN q /\ Append(q, b)[i] = q[i] /\ i < Len(q) + 1
                 \/ i = Len(q) + 1 /\ Append(q, b)[i] = b
           /\ \A i \in DOMAIN q : i \in 1 .. Len(q)
OBVIOUS

(* A batch joins the queue of one node.                                    *)
LEMMA QueueGrows ==
    ASSUME persistQ \in [Nodes -> Seq(Batches)], NEW n \in Nodes, NEW b \in Batches,
           persistQ' = [persistQ EXCEPT ![n] = Append(persistQ[n], b)]
    PROVE  /\ persistQ' \in [Nodes -> Seq(Batches)]
           /\ \A m \in Nodes : \A i \in DOMAIN persistQ'[m] :
                 \/ i \in DOMAIN persistQ[m] /\ persistQ'[m][i] = persistQ[m][i]
                 \/ m = n /\ i = Len(persistQ[n]) + 1 /\ persistQ'[m][i] = b
<1> DEFINE q == persistQ[n]
<1> DEFINE t == Append(q, b)
<1>1. q \in Seq(Batches)
  OBVIOUS
<1>2. /\ t \in Seq(Batches)
      /\ \A i \in DOMAIN t : (i \in DOMAIN q /\ t[i] = q[i]) \/ (i = Len(q) + 1 /\ t[i] = b)
  BY <1>1, AppendFacts
<1>3. persistQ' = [persistQ EXCEPT ![n] = t]
  OBVIOUS
<1> HIDE DEF t
<1>4. /\ persistQ' \in [Nodes -> Seq(Batches)] /\ persistQ'[n] = t
      /\ \A m \in Nodes \ {n} : persistQ'[m] = persistQ[m]
  BY <1>2, <1>3
<1> QED
  BY <1>2, <1>4

(* The version of a digest.                                                *)
LEMMA VersionFacts ==
    ASSUME NEW dig \in Ops \cup {None}
    PROVE  /\ Version(dig) \in Nat
           /\ dig = None => Version(dig) = 0
           /\ dig # None => Version(dig) = dig.version /\ dig.version \in Nat \ {0}
BY DEF Version, Ops, Versions

LEMMA DigestFacts ==
    ASSUME TypeOK
    PROVE  \A n \in Nodes, k \in Keys :
               /\ Version(digest[n][k]) \in Nat
               /\ digest[n][k] = None => Version(digest[n][k]) = 0
               /\ digest[n][k] # None =>
                      /\ digest[n][k] \in Ops
                      /\ Version(digest[n][k]) = digest[n][k].version
                      /\ digest[n][k].version \in Nat \ {0}
BY VersionFacts DEF TypeOK

-----------------------------------------------------------------------------
(* Every action preserves the invariant.                                   *)

(* Nothing has been written in the beginning.                              *)
LEMMA InitIInv == Init => IInv
<1> SUFFICES ASSUME Init PROVE IInv
  OBVIOUS
<1>1. TypeOK
  BY BoundAssumption, NodeAssumption DEF Init, TypeOK, Blank, Batches
<1>2. Valued /\ Traced /\ Counted /\ InOrder
  BY DEF Init, Blank, Valued, Traced, Counted, InOrder
<1>3. LeaseholderFirst
  BY DEF Init, Leased, LeaseholderFirst
<1> QED
  BY <1>1, <1>2, <1>3 DEF IInv

(* An action that persists nothing and queues nothing, gossips only what    *)
(* its node is infected with, and makes no failure undone, keeps what the  *)
(* invariant says of operations.                                           *)
LEMMA FewerInFlight ==
    ASSUME IInv,
           digest' = digest, written' = written, failures' = 0 => failures = 0,
           \A n \in Nodes : persistQ'[n] = persistQ[n] \/ persistQ'[n] = <<>>,
           \A n \in Nodes : infected'[n] \subseteq infected[n],
           \A s \in syncs' : s \in syncs \/ \E n \in Nodes : s.ops = infected[n]
    PROVE  Traced' /\ InOrder' /\ LeaseholderFirst'
<1>1. Traced'
  BY DEF IInv, Traced
<1>2. InOrder'
  BY DEF IInv, InOrder
<1>3. ASSUME failures = 0, NEW k \in Keys, NEW l \in Nodes, Leased(k, l)
      PROVE  Ahead(k, l)' /\ Behind(k, l)'
  <2>1. Ahead(k, l) /\ Behind(k, l)
    BY <1>3 DEF IInv, LeaseholderFirst
  <2>2. Ahead(k, l)'
    BY <2>1 DEF Ahead, Version
  <2>3. Behind(k, l)'
    BY <2>1 DEF Behind, Version
  <2> QED
    BY <2>2, <2>3
<1>4. LeaseholderFirst'
  BY <1>3 DEF LeaseholderFirst, Leased
<1> QED
  BY <1>1, <1>2, <1>4

(* A client's write becomes a request.                                     *)
LEMMA CommitStep ==
    ASSUME IInv, NEW n \in Nodes, NEW k \in Keys, NEW l \in {0} \cup Known, Commit(n, k, l)
    PROVE  IInv'
<1> USE DEF clusterVars, engineVars, gossipVars, recoveryVars
<1>1. TypeOK'
  <2>1. Allocate(n, k, l) \in Nodes
    BY DEF IInv, TypeOK, Ops, Allocate, Known
  <2>2. requests' \subseteq [from : Nodes, key : Keys, leaseholder : Nodes]
    BY <2>1 DEF IInv, TypeOK, Commit
  <2> QED
    BY <2>2 DEF IInv, TypeOK, Commit
<1>2. Traced' /\ InOrder' /\ LeaseholderFirst'
  BY FewerInFlight DEF Commit
<1>3. Valued' /\ Counted'
  BY DEF IInv, Valued, Counted, Commit
<1> QED
  BY <1>1, <1>2, <1>3 DEF IInv

(* A request cannot be sent.                                               *)
LEMMA SendFailsStep == ASSUME IInv, NEW r \in requests, SendFails(r) PROVE IInv'
<1> USE DEF clusterVars, engineVars, gossipVars, recoveryVars
<1>1. TypeOK'
  BY DEF IInv, TypeOK, SendFails
<1>2. Traced' /\ InOrder' /\ LeaseholderFirst'
  BY FewerInFlight DEF SendFails
<1>3. Valued' /\ Counted'
  BY DEF IInv, Valued, Counted, SendFails
<1> QED
  BY <1>1, <1>2, <1>3 DEF IInv

(* The counter moves in memory and not in the engine.                      *)
LEMMA AssignFailsStep == ASSUME IInv, NEW r \in requests, AssignFails(r) PROVE IInv'
<1> USE DEF clusterVars, engineVars, gossipVars, recoveryVars
<1>1. counter' \in [Nodes -> 0 .. MaxVersion] /\ \A n \in Nodes : counter'[n] >= counter[n]
  BY BoundAssumption DEF IInv, TypeOK, AssignFails, Delivered
<1>2. failures' \in 0 .. MaxFailures /\ failures' # 0
  BY BoundAssumption DEF IInv, TypeOK, AssignFails
<1>3. TypeOK'
  BY <1>1, <1>2 DEF IInv, TypeOK, AssignFails
<1>4. Traced' /\ InOrder' /\ LeaseholderFirst'
  BY <1>2, FewerInFlight DEF AssignFails
<1>5. Valued' /\ Counted'
  BY <1>1 DEF IInv, TypeOK, Valued, Counted, AssignFails
<1> QED
  BY <1>3, <1>4, <1>5 DEF IInv

(* A node opens.                                                           *)
LEMMA OpenStep == ASSUME IInv, NEW n \in Nodes, Open(n) PROVE IInv'
<1> USE DEF clusterVars, engineVars, gossipVars, recoveryVars
<1>1. TypeOK'
  <2>1. opens' \in 0 .. MaxOpens
    BY BoundAssumption DEF IInv, TypeOK, Open
  <2>2. /\ up' \in [Nodes -> {"new", "up", "down"}]
        /\ asking' \in [Nodes -> SUBSET Nodes]
    BY DEF IInv, TypeOK, Open, Known
  <2> QED
    BY <2>1, <2>2 DEF IInv, TypeOK, Open
<1>2. Traced' /\ InOrder' /\ LeaseholderFirst'
  BY FewerInFlight DEF Open
<1>3. Valued' /\ Counted'
  BY DEF IInv, Valued, Counted, Open
<1> QED
  BY <1>1, <1>2, <1>3 DEF IInv

(* A peer sends its values: there is one for every digest.                 *)
LEMMA RecoverPeerStep ==
    ASSUME IInv, NEW n \in Nodes, NEW p \in Nodes, RecoverPeer(n, p) PROVE IInv'
<1> USE DEF clusterVars, engineVars, gossipVars, recoveryVars
<1>1. TypeOK'
  <2> DEFINE ks == {k \in Keys : digest[p][k] # None /\ digest[p][k].version >= HighWater(n)}
             ops == {data[p][k] : k \in ks}
  <2>1. ops \subseteq Ops
    BY DEF IInv, TypeOK, Valued
  <2>2. recovery' = recovery \cup {[to |-> n, from |-> p, ops |-> ops]}
    BY DEF RecoverPeer
  <2> HIDE DEF ops
  <2>3. recovery' \subseteq [to : Nodes, from : Nodes, ops : SUBSET Ops]
    BY <2>1, <2>2 DEF IInv, TypeOK
  <2>4. asking' \in [Nodes -> SUBSET Nodes]
    BY DEF IInv, TypeOK, RecoverPeer
  <2> QED
    BY <2>3, <2>4 DEF IInv, TypeOK, RecoverPeer
<1>2. Traced' /\ InOrder' /\ LeaseholderFirst'
  <2>1. UNCHANGED <<digest, written, failures, persistQ, infected, syncs>>
    BY DEF RecoverPeer
  <2> QED
    BY <2>1, FewerInFlight
<1>3. Valued' /\ Counted'
  BY DEF IInv, Valued, Counted, RecoverPeer
<1> QED
  BY <1>1, <1>2, <1>3 DEF IInv

(* What a peer sent is committed: values only.                             *)
LEMMA CommitRecoveryStep == ASSUME IInv, NEW t \in recovery, CommitRecovery(t) PROVE IInv'
<1> USE DEF clusterVars, engineVars, gossipVars, recoveryVars
<1>1. t.to \in Nodes /\ t.ops \in SUBSET Ops /\ data[t.to] \in [Keys -> Ops \cup {None}]
  BY DEF IInv, TypeOK
<1>2. /\ data' \in [Nodes -> [Keys -> Ops \cup {None}]]
      /\ \A n \in Nodes, k \in Keys : data[n][k] # None => data'[n][k] # None
  <2> DEFINE new == Put(data[t.to], t.ops)
  <2>1. data' = [data EXCEPT ![t.to] = new]
    BY DEF CommitRecovery
  <2>2. /\ new \in [Keys -> Ops \cup {None}]
        /\ \A k \in Keys : data[t.to][k] # None => new[k] # None
    BY <1>1, PutFacts
  <2> HIDE DEF new
  <2> QED
    BY <1>1, <2>1, <2>2 DEF IInv, TypeOK
<1>3. TypeOK'
  BY <1>2 DEF IInv, TypeOK, CommitRecovery
<1>4. Traced' /\ InOrder' /\ LeaseholderFirst'
  BY FewerInFlight DEF CommitRecovery
<1>5. Valued' /\ Counted'
  BY <1>2 DEF IInv, Valued, Counted, CommitRecovery
<1> QED
  BY <1>3, <1>4, <1>5 DEF IInv

(* Feedback takes operations out of the gossip store.  A count that passes *)
(* the threshold starts again.                                             *)
LEMMA ReceiveFeedbackStep == ASSUME IInv, NEW f \in feedback, ReceiveFeedback(f) PROVE IInv'
<1> USE DEF clusterVars, engineVars, gossipVars, recoveryVars
<1>1. f.to \in Nodes /\ f.ops \subseteq Ops
  BY DEF IInv, TypeOK
<1>2. infected' \in [Nodes -> SUBSET Ops] /\ \A n \in Nodes : infected'[n] \subseteq infected[n]
  BY <1>1 DEF IInv, TypeOK, ReceiveFeedback
<1>3. repetitions' \in [Nodes -> [Keys \X Versions -> 0 .. RecoveryThreshold + 1]]
  <2> DEFINE rec == Recovered(f.to, f.ops)
             old == repetitions[f.to]
             new == [kv \in Keys \X Versions |->
                        IF \E op \in rec : <<op.key, op.version>> = kv THEN 1
                        ELSE IF \E op \in f.ops : <<op.key, op.version>> = kv THEN old[kv] + 1
                        ELSE old[kv]]
  <2>1. repetitions' = [repetitions EXCEPT ![f.to] = new]
    BY DEF ReceiveFeedback
  <2>2. ASSUME NEW kv \in Keys \X Versions
        PROVE  new[kv] \in 0 .. RecoveryThreshold + 1
    <3>1. old[kv] \in 0 .. RecoveryThreshold + 1
      BY <1>1 DEF IInv, TypeOK
    <3>2. CASE \E op \in rec : <<op.key, op.version>> = kv
      BY <3>2, BoundAssumption
    <3>3. CASE /\ ~ \E op \in rec : <<op.key, op.version>> = kv
               /\ \E op \in f.ops : <<op.key, op.version>> = kv
      <4>1. ~ (old[kv] > RecoveryThreshold)
        BY <3>3 DEF Recovered, Repeated
      <4> QED
        BY <3>1, <3>3, <4>1, BoundAssumption
    <3>4. CASE ~ \E op \in f.ops : <<op.key, op.version>> = kv
      BY <3>1, <3>4 DEF Recovered
    <3> QED
      BY <3>2, <3>3, <3>4
  <2>3. new \in [Keys \X Versions -> 0 .. RecoveryThreshold + 1]
    BY <2>2
  <2> QED
    BY <1>1, <2>1, <2>3 DEF IInv, TypeOK
<1>4. TypeOK'
  BY <1>2, <1>3 DEF IInv, TypeOK, ReceiveFeedback
<1>5. Traced' /\ InOrder' /\ LeaseholderFirst'
  <2>1. UNCHANGED <<digest, written, failures, persistQ, syncs>>
    BY DEF ReceiveFeedback
  <2> QED
    BY <1>2, <2>1, FewerInFlight
<1>6. Valued' /\ Counted'
  BY DEF IInv, Valued, Counted, ReceiveFeedback
<1> QED
  BY <1>4, <1>5, <1>6 DEF IInv

(* A crash takes what is in memory; the counter is at least what was       *)
(* written of it.                                                          *)
LEMMA CrashStep == ASSUME IInv, NEW n \in Nodes, Crash(n) PROVE IInv'
<1> USE DEF clusterVars, engineVars, gossipVars, recoveryVars
<1>1. /\ up' \in [Nodes -> {"new", "up", "down"}]
      /\ counter' \in [Nodes -> 0 .. MaxVersion]
      /\ \A m \in Nodes : counter'[m] = counter[m] \/ counter'[m] = stored[m]
  BY DEF IInv, TypeOK, Crash
<1>2. /\ persistQ' \in [Nodes -> Seq(Batches)]
      /\ \A m \in Nodes : persistQ'[m] = persistQ[m] \/ persistQ'[m] = <<>>
  BY DEF IInv, TypeOK, Crash
<1>3. /\ infected' \in [Nodes -> SUBSET Ops]
      /\ \A m \in Nodes : infected'[m] \subseteq infected[m]
      /\ asking' \in [Nodes -> SUBSET Nodes]
  BY DEF IInv, TypeOK, Crash
<1>4. repetitions' \in [Nodes -> [Keys \X Versions -> 0 .. RecoveryThreshold + 1]]
  <2> DEFINE R == [Keys \X Versions -> 0 .. RecoveryThreshold + 1]
  <2> DEFINE zero == [kv \in Keys \X Versions |-> 0]
  <2>1. 0 \in 0 .. RecoveryThreshold + 1
    BY BoundAssumption
  <2>2. zero \in R
    BY <2>1
  <2>3. repetitions \in [Nodes -> R] /\ repetitions' = [repetitions EXCEPT ![n] = zero]
    BY DEF IInv, TypeOK, Crash
  <2> HIDE DEF R, zero
  <2>4. repetitions' \in [Nodes -> R]
    BY <2>2, <2>3
  <2> QED
    BY <2>4 DEF R
<1>5. /\ requests' \subseteq requests /\ syncs' \subseteq syncs
      /\ feedback' \subseteq feedback /\ recovery' \subseteq recovery
      /\ UNCHANGED <<opens, failures, digest, data, stored, acked, written>>
  BY DEF Crash
<1>6. TypeOK'
  BY <1>1, <1>2, <1>3, <1>4, <1>5 DEF IInv, TypeOK
<1>7. Traced' /\ InOrder' /\ LeaseholderFirst'
  BY <1>2, <1>3, <1>5, FewerInFlight
<1>8. Valued' /\ Counted'
  <2>1. Valued'
    BY <1>5 DEF IInv, Valued
  <2>2. \A m \in Nodes : stored[m] \in Nat /\ stored[m] <= counter[m]
    BY DEF IInv, TypeOK, Counted
  <2>3. \A m \in Nodes : stored[m] <= counter'[m]
    BY <1>1, <2>2
  <2> QED
    BY <1>5, <2>1, <2>3 DEF IInv, Counted
<1> QED
  BY <1>6, <1>7, <1>8 DEF IInv

(* Gossip carries what its senders are infected with.                      *)
LEMMA GossipStep == ASSUME IInv, NEW n \in Nodes, NEW p \in Nodes, Gossip(n, p) PROVE IInv'
<1> USE DEF clusterVars, engineVars, gossipVars, recoveryVars
<1>1. \A s \in syncs' : s \in syncs \/ s = Sync(n, p, "sync") \/ s = Sync(p, n, "ack")
  BY DEF Gossip
<1>2. /\ Sync(n, p, "sync").ops = infected[n] /\ Sync(p, n, "ack").ops = infected[p]
      /\ {Sync(n, p, "sync"), Sync(p, n, "ack")} \subseteq
            [to : Nodes, sender : Nodes, kind : {"sync", "ack"}, ops : SUBSET Ops]
  BY DEF IInv, TypeOK, Sync
<1>3. UNCHANGED <<clusterVars, engineVars, requests, persistQ, infected,
                  repetitions, feedback, recoveryVars, acked, written>>
  BY DEF Gossip
<1>4. TypeOK'
  BY <1>1, <1>2, <1>3 DEF IInv, TypeOK
<1>5. Traced' /\ InOrder' /\ LeaseholderFirst'
  <2>1. \A s \in syncs' : s \in syncs \/ \E m \in Nodes : s.ops = infected[m]
    BY <1>1, <1>2
  <2> QED
    BY <1>3, <2>1, FewerInFlight
<1>6. Valued' /\ Counted'
  BY <1>3 DEF IInv, Valued, Counted
<1> QED
  BY <1>4, <1>5, <1>6 DEF IInv

(* The rest of a queue is in order.                                        *)
LEMMA OrderedTail ==
    ASSUME IInv, NEW n \in Nodes, persistQ[n] # <<>>,
           persistQ' = [persistQ EXCEPT ![n] = Tail(persistQ[n])]
    PROVE  InOrder'
<1>1. persistQ[n] \in Seq(Batches) /\ persistQ'[n] = Tail(persistQ[n])
  BY DEF IInv, TypeOK
<1>2. \A i \in DOMAIN persistQ'[n] : persistQ'[n][i].own =>
         \A op, oq \in persistQ'[n][i].ops : op.leaseholder = n /\ oq = op
  BY <1>1, TailFacts DEF IInv, InOrder
<1>3. ASSUME NEW i \in DOMAIN persistQ'[n], NEW j \in DOMAIN persistQ'[n], i < j,
             persistQ'[n][i].own, persistQ'[n][j].own
      PROVE  \A op \in persistQ'[n][i].ops, oq \in persistQ'[n][j].ops :
                 op.version < oq.version
  <2>1. /\ i \in Nat /\ i + 1 \in DOMAIN persistQ[n] /\ persistQ'[n][i] = persistQ[n][i + 1]
        /\ j \in Nat /\ j + 1 \in DOMAIN persistQ[n] /\ persistQ'[n][j] = persistQ[n][j + 1]
    BY <1>1, TailFacts
  <2>2. i + 1 < j + 1
    BY <1>3, <2>1
  <2> QED
    BY <1>3, <2>1, <2>2 DEF IInv, InOrder
<1>4. \A m \in Nodes \ {n} : persistQ'[m] = persistQ[m]
  BY DEF IInv, TypeOK
<1> QED
  BY <1>2, <1>3, <1>4 DEF IInv, InOrder

(* A batch that is not persisted: no promise is kept after a failure, but   *)
(* versions are still not given twice.                                     *)
LEMMA PersistFailsStep == ASSUME IInv, NEW n \in Nodes, PersistFails(n) PROVE IInv'
<1> USE DEF clusterVars, engineVars, gossipVars, recoveryVars
<1> DEFINE b == Head(persistQ[n])
<1>1. persistQ[n] \in Seq(Batches) /\ persistQ[n] # <<>>
  BY DEF IInv, TypeOK, PersistFails
<1>2. /\ persistQ' = [persistQ EXCEPT ![n] = Tail(persistQ[n])]
      /\ persistQ' \in [Nodes -> Seq(Batches)]
  BY <1>1, TailFacts DEF IInv, TypeOK, PersistFails
<1>3. /\ failures' \in 0 .. MaxFailures /\ failures' # 0
      /\ UNCHANGED <<up, opens, engineVars, requests, repetitions, syncs, feedback,
                     recoveryVars, written>>
  BY BoundAssumption DEF IInv, TypeOK, PersistFails
<1>4. b \in Batches /\ b.ops \subseteq Ops /\ \A op \in b.ops : op \in written[op.key]
  BY <1>1, TailFacts DEF IInv, Traced, Batches
<1>5. /\ infected' \in [Nodes -> SUBSET Ops] /\ acked' \subseteq Ops
      /\ \A m \in Nodes : \A op \in infected'[m] : op \in infected[m] \/ op \in b.ops
  <2>1. CASE UNCHANGED <<infected, acked>>
    BY <2>1 DEF IInv, TypeOK
  <2>2. CASE infected' = [infected EXCEPT ![n] = Replace(@, b.ops)] /\ Acknowledge(b)
    BY <1>4, <2>2 DEF IInv, TypeOK, Replace, Acknowledge
  <2> QED
    BY <2>1, <2>2 DEF PersistFails
<1> HIDE DEF b
<1>6. TypeOK'
  BY <1>2, <1>3, <1>5 DEF IInv, TypeOK
<1>7. Traced'
  <2>1. \A m \in Nodes : \A i \in DOMAIN persistQ'[m] :
           \A op \in persistQ'[m][i].ops : op \in written[op.key]
    BY <1>1, <1>2, TailFacts DEF IInv, TypeOK, Traced
  <2> QED
    BY <1>3, <1>4, <1>5, <2>1 DEF IInv, TypeOK, Traced
<1>8. InOrder'
  BY <1>1, <1>2, OrderedTail DEF IInv, TypeOK
<1>9. LeaseholderFirst'
  BY <1>3 DEF LeaseholderFirst
<1>10. Valued' /\ Counted'
  BY <1>3 DEF IInv, Valued, Counted
<1> QED
  BY <1>6, <1>7, <1>8, <1>9, <1>10 DEF IInv

(* The new operation is newer than all its leaseholder gave before.  While *)
(* the key had no write, nothing of it was anywhere.                       *)
LEMMA AssignStep == ASSUME IInv, NEW r \in requests, Assign(r) PROVE IInv'
<1> USE DEF clusterVars, engineVars, gossipVars, recoveryVars
<1> DEFINE n == r.leaseholder
           op == [key |-> r.key, version |-> counter[n] + 1, leaseholder |-> n]
           b == [ops |-> {op}, own |-> TRUE]
<1>1. n \in Nodes /\ r.key \in Keys /\ counter[n] \in Nat /\ counter[n] + 1 \in 1 .. MaxVersion
  BY BoundAssumption DEF IInv, TypeOK, Assign, Delivered
<1>2. op \in Ops /\ op.key = r.key /\ op.leaseholder = n /\ op.version = counter[n] + 1
  BY <1>1 DEF Ops, Versions
<1>3. b \in Batches /\ b.ops = {op} /\ b.own
  BY <1>2 DEF Batches
<1>4. /\ counter' = [counter EXCEPT ![n] = counter[n] + 1]
      /\ stored' = [stored EXCEPT ![n] = counter[n] + 1]
      /\ written' = [written EXCEPT ![r.key] = written[r.key] \cup {op}]
      /\ persistQ' = [persistQ EXCEPT ![n] = Append(persistQ[n], b)]
      /\ requests' \subseteq requests
      /\ UNCHANGED <<clusterVars, digest, data, gossipVars, recoveryVars, acked>>
  BY DEF Assign, Bump, Enqueue
<1> HIDE DEF n, op, b
<1>5. /\ persistQ' \in [Nodes -> Seq(Batches)]
      /\ \A m \in Nodes : \A i \in DOMAIN persistQ'[m] :
            \/ i \in DOMAIN persistQ[m] /\ persistQ'[m][i] = persistQ[m][i]
            \/ m = n /\ i = Len(persistQ[n]) + 1 /\ persistQ'[m][i] = b
  <2>1. persistQ \in [Nodes -> Seq(Batches)] /\ n \in Nodes
    BY <1>1 DEF IInv, TypeOK
  <2> QED
    BY <1>3, <1>4, <2>1, QueueGrows
<1>6. TypeOK'
  <2>1. counter' \in [Nodes -> 0 .. MaxVersion] /\ stored' \in [Nodes -> 0 .. MaxVersion]
    BY <1>1, <1>4, BoundAssumption DEF IInv, TypeOK
  <2>2. written' \in [Keys -> SUBSET Ops]
    BY <1>1, <1>2, <1>4 DEF IInv, TypeOK
  <2> QED
    BY <1>4, <1>5, <2>1, <2>2 DEF IInv, TypeOK
<1>7. /\ op \in written'[op.key]
      /\ \A k \in Keys : written[k] \subseteq written'[k]
      /\ \A k \in Keys : \A o \in written'[k] : o \in written[k] \/ (k = r.key /\ o = op)
  BY <1>1, <1>2, <1>4 DEF IInv, TypeOK
<1>8. Traced'
  <2>1. \A o \in Ops : o.key \in Keys
    BY DEF Ops
  <2>2. \A m \in Nodes : \A i \in DOMAIN persistQ'[m] :
           \A o \in persistQ'[m][i].ops : o \in written'[o.key]
    <3> SUFFICES ASSUME NEW m \in Nodes, NEW i \in DOMAIN persistQ'[m],
                        NEW o \in persistQ'[m][i].ops
                 PROVE  o \in written'[o.key]
      OBVIOUS
    <3>1. CASE i \in DOMAIN persistQ[m] /\ persistQ'[m][i] = persistQ[m][i]
      <4>1. persistQ[m][i] \in Batches
        BY <3>1 DEF IInv, TypeOK
      <4> QED
        BY <1>7, <2>1, <3>1, <4>1 DEF IInv, Traced, Batches
    <3>2. CASE persistQ'[m][i] = b
      BY <1>3, <1>7, <3>2
    <3> QED
      BY <1>5, <3>1, <3>2
  <2> QED
    BY <1>4, <1>7, <2>1, <2>2 DEF IInv, TypeOK, Traced
<1>9. Counted'
  <2>1. \A m \in Nodes : stored'[m] >= stored[m] /\ stored'[m] <= counter'[m]
    <3>1. /\ counter \in [Nodes -> 0 .. MaxVersion] /\ stored \in [Nodes -> 0 .. MaxVersion]
          /\ n \in Nodes /\ MaxVersion \in Nat
      BY <1>1, BoundAssumption DEF IInv, TypeOK
    <3>2. \A m \in Nodes : stored[m] \in Nat /\ counter[m] \in Nat /\ stored[m] <= counter[m]
      BY <3>1 DEF IInv, Counted
    <3>3. /\ stored'[n] = counter[n] + 1 /\ counter'[n] = counter[n] + 1
          /\ \A m \in Nodes \ {n} : stored'[m] = stored[m] /\ counter'[m] = counter[m]
      BY <1>4, <3>1
    <3> QED
      BY <3>1, <3>2, <3>3
  <2>2. stored'[n] = counter[n] + 1
    BY <1>1, <1>4 DEF IInv, TypeOK
  <2>3. \A k \in Keys : \A o \in written'[k] : o.key = k /\ o.version <= stored'[o.leaseholder]
    <3> SUFFICES ASSUME NEW k \in Keys, NEW o \in written'[k]
                 PROVE  o.key = k /\ o.version <= stored'[o.leaseholder]
      OBVIOUS
    <3>1. CASE o \in written[k]
      <4>1. o \in Ops /\ o.key = k /\ o.version <= stored[o.leaseholder]
        BY <3>1 DEF IInv, TypeOK, Counted
      <4>2. /\ o.leaseholder \in Nodes /\ o.version \in Nat
            /\ stored[o.leaseholder] \in Nat /\ stored'[o.leaseholder] \in Nat
        BY <1>6, <4>1 DEF IInv, TypeOK, Ops, Versions
      <4> QED
        BY <2>1, <4>1, <4>2
    <3>2. CASE k = r.key /\ o = op
      BY <1>1, <1>2, <2>2, <3>2
    <3> QED
      BY <1>7, <3>1, <3>2
  <2> QED
    BY <2>1, <2>3 DEF Counted
<1>10. \A k \in Keys : \A o \in written[k] : o.leaseholder = n => o.version < op.version
  <2> SUFFICES ASSUME NEW k \in Keys, NEW o \in written[k], o.leaseholder = n
               PROVE  o.version < op.version
    OBVIOUS
  <2>1. o.version \in Nat /\ o.version <= stored[n] /\ stored[n] <= counter[n] /\ stored[n] \in Nat
    BY <1>1 DEF IInv, TypeOK, Counted, Ops, Versions
  <2> QED
    BY <1>1, <1>2, <2>1
<1>11. InOrder'
  <2>1. \A m \in Nodes : \A i \in DOMAIN persistQ'[m] :
           persistQ'[m][i].own =>
               \A o, oq \in persistQ'[m][i].ops : o.leaseholder = m /\ oq = o
    BY <1>2, <1>3, <1>5 DEF IInv, InOrder
  <2>2. ASSUME NEW m \in Nodes, NEW i \in DOMAIN persistQ'[m], NEW j \in DOMAIN persistQ'[m],
               i < j, persistQ'[m][i].own, persistQ'[m][j].own,
               NEW o \in persistQ'[m][i].ops, NEW oq \in persistQ'[m][j].ops
        PROVE  o.version < oq.version
    <3>1. i \in DOMAIN persistQ[m] /\ persistQ'[m][i] = persistQ[m][i]
      <4>1. persistQ[n] \in Seq(Batches)
        BY <1>1 DEF IInv, TypeOK
      <4>2. CASE m = n /\ i = Len(persistQ[n]) + 1
        BY <1>3, <1>5, <2>2, <4>1, <4>2, AppendFacts
      <4> QED
        BY <1>5, <4>2
    <3>2. CASE j \in DOMAIN persistQ[m] /\ persistQ'[m][j] = persistQ[m][j]
      BY <2>2, <3>1, <3>2 DEF IInv, InOrder
    <3>3. CASE m = n /\ persistQ'[m][j] = b
      <4>1. oq = op
        BY <1>3, <2>2, <3>3
      <4>2. persistQ[m][i] \in Batches
        BY <3>1 DEF IInv, TypeOK
      <4>3. o \in written[o.key] /\ o.leaseholder = n /\ o.key \in Keys
        BY <2>2, <3>1, <3>3, <4>2 DEF IInv, Traced, InOrder, Batches, Ops
      <4> QED
        BY <1>10, <4>1, <4>3
    <3> QED
      BY <1>5, <3>2, <3>3
  <2> QED
    BY <2>1, <2>2 DEF InOrder
<1>12. ASSUME failures = 0, NEW k \in Keys, NEW l \in Nodes, Leased(k, l)'
       PROVE  Ahead(k, l)' /\ Behind(k, l)'
  <2>1. CASE k # r.key
    <3>1. Ahead(k, l) /\ Behind(k, l)
      BY <1>1, <1>4, <1>12, <2>1 DEF IInv, TypeOK, LeaseholderFirst, Leased
    <3>2. \A o \in b.ops : o.key # k
      BY <1>2, <1>3, <2>1
    <3>3. Ahead(k, l)'
      BY <1>4, <1>5, <3>1, <3>2 DEF Ahead
    <3>4. Behind(k, l)'
      BY <1>4, <1>5, <3>1, <3>2 DEF Behind
    <3> QED
      BY <3>3, <3>4
  <2>2. CASE k = r.key
    <3>1. l = n /\ op.key = k /\ op.version > 0
      BY <1>1, <1>2, <1>7, <1>12, <2>2 DEF Leased
    <3>2. \A m \in Nodes \ {l} : persistQ'[m] = persistQ[m]
      BY <1>4, <3>1 DEF IInv, TypeOK
    <3>3. CASE written[k] = {}
      <4>1. /\ \A m \in Nodes : digest[m][k] = None
            /\ \A m \in Nodes : \A i \in DOMAIN persistQ[m] :
                  \A o \in persistQ[m][i].ops : o.key # k
            /\ \A m \in Nodes : \A o \in infected[m] : o.key # k
            /\ \A s \in syncs : \A o \in s.ops : o.key # k
        BY <3>3 DEF IInv, Traced
      <4>2. Ahead(k, l)'
        BY <1>3, <1>4, <1>5, <3>1, <4>1 DEF Ahead, Version
      <4>3. Behind(k, l)'
        <5>1. \A m \in Nodes : Version(digest'[m][k]) = 0
          BY <1>4, <4>1 DEF Version
        <5>2. UNCHANGED <<infected, syncs>>
          BY <1>4
        <5>3. \A m \in Nodes : Version(digest'[m][k]) <= Version(digest'[l][k])
          BY <5>1
        <5> QED
          BY <3>2, <4>1, <5>2, <5>3 DEF Behind
      <4> QED
        BY <4>2, <4>3
    <3>4. CASE written[k] # {}
      <4>1. Leased(k, l)
        BY <1>7, <1>12, <3>4 DEF Leased
      <4>2. Ahead(k, l) /\ Behind(k, l)
        BY <1>12, <4>1 DEF IInv, LeaseholderFirst
      <4>3. op.version > Version(digest[l][k])
        <5>1. CASE digest[l][k] = None
          BY <3>1, <5>1 DEF Version
        <5>2. CASE digest[l][k] # None
          BY <1>1, <1>2, <1>10, <3>1, <4>1, <5>2, DigestFacts
          DEF IInv, Traced, Leased
        <5> QED
          BY <5>1, <5>2
      <4>4. Ahead(k, l)'
        BY <1>3, <1>4, <1>5, <4>2, <4>3 DEF Ahead
      <4>5. Behind(k, l)'
        BY <1>4, <3>2, <4>2 DEF Behind
      <4> QED
        BY <4>4, <4>5
    <3> QED
      BY <3>3, <3>4
  <2> QED
    BY <2>1, <2>2
<1>13. LeaseholderFirst'
  BY <1>4, <1>12 DEF LeaseholderFirst
<1>14. Valued'
  BY <1>4 DEF IInv, Valued
<1> QED
  BY <1>6, <1>8, <1>9, <1>11, <1>13, <1>14 DEF IInv

(* What a node accepts into its queue is never of a key it holds the only   *)
(* lease for: all that reaches it of those is old.                         *)
LEMMA FilterStep == ASSUME IInv, NEW s \in syncs, Filter(s) PROVE IInv'
<1> USE DEF clusterVars, engineVars, gossipVars, recoveryVars
<1> DEFINE n == s.to
           accepted == {op \in s.ops : Accepts(n, op)}
           b == [ops |-> accepted, own |-> FALSE]
<1>1. n \in Nodes /\ s.sender \in Nodes /\ s.ops \subseteq Ops
  BY DEF IInv, TypeOK
<1>2. b \in Batches /\ b.ops \subseteq s.ops /\ ~b.own /\ \A op \in b.ops : Accepts(n, op)
  BY <1>1 DEF Batches
<1>3. /\ syncs' \subseteq syncs
      /\ feedback' = feedback
         \/ feedback' = feedback \cup {[to |-> s.sender, from |-> n, ops |-> s.ops \ accepted]}
      /\ UNCHANGED <<clusterVars, engineVars, requests, infected, repetitions,
                     recoveryVars, acked, written>>
  BY DEF Filter, SendFeedback
<1>4. persistQ' = persistQ \/ persistQ' = [persistQ EXCEPT ![n] = Append(persistQ[n], b)]
  BY DEF Filter, Enqueue
<1> HIDE DEF b, n
<1>5. /\ persistQ' \in [Nodes -> Seq(Batches)]
      /\ \A m \in Nodes : \A i \in DOMAIN persistQ'[m] :
            \/ i \in DOMAIN persistQ[m] /\ persistQ'[m][i] = persistQ[m][i]
            \/ m = n /\ persistQ'[m][i] = b
  <2>1. CASE persistQ' = persistQ
    BY <2>1 DEF IInv, TypeOK
  <2>2. CASE persistQ' = [persistQ EXCEPT ![n] = Append(persistQ[n], b)]
    <3>1. persistQ \in [Nodes -> Seq(Batches)] /\ n \in Nodes /\ b \in Batches
      BY <1>1, <1>2 DEF IInv, TypeOK
    <3> QED
      BY <2>2, <3>1, QueueGrows
  <2> QED
    BY <1>4, <2>1, <2>2
<1>6. TypeOK'
  <2>1. feedback' \subseteq [to : Nodes, from : Nodes, ops : SUBSET Ops]
    BY <1>1, <1>3 DEF IInv, TypeOK
  <2> QED
    BY <1>3, <1>5, <2>1 DEF IInv, TypeOK
<1>7. Traced'
  BY <1>2, <1>3, <1>5 DEF IInv, Traced
<1>8. InOrder'
  BY <1>2, <1>5 DEF IInv, InOrder
<1>9. ASSUME failures = 0, NEW k \in Keys, NEW l \in Nodes, Leased(k, l)
      PROVE  Ahead(k, l)' /\ Behind(k, l)'
  <2>1. Ahead(k, l) /\ Behind(k, l)
    BY <1>9 DEF IInv, LeaseholderFirst
  <2>2. ASSUME n = l, NEW op \in b.ops, op.key = k PROVE FALSE
    <3>1. op \in Ops /\ op \in written[k] /\ op.version <= Version(digest[l][k])
      BY <1>1, <1>2, <2>1, <2>2 DEF IInv, Traced, Behind
    <3>2. op.version \in Nat \ {0} /\ op.leaseholder = l
      BY <1>9, <3>1 DEF Ops, Versions, Leased
    <3>3. /\ digest[l][k] # None /\ digest[l][k].leaseholder = l
          /\ digest[l][k].version \in Nat /\ op.version <= digest[l][k].version
      BY <1>9, <3>1, <3>2, DigestFacts DEF IInv, Traced, Leased
    <3>4. ~ (l > l)
      BY NodeAssumption
    <3> QED
      BY <1>2, <2>2, <3>2, <3>3, <3>4 DEF Accepts
  <2>3. Ahead(k, l)'
    BY <1>3, <1>5, <2>1, <2>2 DEF Ahead
  <2>4. Behind(k, l)'
    BY <1>2, <1>3, <1>5, <2>1 DEF Behind
  <2> QED
    BY <2>3, <2>4
<1>10. LeaseholderFirst'
  BY <1>3, <1>9 DEF LeaseholderFirst, Leased
<1>11. Valued' /\ Counted'
  BY <1>3 DEF IInv, Valued, Counted
<1> QED
  BY <1>6, <1>7, <1>8, <1>10, <1>11 DEF IInv

(* A batch is persisted.  At the only leaseholder of a key it is a write of *)
(* its own that is newer than the digest it replaces, and older than those *)
(* that wait; anywhere else it is no newer than the leaseholder's digest.  *)
LEMMA PersistStep ==
    ASSUME IInv, NEW n \in Nodes, Persist(n)
    PROVE  /\ IInv'
           /\ failures = 0 =>
                  \A k \in Keys, l \in Nodes :
                      Leased(k, l) => Version(digest'[l][k]) >= Version(digest[l][k])
<1> USE DEF clusterVars, engineVars, gossipVars, recoveryVars
<1> DEFINE b == Head(persistQ[n])
           q == persistQ[n]
<1>1. q \in Seq(Batches) /\ q # <<>>
  BY DEF IInv, TypeOK, Persist
<1>2. /\ b \in Batches /\ b = q[1] /\ 1 \in DOMAIN q /\ b.ops \subseteq Ops
      /\ \A op \in b.ops : op \in written[op.key]
  BY <1>1, TailFacts DEF IInv, Traced, Batches
<1>3. /\ persistQ' = [persistQ EXCEPT ![n] = Tail(q)]
      /\ digest' = [digest EXCEPT ![n] = Put(digest[n], b.ops)]
      /\ data' = [data EXCEPT ![n] = Put(data[n], b.ops)]
      /\ infected' = [infected EXCEPT ![n] = Replace(infected[n], b.ops)]
      /\ Acknowledge(b)
      /\ UNCHANGED <<clusterVars, counter, stored, requests, repetitions, syncs,
                     feedback, recoveryVars, written>>
  BY DEF Persist
<1> HIDE DEF b, q
<1>4. /\ persistQ' \in [Nodes -> Seq(Batches)]
      /\ \A m \in Nodes \ {n} : persistQ'[m] = persistQ[m]
      /\ persistQ'[n] = Tail(q) /\ persistQ[n] = q
  BY <1>1, <1>3, TailFacts DEF IInv, TypeOK, q
<1>5. /\ infected' \in [Nodes -> SUBSET Ops] /\ acked' \subseteq Ops
      /\ \A m \in Nodes : \A op \in infected'[m] : op \in infected[m] \/ (m = n /\ op \in b.ops)
  BY <1>2, <1>3 DEF IInv, TypeOK, Replace, Acknowledge
<1>6. /\ digest' \in [Nodes -> [Keys -> Ops \cup {None}]]
      /\ \A m \in Nodes \ {n} : digest'[m] = digest[m]
      /\ \A k \in Keys :
            \/ digest'[n][k] = digest[n][k] /\ \A op \in b.ops : op.key # k
            \/ digest'[n][k] \in b.ops /\ digest'[n][k].key = k /\ digest'[n][k] # None
  <2> DEFINE new == Put(digest[n], b.ops)
  <2>1. digest' = [digest EXCEPT ![n] = new]
    BY <1>3
  <2>2. digest[n] \in [Keys -> Ops \cup {None}] /\ b.ops \in SUBSET Ops
    BY <1>2 DEF IInv, TypeOK
  <2>3. /\ new \in [Keys -> Ops \cup {None}]
        /\ \A k \in Keys :
              \/ new[k] = digest[n][k] /\ \A op \in b.ops : op.key # k
              \/ new[k] \in b.ops /\ new[k].key = k /\ new[k] # None
    BY <2>2, PutFacts
  <2> HIDE DEF new
  <2> QED
    BY <2>1, <2>3 DEF IInv, TypeOK
<1>7. /\ data' \in [Nodes -> [Keys -> Ops \cup {None}]]
      /\ \A m \in Nodes \ {n} : data'[m] = data[m]
      /\ \A k \in Keys :
            \/ data'[n][k] = data[n][k] /\ \A op \in b.ops : op.key # k
            \/ data'[n][k] # None
  <2> DEFINE new == Put(data[n], b.ops)
  <2>1. data' = [data EXCEPT ![n] = new]
    BY <1>3
  <2>2. data[n] \in [Keys -> Ops \cup {None}] /\ b.ops \in SUBSET Ops
    BY <1>2 DEF IInv, TypeOK
  <2>3. /\ new \in [Keys -> Ops \cup {None}]
        /\ \A k \in Keys :
              (new[k] = data[n][k] /\ \A op \in b.ops : op.key # k) \/ new[k] # None
    BY <2>2, PutFacts
  <2> HIDE DEF new
  <2> QED
    BY <2>1, <2>3 DEF IInv, TypeOK
<1>8. TypeOK'
  BY <1>3, <1>4, <1>5, <1>6, <1>7 DEF IInv, TypeOK
<1>9. Valued'
  BY <1>6, <1>7 DEF IInv, Valued
<1>10. \A i \in DOMAIN persistQ'[n] :
          i + 1 \in DOMAIN q /\ i \in Nat \ {0} /\ persistQ'[n][i] = q[i + 1]
  BY <1>1, <1>4, TailFacts
<1>11. Traced'
  <2>1. \A m \in Nodes, k \in Keys : digest'[m][k] # None => digest'[m][k] \in written[k]
    BY <1>2, <1>6 DEF IInv, Traced
  <2>2. \A m \in Nodes \ {n} : \A i \in DOMAIN persistQ'[m] :
           \A op \in persistQ'[m][i].ops : op \in written[op.key]
    BY <1>4 DEF IInv, Traced
  <2>3. \A i \in DOMAIN persistQ'[n] : \A op \in persistQ'[n][i].ops : op \in written[op.key]
    BY <1>4, <1>10 DEF IInv, Traced
  <2> QED
    BY <1>2, <1>3, <1>5, <2>1, <2>2, <2>3 DEF IInv, Traced
<1>12. Counted'
  BY <1>3 DEF IInv, Counted
<1>13. InOrder'
  BY <1>1, <1>3, <1>4, OrderedTail
<1>14. ASSUME failures = 0, NEW k \in Keys, NEW l \in Nodes, Leased(k, l)
       PROVE  /\ Ahead(k, l)' /\ Behind(k, l)'
              /\ Version(digest'[l][k]) >= Version(digest[l][k])
  <2>1. Ahead(k, l) /\ Behind(k, l)
    BY <1>14 DEF IInv, LeaseholderFirst
  <2>2. \A m \in Nodes : Version(digest[m][k]) \in Nat /\ Version(digest'[m][k]) \in Nat
    BY <1>6, VersionFacts DEF IInv, TypeOK
  <2>3. CASE n # l
    <3>1. /\ digest'[l] = digest[l] /\ persistQ'[l] = persistQ[l]
          /\ \A op \in b.ops : op.key = k => op.version <= Version(digest[l][k])
      BY <1>2, <1>4, <1>6, <2>1, <2>3 DEF Behind, q
    <3>2. Ahead(k, l)'
      BY <2>1, <3>1 DEF Ahead
    <3>3. \A m \in Nodes : Version(digest'[m][k]) <= Version(digest[l][k])
      BY <1>6, <2>1, <3>1 DEF Behind, Version
    <3>4. \A m \in Nodes \ {l} : \A i \in DOMAIN persistQ'[m] :
             \A op \in persistQ'[m][i].ops : op.key = k => op.version <= Version(digest[l][k])
      <4>1. \A i \in DOMAIN persistQ'[n] : \A op \in persistQ'[n][i].ops :
               op.key = k => op.version <= Version(digest[l][k])
        BY <1>4, <1>10, <2>1, <2>3 DEF Behind
      <4> QED
        BY <1>4, <2>1, <4>1 DEF Behind
    <3>5. Behind(k, l)'
      BY <1>3, <1>5, <2>1, <3>1, <3>3, <3>4 DEF Behind
    <3> QED
      BY <2>2, <3>1, <3>2, <3>5
  <2>4. CASE n = l
    <3>1. \A op \in b.ops : op.key = k => b.own /\ op.version > Version(digest[l][k])
      BY <1>2, <2>1, <2>4 DEF Ahead, q
    <3>2. Version(digest'[l][k]) >= Version(digest[l][k])
      <4>1. CASE digest'[n][k] = digest[n][k]
        BY <2>2, <2>4, <4>1
      <4>2. CASE digest'[n][k] \in b.ops /\ digest'[n][k].key = k /\ digest'[n][k] # None
        BY <2>2, <2>4, <3>1, <4>2 DEF Version
      <4> QED
        BY <1>6, <4>1, <4>2
    <3>3. \A op \in b.ops : op.key = k => op.version <= Version(digest'[l][k])
      <4> SUFFICES ASSUME NEW op \in b.ops, op.key = k
                   PROVE  op.version <= Version(digest'[l][k])
        OBVIOUS
      <4>1. b.own
        BY <3>1
      <4>2. \A o, oq \in b.ops : oq = o
        BY <1>2, <1>4, <4>1 DEF IInv, InOrder
      <4>3. digest'[n][k] = op /\ op # None
        BY <1>6, <4>2
      <4>4. op.version \in Nat
        BY <1>2 DEF Ops, Versions
      <4> QED
        BY <2>4, <4>3, <4>4 DEF Version
    <3>4. Ahead(k, l)'
      <4> SUFFICES ASSUME NEW i \in DOMAIN persistQ'[l], NEW op \in persistQ'[l][i].ops,
                          op.key = k
                   PROVE  persistQ'[l][i].own /\ op.version > Version(digest'[l][k])
        BY DEF Ahead
      <4>1. /\ i + 1 \in DOMAIN q /\ persistQ'[l][i] = q[i + 1] /\ 1 < i + 1
            /\ q = persistQ[l]
        <5>1. /\ i + 1 \in DOMAIN q /\ i \in Nat \ {0} /\ persistQ'[n][i] = q[i + 1]
              /\ q = persistQ[n]
          BY <1>4, <1>10, <2>4
        <5> QED
          BY <2>4, <5>1
      <4>2. q[i + 1].own /\ op.version > Version(digest[l][k])
        BY <2>1, <4>1 DEF Ahead
      <4>3. CASE digest'[n][k] = digest[n][k]
        BY <2>4, <4>1, <4>2, <4>3
      <4>4. CASE digest'[n][k] \in b.ops /\ digest'[n][k].key = k /\ digest'[n][k] # None
        <5>1. b.own
          BY <3>1, <4>4
        <5>2. digest'[n][k].version < op.version
          BY <1>2, <2>4, <4>1, <4>2, <4>4, <5>1 DEF IInv, InOrder
        <5>3. op.version \in Nat /\ digest'[n][k].version \in Nat
          <6>1. persistQ'[l][i] \in Batches
            BY <1>4
          <6> QED
            BY <1>2, <4>4, <6>1 DEF Batches, Ops, Versions
        <5> QED
          BY <2>4, <4>1, <4>2, <4>4, <5>2, <5>3 DEF Version
      <4> QED
        BY <1>6, <4>3, <4>4
    <3>5. Behind(k, l)'
      <4>1. ASSUME NEW v \in Nat, v <= Version(digest[l][k])
            PROVE  v <= Version(digest'[l][k])
        BY <2>2, <3>2, <4>1
      <4>2. \A m \in Nodes : Version(digest'[m][k]) <= Version(digest'[l][k])
        BY <1>6, <2>1, <2>2, <2>4, <4>1 DEF Behind
      <4>3. \A op \in Ops : op.version \in Nat
        BY DEF Ops, Versions
      <4>4. \A m \in Nodes \ {l} : \A i \in DOMAIN persistQ'[m] :
               \A op \in persistQ'[m][i].ops : op.key = k => op.version <= Version(digest'[l][k])
        <5>1. \A m \in Nodes : \A i \in DOMAIN persistQ[m] : persistQ[m][i].ops \subseteq Ops
          <6>1. \A m \in Nodes : \A i \in DOMAIN persistQ[m] : persistQ[m][i] \in Batches
            BY DEF IInv, TypeOK
          <6> QED
            BY <6>1 DEF Batches
        <5> QED
          BY <1>4, <2>1, <2>4, <4>1, <4>3, <5>1 DEF Behind
      <4>5. \A m \in Nodes : \A op \in infected'[m] :
               op.key = k => op.version <= Version(digest'[l][k])
        BY <1>5, <2>1, <3>3, <4>1, <4>3 DEF IInv, TypeOK, Behind
      <4>6. \A s \in syncs' : \A op \in s.ops :
               op.key = k => op.version <= Version(digest'[l][k])
        BY <1>3, <2>1, <4>1, <4>3 DEF IInv, TypeOK, Behind
      <4> QED
        BY <4>2, <4>4, <4>5, <4>6 DEF Behind
    <3> QED
      BY <3>2, <3>4, <3>5
  <2> QED
    BY <2>3, <2>4
<1>15. LeaseholderFirst'
  BY <1>3, <1>14 DEF LeaseholderFirst, Leased
<1> QED
  BY <1>8, <1>9, <1>11, <1>12, <1>13, <1>14, <1>15 DEF IInv

-----------------------------------------------------------------------------
(* Theorems.                                                               *)

(* A step of the store, or none, keeps the invariant.                      *)
LEMMA NextStep == IInv /\ [Next]_vars => IInv'
<1> SUFFICES ASSUME IInv, [Next]_vars PROVE IInv'
  OBVIOUS
<1>1. CASE UNCHANGED vars
  <2>1. /\ UNCHANGED <<up, opens, failures, digest, data, counter, stored, requests, persistQ,
                       infected, repetitions>>
        /\ UNCHANGED <<syncs, feedback, asking, recovery, acked, written>>
    BY <1>1 DEF vars, clusterVars, engineVars, gossipVars, recoveryVars
  <2>2. TypeOK'
    BY <2>1 DEF IInv, TypeOK
  <2>3. Traced' /\ InOrder' /\ LeaseholderFirst'
    BY <2>1, FewerInFlight
  <2>4. Valued' /\ Counted'
    BY <2>1 DEF IInv, Valued, Counted
  <2> QED
    BY <2>2, <2>3, <2>4 DEF IInv
<1>2. ASSUME NEW n \in Nodes, NEW k \in Keys, NEW l \in {0} \cup Known, Commit(n, k, l)
      PROVE  IInv'
  BY <1>2, CommitStep
<1>3. ASSUME NEW n \in Nodes, Persist(n) \/ PersistFails(n) \/ Open(n) \/ Crash(n)
      PROVE  IInv'
  BY <1>3, PersistStep, PersistFailsStep, OpenStep, CrashStep
<1>4. ASSUME NEW n \in Nodes, NEW p \in Nodes, Gossip(n, p) \/ RecoverPeer(n, p)
      PROVE  IInv'
  BY <1>4, GossipStep, RecoverPeerStep
<1>5. ASSUME NEW r \in requests, Assign(r) \/ AssignFails(r) \/ SendFails(r)
      PROVE  IInv'
  BY <1>5, AssignStep, AssignFailsStep, SendFailsStep
<1>6. ASSUME NEW s \in syncs, Filter(s) PROVE IInv'
  BY <1>6, FilterStep
<1>7. ASSUME NEW f \in feedback, ReceiveFeedback(f) PROVE IInv'
  BY <1>7, ReceiveFeedbackStep
<1>8. ASSUME NEW t \in recovery, CommitRecovery(t) PROVE IInv'
  BY <1>8, CommitRecoveryStep
<1> QED
  BY <1>1, <1>2, <1>3, <1>4, <1>5, <1>6, <1>7, <1>8 DEF Next

(* The inductive invariant holds in every state of every run of the store. *)
THEOREM Invariance == Spec => []IInv
BY InitIInv, NextStep, PTL DEF Spec

(* Every variable of the pipeline has its type; in particular recovery     *)
(* always finds the value of a digest, and the repetitions that feedback   *)
(* counts stop one past the threshold.                                     *)
THEOREM TypeCorrect == Spec => []TypeOK
<1>1. IInv => TypeOK
  BY DEF IInv
<1> QED
  BY <1>1, Invariance, PTL

(* While engine writes succeed, no node is ahead of the only leaseholder of *)
(* a key (version.go, persist.go: a write is persisted where it was given  *)
(* its version before it spreads).                                         *)
THEOREM LeaseholderIsNewest == Spec => []NewestAtLeaseholder
<1>1. IInv => NewestAtLeaseholder
  <2> SUFFICES ASSUME IInv, failures = 0,
                      NEW k \in Keys, NEW l \in Nodes, NEW n \in Nodes, Leased(k, l)
               PROVE  Version(digest[n][k]) <= Version(digest[l][k])
    BY DEF IInv, NewestAtLeaseholder
  <2> QED
    BY DEF IInv, LeaseholderFirst, Behind
<1> QED
  BY <1>1, Invariance, PTL

(* Only the persist stage changes a digest, and at the only leaseholder of *)
(* a key it never goes back (the version filter of version.go lets nothing *)
(* older through, recovery.go writes values only).                         *)
THEOREM LeaseholderKeepsNewest == Spec => LeaseholderNeverRegresses
<1>1. ASSUME IInv, [Next]_vars, failures = 0, NEW k \in Keys, NEW l \in Nodes, Leased(k, l)
      PROVE  Version(digest'[l][k]) >= Version(digest[l][k])
  <2> USE DEF clusterVars, engineVars
  <2>1. CASE digest' = digest
    BY <1>1, <2>1, DigestFacts DEF IInv
  <2>2. ASSUME NEW n \in Nodes, Persist(n)
        PROVE  Version(digest'[l][k]) >= Version(digest[l][k])
    BY <1>1, <2>2, PersistStep
  <2>3. ASSUME ~ \E n \in Nodes : Persist(n) PROVE digest' = digest
    <3>1. CASE UNCHANGED vars
      BY <3>1 DEF vars
    <3>2. CASE Next
      <4>1. ASSUME NEW n \in Nodes,
                   \/ \E j \in Keys, m \in {0} \cup Known : Commit(n, j, m)
                   \/ PersistFails(n) \/ Open(n) \/ Crash(n)
            PROVE  digest' = digest
        BY <4>1 DEF Commit, PersistFails, Open, Crash
      <4>2. ASSUME NEW n \in Nodes, NEW p \in Nodes, Gossip(n, p) \/ RecoverPeer(n, p)
            PROVE  digest' = digest
        BY <4>2 DEF Gossip, RecoverPeer
      <4>3. ASSUME NEW r \in requests, Assign(r) \/ AssignFails(r) \/ SendFails(r)
            PROVE  digest' = digest
        BY <4>3 DEF Assign, AssignFails, SendFails
      <4>4. ASSUME \/ \E s \in syncs : Filter(s)
                   \/ \E f \in feedback : ReceiveFeedback(f)
                   \/ \E t \in recovery : CommitRecovery(t)
            PROVE  digest' = digest
        BY <4>4 DEF Filter, ReceiveFeedback, CommitRecovery
      <4> QED
        BY <2>3, <3>2, <4>1, <4>2, <4>3, <4>4 DEF Next
    <3> QED
      BY <1>1, <3>1, <3>2
  <2> QED
    BY <2>1, <2>2, <2>3
<1>2. IInv /\ [Next]_vars =>
        (failures = 0 => \A k \in Keys, l \in Nodes :
            Leased(k, l) => Version(digest'[l][k]) >= Version(digest[l][k]))
  BY <1>1
<1> QED
  BY <1>2, Invariance, PTL DEF Spec, LeaseholderNeverRegresses

(* A leaseholder never gives a version twice: its counter in the engine is *)
(* at least every version it gave, through failures between the increment *)
(* and the write, and through crashes (kv/counter.go, version.go).         *)
THEOREM VersionsAreUnique == Spec => VersionsNeverReused
<1>1. ASSUME IInv, [Next]_vars, NEW n \in Nodes, Len(persistQ'[n]) > Len(persistQ[n]),
             persistQ'[n][Len(persistQ'[n])].own,
             NEW op \in persistQ'[n][Len(persistQ'[n])].ops
      PROVE  op \notin written[op.key]
  <2>1. persistQ[n] \in Seq(Batches) /\ persistQ \in [Nodes -> Seq(Batches)]
    BY <1>1 DEF IInv, TypeOK
  <2>2. ASSUME NEW b \in Batches, NEW m \in Nodes,
               persistQ' = [persistQ EXCEPT ![m] = Append(persistQ[m], b)]
        PROVE  n = m /\ op \in b.ops /\ b.own
    <3>1. n = m
      BY <1>1, <2>1, <2>2
    <3> QED
      BY <1>1, <2>1, <2>2, <3>1, AppendFacts
  <2>3. ASSUME NEW r \in requests, Assign(r) PROVE op \notin written[op.key]
    <3> DEFINE m == r.leaseholder
               new == [key |-> r.key, version |-> counter[m] + 1, leaseholder |-> m]
               b == [ops |-> {new}, own |-> TRUE]
    <3>1. m \in Nodes /\ r.key \in Keys /\ counter[m] \in Nat /\ counter[m] + 1 \in 1 .. MaxVersion
      BY <1>1, <2>3, BoundAssumption DEF IInv, TypeOK, Assign, Delivered
    <3>2. b \in Batches /\ b.ops = {new}
      BY <3>1 DEF Batches, Ops, Versions
    <3>3. persistQ' = [persistQ EXCEPT ![m] = Append(persistQ[m], b)]
      BY <2>3 DEF Assign, Enqueue
    <3>4. op = new
      BY <2>2, <3>1, <3>2, <3>3
    <3>5. ASSUME op \in written[op.key] PROVE FALSE
      <4>1. op.version <= stored[m] /\ stored[m] <= counter[m] /\ stored[m] \in Nat
        BY <1>1, <3>1, <3>4, <3>5 DEF IInv, TypeOK, Counted
      <4> QED
        BY <3>1, <3>4, <4>1
    <3> QED
      BY <3>5
  <2>4. ASSUME NEW s \in syncs, Filter(s) PROVE FALSE
    <3> DEFINE b == [ops |-> {o \in s.ops : Accepts(s.to, o)}, own |-> FALSE]
    <3>1. s.to \in Nodes /\ b \in Batches /\ ~b.own
      BY <1>1 DEF IInv, TypeOK, Batches
    <3>2. persistQ' = persistQ \/ persistQ' = [persistQ EXCEPT ![s.to] = Append(persistQ[s.to], b)]
      BY <2>4 DEF Filter, Enqueue
    <3>3. CASE persistQ' = persistQ
      BY <1>1, <2>1, <3>3
    <3> HIDE DEF b
    <3> QED
      BY <2>2, <3>1, <3>2, <3>3
  <2>5. ASSUME NEW m \in Nodes, Persist(m) \/ PersistFails(m) \/ Crash(m) PROVE FALSE
    <3>1. persistQ'[n] = persistQ[n] \/ (persistQ[n] # <<>> /\ persistQ'[n] = Tail(persistQ[n]))
          \/ persistQ'[n] = <<>>
      BY <2>1, <2>5 DEF Persist, PersistFails, Crash
    <3> QED
      BY <1>1, <2>1, <3>1
  <2>6. CASE persistQ' = persistQ
    BY <1>1, <2>1, <2>6
  <2>7. CASE UNCHANGED vars
    BY <2>6, <2>7 DEF vars
  <2> QED
    BY <1>1, <2>3, <2>4, <2>5, <2>6, <2>7
    DEF Next, Commit, Open, Gossip, RecoverPeer, AssignFails, SendFails, ReceiveFeedback,
        CommitRecovery
<1>2. IInv /\ [Next]_vars =>
        \A n \in Nodes :
          Len(persistQ'[n]) > Len(persistQ[n]) =>
              LET b == persistQ'[n][Len(persistQ'[n])] IN
              b.own => \A op \in b.ops : op \notin written[op.key]
  BY <1>1
<1> QED
  BY <1>2, Invariance, PTL DEF Spec, VersionsNeverReused

=============================================================================
