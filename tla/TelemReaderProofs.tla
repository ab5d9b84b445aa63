-------------------------- MODULE TelemReaderProofs --------------------------
(***************************************************************************)
(* Proofs about TelemReader, for any reads, channels and time ranges and   *)
(* any number of failing requests, flushed buffers and collections.        *)
(***************************************************************************)
EXTENDS TelemReader, TLAPS

-----------------------------------------------------------------------------
(* The inductive invariant.                                                *)

(* A read only ever asks for what is its own.                              *)
Owned ==
    \A r \in Reads : Covered(gaps[r]) \subseteq Wanted(r) /\ Covered(current[r]) \subseteq Wanted(r)

(* A read has a request only while it waits, and gaps only until they have *)
(* been requested.                                                         *)
NothingLeft ==
    \A r \in Reads :
        /\ pc[r] # "waiting" => current[r] = {}
        /\ pc[r] \notin {"request", "waiting"} => gaps[r] = {}

(* Whatever a read wants and has not lost is in the cache, in its request  *)
(* or in its gaps.                                                         *)
Accounted ==
    \A r \in Reads \ lost :
        pc[r] \in {"request", "waiting", "reread"}
            => Wanted(r) \subseteq store \cup Covered(gaps[r]) \cup Covered(current[r])

(* A running batch has fetched, or will fetch, all that its requests ask   *)
(* for: none was added after it began.                                     *)
Fetching ==
    batch.run = "fetch" =>
        \A r \in Reads \ lost :
            pc[r] = "waiting" => Covered(current[r]) \subseteq Covered(batch.todo) \cup store

(* A batch fetches only channels that waiting reads ask for.               *)
KeysAsked ==
    \A f \in batch.todo : \A c \in f.keys : \E r \in Reads : pc[r] = "waiting" /\ c \in KeysOf[r]
KeysOwned == \A r \in Reads : \A f \in gaps[r] \cup current[r] : f.keys \subseteq KeysOf[r]
Solicited == KeysAsked /\ KeysOwned

(* Until the client is closed, a read past its retrieval has its entries,  *)
(* and any other has only those of channels that do not exist to miss.     *)
Entered ==
    ~closed =>
        \A r \in Reads :
            /\ pc[r] \in {"request", "waiting", "reread"} => KeysOf[r] \subseteq entries
            /\ pc[r] = "check" => KeysOf[r] \subseteq entries \cup unknown
            /\ pc[r] \in {"retrieve", "retrieving"}
                  => KeysOf[r] \subseteq entries \cup missing[r]

IInv ==
    /\ TypeOK /\ Owned /\ NothingLeft /\ Accounted /\ Fetching /\ Solicited
    /\ Entered /\ ResolvedReadsComplete /\ RejectedForCause

-----------------------------------------------------------------------------
(* Requests and what they cover.                                           *)

(* What a read wants is made of the channels and instants there are.       *)
LEMMA WantedType == \A r \in Reads : Wanted(r) \subseteq Channels \X Instants
BY DEF Wanted, Channels, Instants

(* It is the same whatever happens.                                        *)
LEMMA WantedSame == \A r : Wanted(r)' = Wanted(r)
BY DEF Wanted

LEMMA CoveredBy ==
  ASSUME NEW fs, NEW p
  PROVE  p \in Covered(fs) <=> \E f \in fs : p \in f.keys \X f.range
BY DEF Covered

LEMMA CoveredNone == Covered({}) = {}
BY DEF Covered

LEMMA CoveredWithout ==
  ASSUME NEW fs, NEW f
  PROVE  Covered(fs) \subseteq Covered(fs \ {f}) \cup (f.keys \X f.range)
<1> SUFFICES ASSUME NEW p \in Covered(fs), p \notin f.keys \X f.range
             PROVE  p \in Covered(fs \ {f})
  OBVIOUS
<1>1. PICK g \in fs : p \in g.keys \X g.range
  BY CoveredBy
<1>2. g \in fs \ {f}
  BY <1>1
<1> QED
  BY <1>1, <1>2, CoveredBy

LEMMA CoveredMore ==
  ASSUME NEW fs, NEW gs, fs \subseteq gs
  PROVE  Covered(fs) \subseteq Covered(gs)
BY DEF Covered

LEMMA CoveredOne ==
  ASSUME NEW f
  PROVE  Covered({f}) = f.keys \X f.range
BY DEF Covered

(* Grouping changes nothing of what is asked for.                          *)
LEMMA GroupedCovers ==
  ASSUME NEW fs \in SUBSET ToFetch
  PROVE  /\ Grouped(fs) \subseteq ToFetch /\ Covered(Grouped(fs)) = Covered(fs)
         /\ \A g \in Grouped(fs) : \A c \in g.keys : \E f \in fs : c \in f.keys
<1> DEFINE K(R) == UNION {f.keys : f \in {g \in fs : g.range = R}}
           G(R) == [range |-> R, keys |-> K(R)]
<1>1. Grouped(fs) = {G(R) : R \in {f.range : f \in fs}}
  BY DEF Grouped
<1>2. \A f \in fs : f.range \subseteq Instants /\ f.keys \subseteq Channels
  BY DEF ToFetch
<1>3. \A R : K(R) \subseteq Channels /\ \A c : c \in K(R) <=> \E f \in fs : f.range = R /\ c \in f.keys
  BY <1>2
<1>4. \A R : G(R).range = R /\ G(R).keys = K(R)
  OBVIOUS
<1>5. \A R \in SUBSET Instants : G(R) \in ToFetch
  BY <1>3 DEF ToFetch
<1> HIDE DEF G, K
<1>6. Grouped(fs) \subseteq ToFetch
  BY <1>1, <1>2, <1>5
<1>7. ASSUME NEW p \in Covered(fs) PROVE p \in Covered(Grouped(fs))
  <2>1. PICK f \in fs : p \in f.keys \X f.range
    BY CoveredBy
  <2>2. G(f.range) \in Grouped(fs) /\ p \in K(f.range) \X f.range
    BY <1>1, <1>3, <2>1
  <2> QED
    BY <1>4, <2>2, CoveredBy
<1>8. ASSUME NEW p \in Covered(Grouped(fs)) PROVE p \in Covered(fs)
  <2>1. PICK g \in Grouped(fs) : p \in g.keys \X g.range
    BY CoveredBy
  <2>2. PICK R \in {f.range : f \in fs} : g = G(R)
    BY <1>1
  <2>3. p \in K(R) \X R
    BY <1>4, <2>1, <2>2
  <2>4. PICK f \in fs : f.range = R /\ p[1] \in f.keys
    BY <1>3, <2>3
  <2>5. p \in f.keys \X f.range
    BY <2>3, <2>4
  <2> QED
    BY <2>5, CoveredBy
<1>9. \A g \in Grouped(fs) : \A c \in g.keys : \E f \in fs : c \in f.keys
  BY <1>1, <1>3, <1>4
<1> QED
  BY <1>6, <1>7, <1>8, <1>9

(* The stretches of a set of instants make it up.                          *)
LEMMA StretchesCover ==
  ASSUME NEW ts \in SUBSET Instants
  PROVE  /\ \A R \in Stretches(ts) : R \subseteq ts
         /\ \A t \in ts : \E R \in Stretches(ts) : t \in R
<1> DEFINE S(t) == {u \in ts : \A v \in Instants :
                       (t <= v /\ v <= u) \/ (u <= v /\ v <= t) => v \in ts}
<1>1. Stretches(ts) = {S(t) : t \in ts}
  BY DEF Stretches
<1>2. \A t \in ts : t \in S(t)
  BY ReaderAssumption
<1>3. \A t : S(t) \subseteq ts
  OBVIOUS
<1> HIDE DEF S
<1> QED
  BY <1>1, <1>2, <1>3

(* The gaps cover what is missing.                                         *)
LEMMA GapsCover ==
  ASSUME NEW ps \in SUBSET (Channels \X Instants)
  PROVE  /\ GapsIn(ps) \subseteq ToFetch /\ Covered(GapsIn(ps)) = ps
         /\ \A f \in GapsIn(ps) : \A c \in f.keys : \E t \in Instants : <<c, t>> \in ps
<1> DEFINE T(c) == {t \in Instants : <<c, t>> \in ps}
           Of(c, R) == [range |-> R, keys |-> {c}]
           fs == UNION {{Of(c, R) : R \in Stretches(T(c))} : c \in Channels}
<1>1. GapsIn(ps) = Grouped(fs)
  BY DEF GapsIn
<1>2. \A c, R : Of(c, R).range = R /\ Of(c, R).keys = {c}
  OBVIOUS
<1>a1. \A c : T(c) \in SUBSET Instants
  OBVIOUS
<1>a2. \A ts \in SUBSET Instants : /\ \A R \in Stretches(ts) : R \subseteq ts
                                   /\ \A t \in ts : \E R \in Stretches(ts) : t \in R
  BY StretchesCover
<1>3. \A c : \A R \in Stretches(T(c)) : R \subseteq T(c) /\ R \subseteq Instants
  BY <1>a1, <1>a2
<1>4. \A c : \A t \in T(c) : \E R \in Stretches(T(c)) : t \in R
  BY <1>a1, <1>a2
<1>5. \A c \in Channels : \A R \in SUBSET Instants : Of(c, R) \in ToFetch
  BY DEF ToFetch
<1>7. \A c, t : t \in T(c) <=> t \in Instants /\ <<c, t>> \in ps
  OBVIOUS
<1> HIDE DEF Of, T
<1>6. \A f : f \in fs <=> \E c \in Channels : \E R \in Stretches(T(c)) : f = Of(c, R)
  OBVIOUS
<1> HIDE DEF fs
<1>8. fs \in SUBSET ToFetch
  BY <1>3, <1>5, <1>6
<1>9. ASSUME NEW p \in ps PROVE p \in Covered(fs)
  <2>1. PICK c \in Channels, t \in Instants : p = <<c, t>>
    OBVIOUS
  <2>2. PICK R \in Stretches(T(c)) : t \in R
    BY <1>4, <1>7, <1>9, <2>1
  <2>3. Of(c, R) \in fs /\ p \in Of(c, R).keys \X Of(c, R).range
    BY <1>2, <1>6, <2>1, <2>2
  <2> QED
    BY <2>3, CoveredBy
<1>10. ASSUME NEW p \in Covered(fs) PROVE p \in ps
  <2>1. PICK f \in fs : p \in f.keys \X f.range
    BY CoveredBy
  <2>2. PICK c \in Channels : \E R \in Stretches(T(c)) : f = Of(c, R)
    BY <1>6, <2>1
  <2>3. PICK R \in Stretches(T(c)) : f = Of(c, R)
    BY <2>2
  <2>4. p \in {c} \X T(c)
    BY <1>2, <1>3, <2>1, <2>3
  <2> QED
    BY <1>7, <2>4
<1>11. \A f \in fs : \A c \in f.keys : \E t \in Instants : <<c, t>> \in ps
  <2> SUFFICES ASSUME NEW f \in fs, NEW c \in f.keys PROVE \E t \in Instants : <<c, t>> \in ps
    OBVIOUS
  <2>1. PICK b \in Channels : \E R \in Stretches(T(b)) : f = Of(b, R)
    BY <1>6
  <2>2. PICK R \in Stretches(T(b)) : f = Of(b, R)
    BY <2>1
  <2>3. c = b
    BY <1>2, <2>2
  <2>4. T(b) # {}
    BY <2>2 DEF Stretches
  <2> QED
    BY <1>7, <2>3, <2>4
<1>12. Covered(Grouped(fs)) = Covered(fs) /\ Grouped(fs) \subseteq ToFetch
       /\ \A g \in Grouped(fs) : \A c \in g.keys : \E f \in fs : c \in f.keys
  BY <1>8, GroupedCovers
<1> QED
  BY <1>1, <1>9, <1>10, <1>11, <1>12

-----------------------------------------------------------------------------
(* Every step.                                                             *)

(* The invariant holds when the client starts.                             *)
LEMMA InitIInv == Init => IInv
<1> SUFFICES ASSUME Init PROVE IInv
  OBVIOUS
<1>1. TypeOK
  <2>1. ret \in Batchers /\ batch \in Batchers
    BY DEF Init, Batcher, Batchers
  <2>2. /\ ret.requests = {r \in Reads : pc[r] = "retrieving"}
        /\ batch.requests = {r \in Reads : pc[r] = "waiting"}
    BY DEF Init, Batcher
  <2>3. /\ pc \in [Reads -> {"idle"}] /\ missing \in [Reads -> SUBSET Channels]
        /\ gaps \in [Reads -> SUBSET ToFetch]
        /\ current \in [Reads -> SUBSET ToFetch]
        /\ response \in [Reads -> SUBSET (Channels \X Instants)]
    BY DEF Init
  <2>4. /\ entries = {} /\ store = {} /\ lost = {} /\ unknown = {} /\ nested = {}
        /\ closed = FALSE /\ faults \in 0 .. MaxFaults /\ collected \in 0 .. MaxGC
        /\ flushed \in 0 .. MaxFlush
    BY ReaderAssumption DEF Init
  <2> QED
    BY <2>1, <2>2, <2>3, <2>4 DEF TypeOK
<1>2. Owned /\ NothingLeft /\ Accounted /\ Fetching
  BY CoveredNone DEF Init, Owned, NothingLeft, Accounted, Fetching, Batcher
<1>3. Solicited /\ Entered /\ RejectedForCause
  BY DEF Init, Solicited, KeysAsked, KeysOwned, Entered, RejectedForCause, Batcher
<1>4. ResolvedReadsComplete
  BY <1>1 DEF Init, ResolvedReadsComplete
<1> QED
  BY <1>1, <1>2, <1>3, <1>4 DEF IInv

(* What a write leaves in the cache.                                       *)
LEMMA WriteFacts ==
  ASSUME TypeOK, NEW ks \in SUBSET entries, NEW range \in SUBSET Instants, writeStatic(ks, range)
  PROVE  /\ nested \subseteq nested' /\ nested' \subseteq Channels
         /\ store' \subseteq entries \X Instants /\ ks \X range \subseteq store'
         /\ lost \subseteq lost' /\ lost' \subseteq Reads
         /\ \A r \in Reads \ lost' :
              pc[r] \in {"request", "waiting", "reread"} => Wanted(r) \cap store \subseteq store'
<1>1. nested' = nested \cup {c \in ks : Inside(c, range)}
  BY DEF writeStatic
<1>2. PICK gone : /\ gone \subseteq store
                  /\ store' = (store \ gone) \cup (ks \X range)
                  /\ lost' = lost \cup {r \in Active : Wanted(r) \cap gone # {}}
  BY DEF writeStatic
<1>3. \A r \in Reads : pc[r] \in {"request", "waiting", "reread"} => r \in Active
  BY DEF Active, Ended
<1>4. Active \subseteq Reads
  BY DEF Active
<1>5. \A r \in Reads \ lost' : r \in Active => Wanted(r) \cap gone = {}
  BY <1>2
<1>6. store' \subseteq entries \X Instants /\ ks \X range \subseteq store'
  BY <1>2 DEF TypeOK
<1> QED
  BY <1>1, <1>2, <1>3, <1>4, <1>5, <1>6 DEF TypeOK

(* A read begins.                                                          *)
LEMMA ReadStep == ASSUME IInv, NEW r \in Reads, read(r) PROVE IInv'
<1>1. TypeOK'
  <2>1. ret' \in Batchers /\ batch' \in Batchers
    BY DEF IInv, TypeOK, Batchers, read, bounds, history
  <2>2. /\ (ret.requests = {q \in Reads : pc[q] = "retrieving"})'
        /\ (batch.requests = {q \in Reads : pc[q] = "waiting"})'
    BY DEF IInv, TypeOK, Batchers, Ended, read, bounds, history
  <2> QED
    BY <2>1, <2>2, ReaderAssumption, WantedType
    DEF IInv, TypeOK, Ended, Channels, read, bounds, history
<1>2. Owned'
  BY DEF IInv, TypeOK, Owned, Wanted, read, bounds, history
<1>3. NothingLeft'
  BY DEF IInv, TypeOK, NothingLeft, read, bounds, history
<1>4. Accounted'
  BY DEF IInv, TypeOK, NothingLeft, Accounted, Wanted, read, bounds, history
<1>5. Fetching'
  BY DEF IInv, TypeOK, Batchers, NothingLeft, Fetching, read, bounds, history
<1>6. Solicited'
  BY DEF IInv, TypeOK, Batchers, NothingLeft, Solicited, KeysAsked, KeysOwned, read, bounds, history
<1>7. Entered'
  BY DEF IInv, TypeOK, Entered, read, bounds, history
<1>8. RejectedForCause'
  BY ReaderAssumption DEF IInv, TypeOK, Entered, RejectedForCause, read, bounds, history
<1>9. (\A q \in Reads : pc[q] = "resolved" /\ q \notin lost => response[q] = Wanted(q))'
  BY DEF IInv, TypeOK, NothingLeft, Accounted, ResolvedReadsComplete, Wanted, read, bounds, history
<1> QED
  BY <1>1, <1>2, <1>3, <1>4, <1>5, <1>6, <1>7, <1>8, <1>9 DEF IInv, ResolvedReadsComplete

(* A read joins the next retrieval.                                        *)
LEMMA RetrieveStep == ASSUME IInv, NEW r \in Reads, retrieve(r) PROVE IInv'
<1>1. TypeOK'
  <2>1. ret' \in Batchers /\ batch' \in Batchers
    BY DEF IInv, TypeOK, Batchers, retrieve, debounced, reading, bounds, history
  <2>2. /\ (ret.requests = {q \in Reads : pc[q] = "retrieving"})'
        /\ (batch.requests = {q \in Reads : pc[q] = "waiting"})'
    BY DEF IInv, TypeOK, Batchers, Ended, retrieve, debounced, reading, bounds, history
  <2> QED
    BY <2>1, <2>2, ReaderAssumption, WantedType
    DEF IInv, TypeOK, Ended, Channels, retrieve, debounced, reading, bounds, history
<1>2. Owned'
  BY DEF IInv, TypeOK, Owned, Wanted, retrieve, debounced, reading, bounds, history
<1>3. NothingLeft'
  BY DEF IInv, TypeOK, NothingLeft, retrieve, debounced, reading, bounds, history
<1>4. Accounted'
  BY DEF IInv, TypeOK, NothingLeft, Accounted, Wanted, retrieve, debounced, reading, bounds, history
<1>5. Fetching'
  BY DEF IInv, TypeOK, Batchers, NothingLeft, Fetching, retrieve, debounced, reading, bounds, history
<1>6. Solicited'
  BY DEF IInv, TypeOK, Batchers, NothingLeft, Solicited, KeysAsked, KeysOwned, retrieve, debounced, reading, bounds, history
<1>7. Entered'
  BY DEF IInv, TypeOK, Entered, retrieve, debounced, reading, bounds, history
<1>8. RejectedForCause'
  BY ReaderAssumption DEF IInv, TypeOK, Entered, RejectedForCause, retrieve, debounced, reading, bounds, history
<1>9. (\A q \in Reads : pc[q] = "resolved" /\ q \notin lost => response[q] = Wanted(q))'
  BY DEF IInv, TypeOK, NothingLeft, Accounted, ResolvedReadsComplete, Wanted, retrieve, debounced, reading, bounds, history
<1> QED
  BY <1>1, <1>2, <1>3, <1>4, <1>5, <1>6, <1>7, <1>8, <1>9 DEF IInv, ResolvedReadsComplete

(* The timer of the retriever fires.                                       *)
LEMMA RetrieveTimerStep == ASSUME IInv, RetrieveTimer PROVE IInv'
<1>1. TypeOK'
  <2>1. ret' \in Batchers /\ batch' \in Batchers
    BY DEF IInv, TypeOK, Batchers, RetrieveTimer, reading, bounds, history
  <2>2. /\ (ret.requests = {q \in Reads : pc[q] = "retrieving"})'
        /\ (batch.requests = {q \in Reads : pc[q] = "waiting"})'
    BY DEF IInv, TypeOK, Batchers, Ended, RetrieveTimer, reading, bounds, history
  <2> QED
    BY <2>1, <2>2, ReaderAssumption, WantedType
    DEF IInv, TypeOK, Ended, Channels, RetrieveTimer, reading, bounds, history
<1>2. Owned'
  BY DEF IInv, TypeOK, Owned, Wanted, RetrieveTimer, reading, bounds, history
<1>3. NothingLeft'
  BY DEF IInv, TypeOK, NothingLeft, RetrieveTimer, reading, bounds, history
<1>4. Accounted'
  BY DEF IInv, TypeOK, NothingLeft, Accounted, Wanted, RetrieveTimer, reading, bounds, history
<1>5. Fetching'
  BY DEF IInv, TypeOK, Batchers, NothingLeft, Fetching, RetrieveTimer, reading, bounds, history
<1>6. Solicited'
  BY DEF IInv, TypeOK, Batchers, NothingLeft, Solicited, KeysAsked, KeysOwned, RetrieveTimer, reading, bounds, history
<1>7. Entered'
  BY DEF IInv, TypeOK, Entered, RetrieveTimer, reading, bounds, history
<1>8. RejectedForCause'
  BY ReaderAssumption DEF IInv, TypeOK, Entered, RejectedForCause, RetrieveTimer, reading, bounds, history
<1>9. (\A q \in Reads : pc[q] = "resolved" /\ q \notin lost => response[q] = Wanted(q))'
  BY DEF IInv, TypeOK, NothingLeft, Accounted, ResolvedReadsComplete, Wanted, RetrieveTimer, reading, bounds, history
<1> QED
  BY <1>1, <1>2, <1>3, <1>4, <1>5, <1>6, <1>7, <1>8, <1>9 DEF IInv, ResolvedReadsComplete

(* A retrieval begins.                                                     *)
LEMMA RetrieveBeginsStep == ASSUME IInv, RetrieveBegins PROVE IInv'
<1>1. TypeOK'
  <2>1. ret' \in Batchers /\ batch' \in Batchers
    BY DEF IInv, TypeOK, Batchers, RetrieveBegins, reading, bounds, history
  <2>2. /\ (ret.requests = {q \in Reads : pc[q] = "retrieving"})'
        /\ (batch.requests = {q \in Reads : pc[q] = "waiting"})'
    BY DEF IInv, TypeOK, Batchers, Ended, RetrieveBegins, reading, bounds, history
  <2> QED
    BY <2>1, <2>2, ReaderAssumption, WantedType
    DEF IInv, TypeOK, Ended, Channels, RetrieveBegins, reading, bounds, history
<1>2. Owned'
  BY DEF IInv, TypeOK, Owned, Wanted, RetrieveBegins, reading, bounds, history
<1>3. NothingLeft'
  BY DEF IInv, TypeOK, NothingLeft, RetrieveBegins, reading, bounds, history
<1>4. Accounted'
  BY DEF IInv, TypeOK, NothingLeft, Accounted, Wanted, RetrieveBegins, reading, bounds, history
<1>5. Fetching'
  BY DEF IInv, TypeOK, Batchers, NothingLeft, Fetching, RetrieveBegins, reading, bounds, history
<1>6. Solicited'
  BY DEF IInv, TypeOK, Batchers, NothingLeft, Solicited, KeysAsked, KeysOwned, RetrieveBegins, reading, bounds, history
<1>7. Entered'
  BY DEF IInv, TypeOK, Entered, RetrieveBegins, reading, bounds, history
<1>8. RejectedForCause'
  BY ReaderAssumption DEF IInv, TypeOK, Entered, RejectedForCause, RetrieveBegins, reading, bounds, history
<1>9. (\A q \in Reads : pc[q] = "resolved" /\ q \notin lost => response[q] = Wanted(q))'
  BY DEF IInv, TypeOK, NothingLeft, Accounted, ResolvedReadsComplete, Wanted, RetrieveBegins, reading, bounds, history
<1> QED
  BY <1>1, <1>2, <1>3, <1>4, <1>5, <1>6, <1>7, <1>8, <1>9 DEF IInv, ResolvedReadsComplete

(* A retrieval ends: its reads have the entries that came back.            *)
LEMMA RetrieveEndsStep == ASSUME IInv, RetrieveEnds PROVE IInv'
<1>1. TypeOK'
  <2>1. ret' \in Batchers /\ batch' \in Batchers
    BY DEF IInv, TypeOK, Batchers, RetrieveEnds, Done, bounds
  <2>2. /\ (ret.requests = {q \in Reads : pc[q] = "retrieving"})'
        /\ (batch.requests = {q \in Reads : pc[q] = "waiting"})'
    BY DEF IInv, TypeOK, Batchers, Ended, RetrieveEnds, Done, bounds
  <2> QED
    BY <2>1, <2>2, ReaderAssumption, WantedType
    DEF IInv, TypeOK, Ended, Channels, RetrieveEnds, Done, bounds
<1>2. Owned'
  BY DEF IInv, TypeOK, Owned, Wanted, RetrieveEnds, Done, bounds
<1>3. NothingLeft'
  BY DEF IInv, TypeOK, NothingLeft, RetrieveEnds, Done, bounds
<1>4. Accounted'
  BY DEF IInv, TypeOK, NothingLeft, Accounted, Wanted, RetrieveEnds, Done, bounds
<1>5. Fetching'
  BY DEF IInv, TypeOK, Batchers, NothingLeft, Fetching, RetrieveEnds, Done, bounds
<1>6. Solicited'
  BY DEF IInv, TypeOK, Batchers, NothingLeft, Solicited, KeysAsked, KeysOwned, RetrieveEnds, Done, bounds
<1>7. Entered'
  BY DEF IInv, TypeOK, Entered, RetrieveEnds, Done, bounds
<1>8. RejectedForCause'
  BY ReaderAssumption DEF IInv, TypeOK, Entered, RejectedForCause, RetrieveEnds, Done, bounds
<1>9. (\A q \in Reads : pc[q] = "resolved" /\ q \notin lost => response[q] = Wanted(q))'
  BY DEF IInv, TypeOK, NothingLeft, Accounted, ResolvedReadsComplete, Wanted, RetrieveEnds, Done, bounds
<1> QED
  BY <1>1, <1>2, <1>3, <1>4, <1>5, <1>6, <1>7, <1>8, <1>9 DEF IInv, ResolvedReadsComplete

(* A retrieval fails, for which there is a fault.                          *)
LEMMA RetrieveFailsStep == ASSUME IInv, RetrieveFails PROVE IInv'
<1>1. TypeOK'
  <2>1. ret' \in Batchers /\ batch' \in Batchers
    BY DEF IInv, TypeOK, Batchers, RetrieveFails, Done, history
  <2>2. /\ (ret.requests = {q \in Reads : pc[q] = "retrieving"})'
        /\ (batch.requests = {q \in Reads : pc[q] = "waiting"})'
    BY DEF IInv, TypeOK, Batchers, Ended, RetrieveFails, Done, history
  <2> QED
    BY <2>1, <2>2, ReaderAssumption, WantedType
    DEF IInv, TypeOK, Ended, Channels, RetrieveFails, Done, history
<1>2. Owned'
  BY DEF IInv, TypeOK, Owned, Wanted, RetrieveFails, Done, history
<1>3. NothingLeft'
  BY DEF IInv, TypeOK, NothingLeft, RetrieveFails, Done, history
<1>4. Accounted'
  BY DEF IInv, TypeOK, NothingLeft, Accounted, Wanted, RetrieveFails, Done, history
<1>5. Fetching'
  BY DEF IInv, TypeOK, Batchers, NothingLeft, Fetching, RetrieveFails, Done, history
<1>6. Solicited'
  BY DEF IInv, TypeOK, Batchers, NothingLeft, Solicited, KeysAsked, KeysOwned, RetrieveFails, Done, history
<1>7. Entered'
  BY DEF IInv, TypeOK, Entered, RetrieveFails, Done, history
<1>8. RejectedForCause'
  BY ReaderAssumption DEF IInv, TypeOK, Entered, RejectedForCause, RetrieveFails, Done, history
<1>9. (\A q \in Reads : pc[q] = "resolved" /\ q \notin lost => response[q] = Wanted(q))'
  BY DEF IInv, TypeOK, NothingLeft, Accounted, ResolvedReadsComplete, Wanted, RetrieveFails, Done, history
<1> QED
  BY <1>1, <1>2, <1>3, <1>4, <1>5, <1>6, <1>7, <1>8, <1>9 DEF IInv, ResolvedReadsComplete

(* A read looks for its gaps.                                              *)
LEMMA CheckCacheStep == ASSUME IInv, NEW r \in Reads, CheckCache(r) PROVE IInv'
<1>a1. /\ gaps' \in [Reads -> SUBSET ToFetch]
       /\ \A q \in Reads \ {r} : gaps'[q] = gaps[q]
       /\ Covered(gaps'[r]) \subseteq Wanted(r)
       /\ \A f \in gaps'[r] : f.keys \subseteq KeysOf[r]
       /\ pc'[r] = "request" => Wanted(r) \subseteq store \cup Covered(gaps'[r])
  <2>1. gaps[r] = {}
    BY DEF IInv, NothingLeft, CheckCache
  <2>2. CASE UNCHANGED gaps /\ pc'[r] # "request"
    BY <2>1, <2>2, CoveredNone DEF IInv, TypeOK
  <2>3. CASE \E found \in SUBSET Wanted(r) :
                /\ Wanted(r) \ store \subseteq found
                /\ gaps' = [gaps EXCEPT ![r] = GapsIn(found)]
    <3> PICK found \in SUBSET Wanted(r) : /\ Wanted(r) \ store \subseteq found
                                          /\ gaps' = [gaps EXCEPT ![r] = GapsIn(found)]
      BY <2>3
    <3>1. found \in SUBSET (Channels \X Instants)
      BY WantedType
    <3>2. /\ GapsIn(found) \subseteq ToFetch /\ Covered(GapsIn(found)) = found
          /\ \A f \in GapsIn(found) : \A c \in f.keys : \E t \in Instants : <<c, t>> \in found
      BY <3>1, GapsCover
    <3>3. \A c, t : <<c, t>> \in found => c \in KeysOf[r]
      BY DEF Wanted
    <3>4. gaps'[r] = GapsIn(found)
      BY DEF IInv, TypeOK
    <3> QED
      BY <3>2, <3>3, <3>4 DEF IInv, TypeOK
  <2> QED
    BY <2>2, <2>3 DEF IInv, TypeOK, CheckCache
<1>1. TypeOK'
  <2>1. ret' \in Batchers /\ batch' \in Batchers
    BY DEF IInv, TypeOK, CheckCache, bounds, history
  <2>2. /\ (ret.requests = {q \in Reads : pc[q] = "retrieving"})'
        /\ (batch.requests = {q \in Reads : pc[q] = "waiting"})'
    BY DEF IInv, TypeOK, Batchers, Ended, CheckCache, bounds, history
  <2>3. response' \in [Reads -> SUBSET (Channels \X Instants)]
    BY WantedType DEF IInv, TypeOK, CheckCache
  <2>4. pc' \in [Reads -> {"idle", "retrieve", "retrieving", "check", "request",
                           "waiting", "reread"} \cup Ended]
    BY DEF IInv, TypeOK, CheckCache, Ended
  <2> QED
    BY <1>a1, <2>1, <2>2, <2>3, <2>4 DEF IInv, TypeOK, CheckCache, bounds, history
<1>2. Owned'
  BY <1>a1, WantedSame DEF IInv, Owned, CheckCache
<1>3. NothingLeft'
  BY DEF IInv, TypeOK, NothingLeft, CheckCache, bounds, history
<1>4. Accounted'
  <2>1. pc'[r] \in {"rejected", "resolved", "request"} /\ \A q \in Reads \ {r} : pc'[q] = pc[q]
    BY DEF IInv, TypeOK, CheckCache
  <2> QED
    BY <1>a1, <2>1, WantedSame DEF IInv, Accounted, CheckCache, history
<1>5. Fetching'
  BY DEF IInv, TypeOK, Batchers, NothingLeft, Fetching, CheckCache, bounds, history
<1>6. Solicited'
  <2>1. KeysOwned'
    BY <1>a1 DEF IInv, Solicited, KeysOwned, CheckCache
  <2>2. KeysAsked'
    BY DEF IInv, TypeOK, Solicited, KeysAsked, CheckCache
  <2> QED
    BY <2>1, <2>2 DEF Solicited
<1>7. Entered'
  BY DEF IInv, TypeOK, Entered, CheckCache, bounds, history
<1>8. RejectedForCause'
  BY ReaderAssumption DEF IInv, TypeOK, Entered, RejectedForCause, CheckCache, bounds, history
<1>9. (\A q \in Reads : pc[q] = "resolved" /\ q \notin lost => response[q] = Wanted(q))'
  BY DEF IInv, TypeOK, NothingLeft, Accounted, ResolvedReadsComplete, Wanted, CheckCache, bounds, history
<1> QED
  BY <1>1, <1>2, <1>3, <1>4, <1>5, <1>6, <1>7, <1>8, <1>9 DEF IInv, ResolvedReadsComplete

(* A read asks for a range while no batch runs.                            *)
LEMMA RequestStep == ASSUME IInv, NEW r \in Reads, Request(r) PROVE IInv'
<1>a1. PICK f \in gaps[r] : /\ current' = [current EXCEPT ![r] = {f}]
                          /\ gaps' = [gaps EXCEPT ![r] = @ \ {f}]
  BY DEF Request
<1>a2. /\ Covered(gaps[r] \ {f}) \subseteq Covered(gaps[r])
       /\ Covered({f}) \subseteq Covered(gaps[r])
       /\ Covered(gaps[r]) \subseteq Covered(gaps[r] \ {f}) \cup Covered({f})
  BY <1>a1, CoveredMore, CoveredOne, CoveredWithout
<1>1. TypeOK'
  <2>1. ret' \in Batchers /\ batch' \in Batchers
    BY DEF IInv, TypeOK, Batchers, Request, debounced, bounds, history
  <2>2. /\ (ret.requests = {q \in Reads : pc[q] = "retrieving"})'
        /\ (batch.requests = {q \in Reads : pc[q] = "waiting"})'
    BY DEF IInv, TypeOK, Batchers, Ended, Request, debounced, bounds, history
  <2> QED
    BY <2>1, <2>2, ReaderAssumption, WantedType
    DEF IInv, TypeOK, Ended, Channels, Request, debounced, bounds, history
<1>2. Owned'
  BY <1>a1, <1>a2, WantedSame DEF IInv, TypeOK, Owned
<1>3. NothingLeft'
  BY DEF IInv, TypeOK, NothingLeft, Request, debounced, bounds, history
<1>4. Accounted'
  <2>1. pc[r] = "request" /\ pc'[r] = "waiting" /\ \A q \in Reads \ {r} : pc'[q] = pc[q]
    BY DEF IInv, TypeOK, Request
  <2>2. /\ gaps'[r] = gaps[r] \ {f} /\ current'[r] = {f}
        /\ \A q \in Reads \ {r} : gaps'[q] = gaps[q] /\ current'[q] = current[q]
    BY <1>a1 DEF IInv, TypeOK
  <2>3. store' = store /\ lost' = lost
    BY DEF Request, history
  <2>4. Covered(current[r]) = {}
    BY <2>1, CoveredNone DEF IInv, NothingLeft
  <2> QED
    BY <1>a2, <2>1, <2>2, <2>3, <2>4, WantedSame DEF IInv, Accounted
<1>5. Fetching'
  BY DEF IInv, TypeOK, Batchers, NothingLeft, Fetching, Request, debounced, bounds, history
<1>6. Solicited'
  BY DEF IInv, TypeOK, Batchers, NothingLeft, Solicited, KeysAsked, KeysOwned, Request, debounced, bounds, history
<1>7. Entered'
  BY DEF IInv, TypeOK, Entered, Request, debounced, bounds, history
<1>8. RejectedForCause'
  BY ReaderAssumption DEF IInv, TypeOK, Entered, RejectedForCause, Request, debounced, bounds, history
<1>9. (\A q \in Reads : pc[q] = "resolved" /\ q \notin lost => response[q] = Wanted(q))'
  BY DEF IInv, TypeOK, NothingLeft, Accounted, ResolvedReadsComplete, Wanted, Request, debounced, bounds, history
<1> QED
  BY <1>1, <1>2, <1>3, <1>4, <1>5, <1>6, <1>7, <1>8, <1>9 DEF IInv, ResolvedReadsComplete

(* The timer of the reader fires.                                          *)
LEMMA BatchTimerStep == ASSUME IInv, BatchTimer PROVE IInv'
<1>1. TypeOK'
  <2>1. ret' \in Batchers /\ batch' \in Batchers
    BY DEF IInv, TypeOK, Batchers, BatchTimer, reading, bounds, history
  <2>2. /\ (ret.requests = {q \in Reads : pc[q] = "retrieving"})'
        /\ (batch.requests = {q \in Reads : pc[q] = "waiting"})'
    BY DEF IInv, TypeOK, Batchers, Ended, BatchTimer, reading, bounds, history
  <2> QED
    BY <2>1, <2>2, ReaderAssumption, WantedType
    DEF IInv, TypeOK, Ended, Channels, BatchTimer, reading, bounds, history
<1>2. Owned'
  BY DEF IInv, TypeOK, Owned, Wanted, BatchTimer, reading, bounds, history
<1>3. NothingLeft'
  BY DEF IInv, TypeOK, NothingLeft, BatchTimer, reading, bounds, history
<1>4. Accounted'
  BY DEF IInv, TypeOK, NothingLeft, Accounted, Wanted, BatchTimer, reading, bounds, history
<1>5. Fetching'
  BY DEF IInv, TypeOK, Batchers, NothingLeft, Fetching, BatchTimer, reading, bounds, history
<1>6. Solicited'
  BY DEF IInv, TypeOK, Batchers, NothingLeft, Solicited, KeysAsked, KeysOwned, BatchTimer, reading, bounds, history
<1>7. Entered'
  BY DEF IInv, TypeOK, Entered, BatchTimer, reading, bounds, history
<1>8. RejectedForCause'
  BY ReaderAssumption DEF IInv, TypeOK, Entered, RejectedForCause, BatchTimer, reading, bounds, history
<1>9. (\A q \in Reads : pc[q] = "resolved" /\ q \notin lost => response[q] = Wanted(q))'
  BY DEF IInv, TypeOK, NothingLeft, Accounted, ResolvedReadsComplete, Wanted, BatchTimer, reading, bounds, history
<1> QED
  BY <1>1, <1>2, <1>3, <1>4, <1>5, <1>6, <1>7, <1>8, <1>9 DEF IInv, ResolvedReadsComplete

(* A batch begins with all requests there are.                             *)
LEMMA BatchBeginsStep == ASSUME IInv, BatchBegins PROVE IInv'
<1>a1. /\ batch'.todo \in SUBSET ToFetch
       /\ \A q \in Reads : pc[q] = "waiting" => Covered(current[q]) \subseteq Covered(batch'.todo)
       /\ \A g \in batch'.todo : \A c \in g.keys :
             \E q \in Reads : pc[q] = "waiting" /\ c \in KeysOf[q]
  <2> DEFINE asked == UNION {current[q] : q \in batch.requests}
  <2>1. batch'.todo = Grouped(asked)
    BY DEF IInv, TypeOK, Batchers, BatchBegins
  <2>2. \A f : f \in asked <=> \E q \in Reads : pc[q] = "waiting" /\ f \in current[q]
    BY DEF IInv, TypeOK
  <2> HIDE DEF asked
  <2>3. asked \in SUBSET ToFetch
    BY <2>2 DEF IInv, TypeOK
  <2>4. \A q \in Reads : pc[q] = "waiting" => Covered(current[q]) \subseteq Covered(asked)
    BY <2>2, CoveredMore
  <2>5. /\ Grouped(asked) \subseteq ToFetch /\ Covered(Grouped(asked)) = Covered(asked)
        /\ \A g \in Grouped(asked) : \A c \in g.keys : \E f \in asked : c \in f.keys
    BY <2>3, GroupedCovers
  <2>6. \A f \in asked : \A c \in f.keys : \E q \in Reads : pc[q] = "waiting" /\ c \in KeysOf[q]
    BY <2>2 DEF IInv, Solicited, KeysOwned
  <2> QED
    BY <2>1, <2>4, <2>5, <2>6
<1>1. TypeOK'
  <2>1. ret' \in Batchers /\ batch' \in Batchers
    BY <1>a1 DEF IInv, TypeOK, Batchers, BatchBegins
  <2>2. /\ (ret.requests = {q \in Reads : pc[q] = "retrieving"})'
        /\ (batch.requests = {q \in Reads : pc[q] = "waiting"})'
    BY DEF IInv, TypeOK, Batchers, BatchBegins
  <2> QED
    BY <2>1, <2>2 DEF IInv, TypeOK, BatchBegins, reading, bounds, history
<1>2. Owned'
  BY DEF IInv, TypeOK, Owned, Wanted, BatchBegins, reading, bounds, history
<1>3. NothingLeft'
  BY DEF IInv, TypeOK, NothingLeft, BatchBegins, reading, bounds, history
<1>4. Accounted'
  BY DEF IInv, TypeOK, NothingLeft, Accounted, Wanted, BatchBegins, reading, bounds, history
<1>5. Fetching'
  BY <1>a1 DEF IInv, Fetching, BatchBegins, reading, history
<1>6. Solicited'
  BY <1>a1 DEF IInv, Solicited, KeysAsked, KeysOwned, BatchBegins, reading
<1>7. Entered'
  BY DEF IInv, TypeOK, Entered, BatchBegins, reading, bounds, history
<1>8. RejectedForCause'
  BY ReaderAssumption DEF IInv, TypeOK, Entered, RejectedForCause, BatchBegins, reading, bounds, history
<1>9. (\A q \in Reads : pc[q] = "resolved" /\ q \notin lost => response[q] = Wanted(q))'
  BY DEF IInv, TypeOK, NothingLeft, Accounted, ResolvedReadsComplete, Wanted, BatchBegins, reading, bounds, history
<1> QED
  BY <1>1, <1>2, <1>3, <1>4, <1>5, <1>6, <1>7, <1>8, <1>9 DEF IInv, ResolvedReadsComplete

(* An answer goes from what is to be fetched to the cache.                 *)
LEMMA BatchFetchedStep == ASSUME IInv, BatchFetched PROVE IInv'
<1>a1. PICK f \in batch.todo : /\ f.keys \subseteq entries
                             /\ writeStatic(f.keys, f.range)
                             /\ batch' = [batch EXCEPT !.todo = @ \ {f}]
  BY DEF BatchFetched
<1>a2. /\ nested \subseteq nested' /\ nested' \subseteq Channels
       /\ store' \subseteq entries \X Instants /\ f.keys \X f.range \subseteq store'
       /\ lost \subseteq lost' /\ lost' \subseteq Reads
       /\ \A q \in Reads \ lost' :
             pc[q] \in {"request", "waiting", "reread"} => Wanted(q) \cap store \subseteq store'
  <2>1. f.range \in SUBSET Instants
    BY DEF IInv, TypeOK, Batchers, ToFetch
  <2> QED
    BY <1>a1, <2>1, WriteFacts DEF IInv
<1>1. TypeOK'
  <2>1. ret' \in Batchers /\ batch' \in Batchers
    BY <1>a1 DEF IInv, TypeOK, Batchers, BatchFetched
  <2>2. /\ (ret.requests = {q \in Reads : pc[q] = "retrieving"})'
        /\ (batch.requests = {q \in Reads : pc[q] = "waiting"})'
    BY <1>a1 DEF IInv, TypeOK, Batchers, BatchFetched
  <2> QED
    BY <1>a2, <2>1, <2>2 DEF IInv, TypeOK, BatchFetched, reading, bounds
<1>2. Owned'
  BY DEF IInv, TypeOK, Owned, Wanted, BatchFetched, reading, bounds
<1>3. NothingLeft'
  BY DEF IInv, TypeOK, NothingLeft, BatchFetched, reading, bounds
<1>4. Accounted'
  BY <1>a2, WantedSame DEF IInv, Accounted, BatchFetched, reading
<1>5. Fetching'
  <2>1. batch'.todo = batch.todo \ {f}
    BY <1>a1 DEF IInv, TypeOK, Batchers
  <2>2. Covered(batch.todo) \subseteq Covered(batch'.todo) \cup store'
    BY <1>a2, <2>1, CoveredWithout
  <2>3. \A q \in Reads : Covered(current[q]) \subseteq Wanted(q)
    BY DEF IInv, Owned
  <2> QED
    BY <1>a2, <2>2, <2>3 DEF IInv, Fetching, BatchFetched, reading
<1>6. Solicited'
  BY DEF IInv, TypeOK, Batchers, NothingLeft, Solicited, KeysAsked, KeysOwned, BatchFetched, reading, bounds
<1>7. Entered'
  BY DEF IInv, TypeOK, Entered, BatchFetched, reading, bounds
<1>8. RejectedForCause'
  BY <1>a2 DEF IInv, RejectedForCause, BatchFetched, bounds
<1>9. (\A q \in Reads : pc[q] = "resolved" /\ q \notin lost => response[q] = Wanted(q))'
  BY <1>a2, WantedSame DEF IInv, ResolvedReadsComplete, BatchFetched, reading
<1> QED
  BY <1>1, <1>2, <1>3, <1>4, <1>5, <1>6, <1>7, <1>8, <1>9 DEF IInv, ResolvedReadsComplete

(* A batch that has fetched everything resolves its requests.              *)
LEMMA BatchEndsStep == ASSUME IInv, BatchEnds PROVE IInv'
<1>a1. \A q \in Reads : IF pc[q] = "waiting" THEN Covered(current'[q]) = {}
                                             ELSE current'[q] = current[q]
  BY CoveredNone DEF IInv, TypeOK, BatchEnds, Done
<1>1. TypeOK'
  <2>1. ret' \in Batchers /\ batch' \in Batchers
    BY DEF IInv, TypeOK, Batchers, BatchEnds, EndRequests, Done, bounds, history
  <2>2. /\ (ret.requests = {q \in Reads : pc[q] = "retrieving"})'
        /\ (batch.requests = {q \in Reads : pc[q] = "waiting"})'
    BY DEF IInv, TypeOK, Batchers, Ended, BatchEnds, EndRequests, Done, bounds, history
  <2> QED
    BY <2>1, <2>2, ReaderAssumption, WantedType
    DEF IInv, TypeOK, Ended, Channels, BatchEnds, EndRequests, Done, bounds, history
<1>2. Owned'
  BY <1>a1, WantedSame DEF IInv, Owned, BatchEnds
<1>3. NothingLeft'
  BY DEF IInv, TypeOK, NothingLeft, BatchEnds, EndRequests, Done, bounds, history
<1>4. Accounted'
  <2>1. \A q \in Reads : pc[q] = "waiting" /\ q \notin lost => Covered(current[q]) \subseteq store
    BY CoveredNone DEF IInv, Fetching, BatchEnds
  <2>2. \A q \in Reads : pc'[q] \in {"request", "waiting", "reread"}
                            => pc[q] \in {"request", "waiting", "reread"}
    BY DEF IInv, TypeOK, BatchEnds, EndRequests
  <2> QED
    BY <1>a1, <2>1, <2>2, WantedSame DEF IInv, Accounted, BatchEnds, history
<1>5. Fetching'
  BY DEF IInv, TypeOK, Batchers, NothingLeft, Fetching, BatchEnds, EndRequests, Done, bounds, history
<1>6. Solicited'
  BY DEF IInv, TypeOK, Batchers, NothingLeft, Solicited, KeysAsked, KeysOwned, BatchEnds, EndRequests, Done, bounds, history
<1>7. Entered'
  BY DEF IInv, TypeOK, Entered, BatchEnds, EndRequests, Done, bounds, history
<1>8. RejectedForCause'
  BY ReaderAssumption DEF IInv, TypeOK, Entered, RejectedForCause, BatchEnds, EndRequests, Done, bounds, history
<1>9. (\A q \in Reads : pc[q] = "resolved" /\ q \notin lost => response[q] = Wanted(q))'
  BY DEF IInv, TypeOK, NothingLeft, Accounted, ResolvedReadsComplete, Wanted, BatchEnds, EndRequests, Done, bounds, history
<1> QED
  BY <1>1, <1>2, <1>3, <1>4, <1>5, <1>6, <1>7, <1>8, <1>9 DEF IInv, ResolvedReadsComplete

(* A fetch of the batch fails, for which there is a fault.                 *)
LEMMA BatchFailsStep == ASSUME IInv, BatchFails PROVE IInv'
<1>a1. \A q \in Reads : IF pc[q] = "waiting"
                         THEN Covered(gaps'[q]) = {} /\ Covered(current'[q]) = {}
                         ELSE gaps'[q] = gaps[q] /\ current'[q] = current[q]
  BY CoveredNone DEF IInv, TypeOK, BatchFails, RejectBatch, Done
<1>1. TypeOK'
  <2>1. ret' \in Batchers /\ batch' \in Batchers
    BY DEF IInv, TypeOK, Batchers, BatchFails, RejectBatch, Done
  <2>2. /\ (ret.requests = {q \in Reads : pc[q] = "retrieving"})'
        /\ (batch.requests = {q \in Reads : pc[q] = "waiting"})'
    BY DEF IInv, TypeOK, Batchers, Ended, BatchFails, RejectBatch, Done
  <2> QED
    BY <2>1, <2>2, ReaderAssumption, WantedType
    DEF IInv, TypeOK, Ended, Channels, BatchFails, RejectBatch, Done
<1>2. Owned'
  BY <1>a1, WantedSame DEF IInv, Owned
<1>3. NothingLeft'
  BY DEF IInv, TypeOK, NothingLeft, BatchFails, RejectBatch, Done
<1>4. Accounted'
  BY DEF IInv, TypeOK, NothingLeft, Accounted, Wanted, BatchFails, RejectBatch, Done
<1>5. Fetching'
  BY DEF IInv, TypeOK, Batchers, NothingLeft, Fetching, BatchFails, RejectBatch, Done
<1>6. Solicited'
  BY DEF IInv, TypeOK, Batchers, NothingLeft, Solicited, KeysAsked, KeysOwned, BatchFails, RejectBatch, Done
<1>7. Entered'
  BY DEF IInv, TypeOK, Entered, BatchFails, RejectBatch, Done
<1>8. RejectedForCause'
  BY ReaderAssumption DEF IInv, TypeOK, Entered, RejectedForCause, BatchFails, RejectBatch, Done
<1>9. (\A q \in Reads : pc[q] = "resolved" /\ q \notin lost => response[q] = Wanted(q))'
  BY DEF IInv, TypeOK, NothingLeft, Accounted, ResolvedReadsComplete, Wanted, BatchFails, RejectBatch, Done
<1> QED
  BY <1>1, <1>2, <1>3, <1>4, <1>5, <1>6, <1>7, <1>8, <1>9 DEF IInv, ResolvedReadsComplete

(* A write of the batch throws, as the client is closed or ranges nest.    *)
LEMMA BatchWriteThrowsStep == ASSUME IInv, BatchWriteThrows PROVE IInv'
<1>a1. \A q \in Reads : IF pc[q] = "waiting"
                         THEN Covered(gaps'[q]) = {} /\ Covered(current'[q]) = {}
                         ELSE gaps'[q] = gaps[q] /\ current'[q] = current[q]
  BY CoveredNone DEF IInv, TypeOK, BatchWriteThrows, RejectBatch, Done
<1>a2. PICK f \in batch.todo, ks \in SUBSET entries :
          /\ writeStatic(ks, f.range)
          /\ ~ f.keys \subseteq entries \/ ks \cap nested' # {}
  BY DEF BatchWriteThrows
<1>a3. /\ nested \subseteq nested' /\ nested' \subseteq Channels
       /\ store' \subseteq entries \X Instants /\ ks \X f.range \subseteq store'
       /\ lost \subseteq lost' /\ lost' \subseteq Reads
       /\ \A q \in Reads \ lost' :
             pc[q] \in {"request", "waiting", "reread"} => Wanted(q) \cap store \subseteq store'
  <2>1. f.range \in SUBSET Instants
    BY DEF IInv, TypeOK, Batchers, ToFetch
  <2> QED
    BY <1>a2, <2>1, WriteFacts DEF IInv
<1>1. TypeOK'
  <2>1. ret' \in Batchers /\ batch' \in Batchers
    BY DEF IInv, TypeOK, Batchers, BatchWriteThrows, RejectBatch
  <2>2. /\ (ret.requests = {q \in Reads : pc[q] = "retrieving"})'
        /\ (batch.requests = {q \in Reads : pc[q] = "waiting"})'
    BY DEF IInv, TypeOK, Batchers, Ended, BatchWriteThrows, RejectBatch
  <2> QED
    BY <1>a3, <2>1, <2>2
    DEF IInv, TypeOK, Ended, BatchWriteThrows, RejectBatch, Done
<1>2. Owned'
  BY <1>a1, WantedSame DEF IInv, Owned
<1>3. NothingLeft'
  BY DEF IInv, TypeOK, NothingLeft, BatchWriteThrows, RejectBatch, Done
<1>4. Accounted'
  <2>1. \A q \in Reads : pc'[q] \in {"request", "waiting", "reread"}
                            => pc[q] # "waiting" /\ pc'[q] = pc[q]
    BY DEF IInv, TypeOK, BatchWriteThrows, RejectBatch
  <2> QED
    BY <1>a1, <1>a3, <2>1, WantedSame DEF IInv, Accounted
<1>5. Fetching'
  BY DEF IInv, TypeOK, Batchers, NothingLeft, Fetching, BatchWriteThrows, RejectBatch, Done
<1>6. Solicited'
  BY DEF IInv, TypeOK, Batchers, NothingLeft, Solicited, KeysAsked, KeysOwned, BatchWriteThrows, RejectBatch, Done
<1>7. Entered'
  BY DEF IInv, TypeOK, Entered, BatchWriteThrows, RejectBatch, Done
<1>8. RejectedForCause'
  <2>1. closed \/ nested' # {}
    <3>1. CASE ~ f.keys \subseteq entries
      <4>1. PICK c \in f.keys : c \notin entries
        BY <3>1
      <4>2. PICK q \in Reads : pc[q] = "waiting" /\ c \in KeysOf[q]
        BY DEF IInv, Solicited, KeysAsked
      <4> QED
        BY <4>1, <4>2 DEF IInv, Entered
    <3> QED
      BY <1>a2, <3>1
  <2>2. closed' = closed /\ faults' = faults /\ unknown' = unknown
    BY DEF BatchWriteThrows, RejectBatch
  <2>3. \A q \in Reads : pc'[q] = "rejected" => pc[q] = "rejected" \/ closed \/ nested' # {}
    BY <2>1
  <2> QED
    BY <1>a3, <2>2, <2>3 DEF IInv, RejectedForCause
<1>9. (\A q \in Reads : pc[q] = "resolved" /\ q \notin lost => response[q] = Wanted(q))'
  <2>1. \A q \in Reads : pc'[q] = "resolved" => pc[q] = "resolved"
    BY DEF IInv, TypeOK, BatchWriteThrows, RejectBatch
  <2> QED
    BY <1>a3, <2>1, WantedSame DEF IInv, ResolvedReadsComplete, BatchWriteThrows, RejectBatch
<1> QED
  BY <1>1, <1>2, <1>3, <1>4, <1>5, <1>6, <1>7, <1>8, <1>9 DEF IInv, ResolvedReadsComplete

(* A read resolves with what the cache holds.                              *)
LEMMA RereadStep == ASSUME IInv, NEW r \in Reads, Reread(r) PROVE IInv'
<1>1. TypeOK'
  <2>1. ret' \in Batchers /\ batch' \in Batchers
    BY DEF IInv, TypeOK, Batchers, Reread, bounds, history
  <2>2. /\ (ret.requests = {q \in Reads : pc[q] = "retrieving"})'
        /\ (batch.requests = {q \in Reads : pc[q] = "waiting"})'
    BY DEF IInv, TypeOK, Batchers, Ended, Reread, bounds, history
  <2> QED
    BY <2>1, <2>2, ReaderAssumption, WantedType
    DEF IInv, TypeOK, Ended, Channels, Reread, bounds, history
<1>2. Owned'
  BY DEF IInv, TypeOK, Owned, Wanted, Reread, bounds, history
<1>3. NothingLeft'
  BY DEF IInv, TypeOK, NothingLeft, Reread, bounds, history
<1>4. Accounted'
  BY DEF IInv, TypeOK, NothingLeft, Accounted, Wanted, Reread, bounds, history
<1>5. Fetching'
  BY DEF IInv, TypeOK, Batchers, NothingLeft, Fetching, Reread, bounds, history
<1>6. Solicited'
  BY DEF IInv, TypeOK, Batchers, NothingLeft, Solicited, KeysAsked, KeysOwned, Reread, bounds, history
<1>7. Entered'
  BY DEF IInv, TypeOK, Entered, Reread, bounds, history
<1>8. RejectedForCause'
  BY ReaderAssumption DEF IInv, TypeOK, Entered, RejectedForCause, Reread, bounds, history
<1>9. (\A q \in Reads : pc[q] = "resolved" /\ q \notin lost => response[q] = Wanted(q))'
  <2>1. r \notin lost => Wanted(r) \subseteq store
    BY CoveredNone DEF IInv, NothingLeft, Accounted, Reread
  <2>2. pc'[r] = "resolved" => response'[r] = Wanted(r) \cap store
    BY DEF IInv, TypeOK, Reread
  <2>3. \A q \in Reads \ {r} : pc'[q] = pc[q] /\ response'[q] = response[q]
    BY DEF IInv, TypeOK, Reread
  <2>4. lost' = lost
    BY DEF Reread, history
  <2> QED
    BY <2>1, <2>2, <2>3, <2>4, WantedSame DEF IInv, ResolvedReadsComplete
<1> QED
  BY <1>1, <1>2, <1>3, <1>4, <1>5, <1>6, <1>7, <1>8, <1>9 DEF IInv, ResolvedReadsComplete

(* A stream flushes a buffer.                                              *)
LEMMA FlushStep == ASSUME IInv, writeDynamic PROVE IInv'
<1>a1. PICK c \in entries, range \in SUBSET Instants : writeStatic({c}, range)
  BY DEF writeDynamic
<1>a2. /\ nested \subseteq nested' /\ nested' \subseteq Channels
       /\ store' \subseteq entries \X Instants /\ {c} \X range \subseteq store'
       /\ lost \subseteq lost' /\ lost' \subseteq Reads
       /\ \A q \in Reads \ lost' :
             pc[q] \in {"request", "waiting", "reread"} => Wanted(q) \cap store \subseteq store'
  BY <1>a1, WriteFacts DEF IInv
<1>1. TypeOK'
  <2>1. ret' = ret /\ batch' = batch /\ pc' = pc
    BY DEF writeDynamic
  <2>2. flushed' \in 0 .. MaxFlush
    BY ReaderAssumption DEF IInv, TypeOK, writeDynamic
  <2> QED
    BY <1>a2, <2>1, <2>2 DEF IInv, TypeOK, writeDynamic, reading
<1>2. Owned'
  BY DEF IInv, TypeOK, Owned, Wanted, writeDynamic, reading
<1>3. NothingLeft'
  BY DEF IInv, TypeOK, NothingLeft, writeDynamic, reading
<1>4. Accounted'
  BY <1>a2, WantedSame DEF IInv, Accounted, writeDynamic, reading
<1>5. Fetching'
  <2>1. \A q \in Reads : Covered(current[q]) \subseteq Wanted(q)
    BY DEF IInv, Owned
  <2> QED
    BY <1>a2, <2>1 DEF IInv, Fetching, writeDynamic, reading
<1>6. Solicited'
  BY DEF IInv, TypeOK, Batchers, NothingLeft, Solicited, KeysAsked, KeysOwned, writeDynamic, reading
<1>7. Entered'
  BY DEF IInv, TypeOK, Entered, writeDynamic, reading
<1>8. RejectedForCause'
  BY <1>a2 DEF IInv, RejectedForCause, writeDynamic
<1>9. (\A q \in Reads : pc[q] = "resolved" /\ q \notin lost => response[q] = Wanted(q))'
  BY <1>a2, WantedSame DEF IInv, ResolvedReadsComplete, writeDynamic, reading
<1> QED
  BY <1>1, <1>2, <1>3, <1>4, <1>5, <1>6, <1>7, <1>8, <1>9 DEF IInv, ResolvedReadsComplete

(* A collection marks the reads whose data it drops.                       *)
LEMMA GcStep == ASSUME IInv, gc PROVE IInv'
<1>1. TypeOK'
  <2>1. ret' \in Batchers /\ batch' \in Batchers
    BY DEF IInv, TypeOK, Batchers, gc, Active, Ended, reading
  <2>2. /\ (ret.requests = {q \in Reads : pc[q] = "retrieving"})'
        /\ (batch.requests = {q \in Reads : pc[q] = "waiting"})'
    BY DEF IInv, TypeOK, Batchers, Ended, gc, Active, Ended, reading
  <2> QED
    BY <2>1, <2>2, ReaderAssumption, WantedType
    DEF IInv, TypeOK, Ended, Channels, gc, Active, Ended, reading
<1>2. Owned'
  BY DEF IInv, TypeOK, Owned, Wanted, gc, Active, Ended, reading
<1>3. NothingLeft'
  BY DEF IInv, TypeOK, NothingLeft, gc, Active, Ended, reading
<1>4. Accounted'
  BY DEF IInv, TypeOK, NothingLeft, Accounted, Wanted, gc, Active, Ended, reading
<1>5. Fetching'
  <2>1. \A q \in Reads : Covered(current[q]) \subseteq Wanted(q)
    BY DEF IInv, Owned
  <2>2. \A q \in Reads \ lost' : pc[q] = "waiting" => Wanted(q) \cap store \subseteq store'
    BY DEF gc, Active, Ended, reading
  <2> QED
    BY <2>1, <2>2 DEF IInv, Fetching, gc, Active, Ended, reading
<1>6. Solicited'
  BY DEF IInv, TypeOK, Batchers, NothingLeft, Solicited, KeysAsked, KeysOwned, gc, Active, Ended, reading
<1>7. Entered'
  BY DEF IInv, TypeOK, Entered, gc, Active, Ended, reading
<1>8. RejectedForCause'
  BY ReaderAssumption DEF IInv, TypeOK, Entered, RejectedForCause, gc, Active, Ended, reading
<1>9. (\A q \in Reads : pc[q] = "resolved" /\ q \notin lost => response[q] = Wanted(q))'
  BY DEF IInv, TypeOK, NothingLeft, Accounted, ResolvedReadsComplete, Wanted, gc, Active, Ended, reading
<1> QED
  BY <1>1, <1>2, <1>3, <1>4, <1>5, <1>6, <1>7, <1>8, <1>9 DEF IInv, ResolvedReadsComplete

(* Closing marks them too, and gives the entries up.                       *)
LEMMA CloseStep == ASSUME IInv, close PROVE IInv'
<1>1. TypeOK'
  <2>1. ret' \in Batchers /\ batch' \in Batchers
    BY DEF IInv, TypeOK, Batchers, close, Active, Ended, reading, bounds
  <2>2. /\ (ret.requests = {q \in Reads : pc[q] = "retrieving"})'
        /\ (batch.requests = {q \in Reads : pc[q] = "waiting"})'
    BY DEF IInv, TypeOK, Batchers, Ended, close, Active, Ended, reading, bounds
  <2> QED
    BY <2>1, <2>2, ReaderAssumption, WantedType
    DEF IInv, TypeOK, Ended, Channels, close, Active, Ended, reading, bounds
<1>2. Owned'
  BY DEF IInv, TypeOK, Owned, Wanted, close, Active, Ended, reading, bounds
<1>3. NothingLeft'
  BY DEF IInv, TypeOK, NothingLeft, close, Active, Ended, reading, bounds
<1>4. Accounted'
  BY DEF IInv, TypeOK, NothingLeft, Accounted, Wanted, close, Active, Ended, reading, bounds
<1>5. Fetching'
  <2>1. \A q \in Reads : Covered(current[q]) \subseteq Wanted(q)
    BY DEF IInv, Owned
  <2>2. \A q \in Reads \ lost' : pc[q] = "waiting" => Wanted(q) \cap store \subseteq store'
    BY DEF close, Active, Ended, reading
  <2> QED
    BY <2>1, <2>2 DEF IInv, Fetching, close, Active, Ended, reading
<1>6. Solicited'
  BY DEF IInv, TypeOK, Batchers, NothingLeft, Solicited, KeysAsked, KeysOwned, close, Active, Ended, reading, bounds
<1>7. Entered'
  BY DEF IInv, TypeOK, Entered, close, Active, Ended, reading, bounds
<1>8. RejectedForCause'
  BY ReaderAssumption DEF IInv, TypeOK, Entered, RejectedForCause, close, Active, Ended, reading, bounds
<1>9. (\A q \in Reads : pc[q] = "resolved" /\ q \notin lost => response[q] = Wanted(q))'
  BY DEF IInv, TypeOK, NothingLeft, Accounted, ResolvedReadsComplete, Wanted, close, Active, Ended, reading, bounds
<1> QED
  BY <1>1, <1>2, <1>3, <1>4, <1>5, <1>6, <1>7, <1>8, <1>9 DEF IInv, ResolvedReadsComplete

-----------------------------------------------------------------------------
(* A step that changes nothing.                                            *)
LEMMA StutterStep == ASSUME IInv, UNCHANGED vars PROVE IInv'
BY DEF IInv, TypeOK, Owned, NothingLeft, Accounted, Fetching, Solicited, KeysAsked,
       KeysOwned, Entered, ResolvedReadsComplete, RejectedForCause, vars, Wanted

(* Every step keeps the invariant.                                         *)
LEMMA NextStep == IInv /\ [Next]_vars => IInv'
<1> SUFFICES ASSUME IInv, [Next]_vars PROVE IInv'
  OBVIOUS
<1>1. ASSUME NEW r \in Reads, read(r) PROVE IInv'
  BY <1>1, ReadStep
<1>2. CASE Progress
  <2>1. ASSUME NEW r \in Reads, retrieve(r) PROVE IInv'
    BY <2>1, RetrieveStep
  <2>2. ASSUME NEW r \in Reads, CheckCache(r) PROVE IInv'
    BY <2>2, CheckCacheStep
  <2>3. ASSUME NEW r \in Reads, Request(r) PROVE IInv'
    BY <2>3, RequestStep
  <2>4. ASSUME NEW r \in Reads, Reread(r) PROVE IInv'
    BY <2>4, RereadStep
  <2> QED
    BY <1>2, <2>1, <2>2, <2>3, <2>4, RetrieveTimerStep, RetrieveBeginsStep,
       RetrieveEndsStep, BatchTimerStep, BatchBeginsStep, BatchFetchedStep,
       BatchEndsStep, BatchWriteThrowsStep DEF Progress
<1> QED
  BY <1>1, <1>2, RetrieveFailsStep, BatchFailsStep, FlushStep, GcStep, CloseStep,
     StutterStep DEF Next

(* The invariant is one of the specification.                              *)
THEOREM Invariance == Spec => []IInv
BY InitIInv, NextStep, PTL DEF Spec

(* A read that resolves has everything it asked for, unless the cache      *)
(* dropped some of it while the read was under way: whatever reads share   *)
(* batches, and however their ranges overlap or nest, no request is        *)
(* resolved by a batch that did not fetch it (reader.ts, batchRead and its *)
(* mutex).                                                                 *)
THEOREM ReadsAreComplete == Spec => []ResolvedReadsComplete
<1>1. IInv => ResolvedReadsComplete
  BY DEF IInv
<1> QED
  BY <1>1, Invariance, PTL

(* A read is rejected only if a request has failed, the client was closed, *)
(* one of its own channels was asked for and did not come back, or a range *)
(* was written inside data that was there already: entries that concurrent *)
(* reads make are never missed, a batch never writes to a channel without  *)
(* one, and channels that do not exist fail nobody else (reader.ts,        *)
(* populateMissing of cache.ts, checkIntegrity of static.ts).              *)
THEOREM RejectionsHaveCauses == Spec => []RejectedForCause
<1>1. IInv => RejectedForCause
  BY DEF IInv
<1> QED
  BY <1>1, Invariance, PTL
=============================================================================
