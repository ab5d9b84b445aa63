----------------------------- MODULE TelemReader -----------------------------
(***************************************************************************)
(* Reads of historical telemetry in Pluto (pluto/src/telem/client): a read *)
(* makes cache entries for its channels through the debounced channel      *)
(* retriever of the TypeScript client, looks for gaps in the cache, has    *)
(* each gap fetched by a debounced batch it shares with other reads, and   *)
(* reads the cache again.                                                  *)
(*                                                                         *)
(* A time range is a set of instants; batches treat ranges that differ by  *)
(* less than 5 ms as one, and so are equal here.  The contents of the      *)
(* cache are the pairs <<channel, instant>> it holds data for; how they    *)
(* are kept in series is the matter of TelemCache.                         *)
(***************************************************************************)
EXTENDS Integers, FiniteSets

CONSTANTS
    Reads,      \* calls of Reader.read
    KeysOf,     \* the channels of a read
    RangeOf,    \* the instants of its time range
    MaxFaults,  \* bound on failing requests
    MaxGC,      \* bound on garbage collections that remove something
    MaxFlush    \* bound on buffers that streams flush into the cache

Channels == UNION {KeysOf[r] : r \in Reads}
Instants == UNION {RangeOf[r] : r \in Reads}

ASSUME ReaderAssumption ==
    /\ DOMAIN KeysOf = Reads /\ DOMAIN RangeOf = Reads
    /\ Instants \subseteq Int
    /\ {MaxFaults, MaxGC, MaxFlush} \subseteq Nat

VARIABLES
    pc,        \* where each read is
    missing,   \* per read: the keys populateMissing asked for
    gaps,      \* per read: its toFetch, the ranges left to fetch
    current,   \* per read: the request it waits for, if any
    response,  \* per read: what it resolved with
    entries,   \* Cache.cache: the channels that have an entry
    store,     \* the data the entries hold
    ret,       \* DebouncedBatchRetriever: its requests, timer and mutex
    batch,     \* Reader.guarded and the batch in progress
    faults,    \* the requests that failed
    collected, \* the collections so far
    flushed,   \* the buffers flushed so far
    lost,      \* history: reads some of whose data was dropped under way
    unknown,   \* history: channels the cluster was asked for and did not return
    nested,    \* history: channels written a range that lay inside their data
    closed     \* the client has been closed

vars == <<pc, missing, gaps, current, response, entries, store, ret, batch, faults,
          collected, flushed, lost, unknown, nested, closed>>
reading == <<missing, gaps, current, response>>
history == <<lost, unknown, nested>>
bounds == <<faults, collected, flushed>>

Wanted(r) == KeysOf[r] \X RangeOf[r]
Ended == {"resolved", "rejected"}
Active == {r \in Reads : pc[r] \notin Ended \cup {"idle"}}

(* A request for a range of some channels, and what requests cover.         *)
ToFetch == [range : SUBSET Instants, keys : SUBSET Channels]
Covered(fs) == UNION {f.keys \X f.range : f \in fs}

(* Requests for the same range become one.                                  *)
Grouped(fs) ==
    {[range |-> R, keys |-> UNION {f.keys : f \in {g \in fs : g.range = R}}] :
        R \in {f.range : f \in fs}}

(* The stretches of time that a set of instants consists of.                *)
Stretches(ts) ==
    {{u \in ts : \A v \in Instants :
                    (t <= v /\ v <= u) \/ (u <= v /\ v <= t) => v \in ts} : t \in ts}

(* dirtyRead's gaps, where the pairs ps are taken to be missing.            *)
GapsIn(ps) ==
    Grouped(UNION {{[range |-> R, keys |-> {c}] :
                       R \in Stretches({t \in Instants : <<c, t>> \in ps})} : c \in Channels})

(* The range lies strictly inside a stretch of what is held for c.          *)
Inside(c, range) ==
    \E t, u \in Instants :
        /\ \A v \in range : t < v /\ v < u
        /\ \A v \in Instants : t <= v /\ v <= u => <<c, v>> \in store

(* What the reads rs asked for is forgotten with their request.             *)
Done(f, rs) == [r \in Reads |-> IF r \in rs THEN {} ELSE f[r]]

(* A debounced batcher: requests that wait for the next run, a timer that   *)
(* any request restarts, a run that is due, and what the run in progress,   *)
(* which holds the mutex, is doing.                                         *)
Batcher == [requests |-> {}, timer |-> FALSE, due |-> FALSE, run |-> "no", todo |-> {}]

(* Mutant: a timer that is running is cleared and not set again.            *)
debounced_ClearsOnly(b) == [b EXCEPT !.timer = ~@]

(* debounce: the timer is set, again if it is running.                      *)
debounced(b) == [b EXCEPT !.timer = TRUE]

-----------------------------------------------------------------------------
(* Reader.read up to its first await.  Entries that exist are not fetched.  *)
read(r) ==
    /\ pc[r] = "idle"
    /\ missing' = [missing EXCEPT ![r] = KeysOf[r] \ entries]
    /\ pc' = [pc EXCEPT ![r] = IF KeysOf[r] \subseteq entries THEN "check" ELSE "retrieve"]
    /\ UNCHANGED <<gaps, current, response, entries, store, ret, batch, bounds, history,
                   closed>>

(* DebouncedBatchRetriever.retrieve: the request is added under the mutex.  *)
retrieve(r) ==
    /\ pc[r] = "retrieve" /\ ret.run = "no"
    /\ ret' = debounced([ret EXCEPT !.requests = @ \cup {r}])
    /\ pc' = [pc EXCEPT ![r] = "retrieving"]
    /\ UNCHANGED <<reading, entries, store, batch, bounds, history, closed>>

RetrieveTimer ==
    /\ ret.timer
    /\ ret' = [ret EXCEPT !.timer = FALSE, !.due = TRUE]
    /\ UNCHANGED <<pc, reading, entries, store, batch, bounds, history, closed>>

RetrieveBegins ==
    /\ ret.due /\ ret.run = "no"
    /\ ret' = [ret EXCEPT !.due = FALSE, !.run = "fetch"]
    /\ UNCHANGED <<pc, reading, entries, store, batch, bounds, history, closed>>

(* Mutant: only the first time anything is retrieved are entries made.      *)
RetrieveEnds_OnlyWhenEmpty ==
    /\ ret.run = "fetch"
    /\ LET asked == UNION {missing[r] : r \in ret.requests}
       IN  \E back \in SUBSET asked :
              /\ entries' = IF entries = {} THEN back ELSE entries
              /\ unknown' = unknown \cup (asked \ back)
    /\ pc' = [r \in Reads |-> IF r \in ret.requests THEN "check" ELSE pc[r]]
    /\ ret' = [ret EXCEPT !.run = "no", !.requests = {}]
    /\ missing' = Done(missing, ret.requests)
    /\ UNCHANGED <<gaps, current, response, store, batch, bounds, lost, nested, closed>>

(* The channels that the cluster has arrive: every request is resolved with *)
(* its own, and populateMissing makes the entries that are still missing.   *)
(* A key that is zero or that nothing is found for just does not come back. *)
RetrieveEnds ==
    /\ ret.run = "fetch"
    /\ LET asked == UNION {missing[r] : r \in ret.requests}
       IN  \E back \in SUBSET asked :
              /\ entries' = entries \cup back
              /\ unknown' = unknown \cup (asked \ back)
    /\ pc' = [r \in Reads |-> IF r \in ret.requests THEN "check" ELSE pc[r]]
    /\ ret' = [ret EXCEPT !.run = "no", !.requests = {}]
    /\ missing' = Done(missing, ret.requests)
    /\ UNCHANGED <<gaps, current, response, store, batch, bounds, lost, nested, closed>>

RetrieveFails ==
    /\ ret.run = "fetch" /\ faults < MaxFaults
    /\ faults' = faults + 1
    /\ pc' = [r \in Reads |-> IF r \in ret.requests THEN "rejected" ELSE pc[r]]
    /\ ret' = [ret EXCEPT !.run = "no", !.requests = {}]
    /\ missing' = Done(missing, ret.requests)
    /\ UNCHANGED <<gaps, current, response, entries, store, batch, collected, flushed,
                   history, closed>>

-----------------------------------------------------------------------------
(* The reads of the cache before the fetch: a missing entry throws, no gap  *)
(* answers at once.  Where series overlap, gaps may be found that are none. *)
CheckCache(r) ==
    /\ pc[r] = "check"
    /\ \/ /\ ~ KeysOf[r] \subseteq entries
          /\ pc' = [pc EXCEPT ![r] = "rejected"]
          /\ UNCHANGED <<gaps, response>>
       \/ /\ KeysOf[r] \subseteq entries /\ Wanted(r) \subseteq store
          /\ pc' = [pc EXCEPT ![r] = "resolved"]
          /\ response' = [response EXCEPT ![r] = Wanted(r)]
          /\ UNCHANGED gaps
       \/ /\ KeysOf[r] \subseteq entries
          /\ \E seeming \in SUBSET {p \in Wanted(r) \cap store : p[1] \in nested} :
                LET found == (Wanted(r) \ store) \cup seeming
                IN  found # {} /\ gaps' = [gaps EXCEPT ![r] = GapsIn(found)]
          /\ pc' = [pc EXCEPT ![r] = "request"]
          /\ UNCHANGED response
    /\ UNCHANGED <<missing, current, entries, store, ret, batch, bounds, history, closed>>

(* Mutant: a request is added without taking the mutex.                     *)
Request_Unguarded(r) ==
    /\ pc[r] = "request"
    /\ \E f \in gaps[r] :
          /\ current' = [current EXCEPT ![r] = {f}]
          /\ gaps' = [gaps EXCEPT ![r] = @ \ {f}]
    /\ batch' = debounced([batch EXCEPT !.requests = @ \cup {r}])
    /\ pc' = [pc EXCEPT ![r] = "waiting"]
    /\ UNCHANGED <<missing, response, entries, store, ret, bounds, history, closed>>

(* The gaps are requested one after the other, each with all the channels   *)
(* that lack it; the mutex keeps requests out of a running batch.           *)
Request(r) ==
    /\ pc[r] = "request" /\ batch.run = "no"
    /\ \E f \in gaps[r] :
          /\ current' = [current EXCEPT ![r] = {f}]
          /\ gaps' = [gaps EXCEPT ![r] = @ \ {f}]
    /\ batch' = debounced([batch EXCEPT !.requests = @ \cup {r}])
    /\ pc' = [pc EXCEPT ![r] = "waiting"]
    /\ UNCHANGED <<missing, response, entries, store, ret, bounds, history, closed>>

BatchTimer ==
    /\ batch.timer
    /\ batch' = [batch EXCEPT !.timer = FALSE, !.due = TRUE]
    /\ UNCHANGED <<pc, reading, entries, store, ret, bounds, history, closed>>

(* batchRead compresses the requests; ranges that nest or overlap are       *)
(* fetched as they are.                                                     *)
BatchBegins ==
    /\ batch.due /\ batch.run = "no"
    /\ batch' = [batch EXCEPT !.due = FALSE, !.run = "fetch",
                              !.todo = Grouped(UNION {current[r] : r \in batch.requests})]
    /\ UNCHANGED <<pc, reading, entries, store, ret, bounds, history, closed>>

EndRequests(r) ==
    IF r \in batch.requests
    THEN IF gaps[r] = {} THEN "reread" ELSE "request"
    ELSE pc[r]

(* Static.write of a range to the channels ks.  One that lies inside a      *)
(* series may leave series that overlap, and a later write to such a        *)
(* channel may put out what it does not bring.                              *)
writeStatic(ks, range) ==
    /\ nested' = nested \cup {c \in ks : Inside(c, range)}
    /\ \E gone \in SUBSET {p \in store \ (ks \X range) : p[1] \in ks \cap nested'} :
          /\ store' = (store \ gone) \cup (ks \X range)
          /\ lost' = lost \cup {r \in Active : Wanted(r) \cap gone # {}}

(* The answer to one request is written to the entries of its channels.     *)
BatchFetched ==
    /\ batch.run = "fetch"
    /\ \E f \in batch.todo :
          /\ f.keys \subseteq entries
          /\ writeStatic(f.keys, f.range)
          /\ batch' = [batch EXCEPT !.todo = @ \ {f}]
    /\ UNCHANGED <<pc, reading, entries, ret, bounds, unknown, closed>>

(* All requests of a batch resolve together.                                *)
BatchEnds ==
    /\ batch.run = "fetch" /\ batch.todo = {}
    /\ pc' = [r \in Reads |-> EndRequests(r)]
    /\ batch' = [batch EXCEPT !.run = "no", !.requests = {}]
    /\ current' = Done(current, batch.requests)
    /\ UNCHANGED <<missing, gaps, response, entries, store, ret, bounds, history, closed>>

(* All of them are rejected, and what was fetched before stays in the cache *)
RejectBatch ==
    /\ batch.run = "fetch" /\ batch.todo # {}
    /\ pc' = [r \in Reads |-> IF r \in batch.requests THEN "rejected" ELSE pc[r]]
    /\ batch' = [batch EXCEPT !.run = "no", !.requests = {}, !.todo = {}]
    /\ current' = Done(current, batch.requests)
    /\ gaps' = Done(gaps, batch.requests)
    /\ UNCHANGED <<missing, response, entries, ret, collected, flushed, unknown, closed>>

(* by a fetch that fails,                                                   *)
BatchFails ==
    /\ RejectBatch
    /\ faults < MaxFaults /\ faults' = faults + 1
    /\ UNCHANGED <<store, lost, nested>>

(* or by a channel without an entry or one whose series overlap, which      *)
(* Static.checkIntegrity finds after the write; the channels before it have *)
(* been written.                                                            *)
BatchWriteThrows ==
    /\ RejectBatch
    /\ \E f \in batch.todo : \E ks \in SUBSET (f.keys \cap entries) :
          /\ writeStatic(ks, f.range)
          /\ ~ f.keys \subseteq entries \/ ks \cap nested' # {}
    /\ UNCHANGED faults

(* Whatever the cache holds now is the response.                            *)
Reread(r) ==
    /\ pc[r] = "reread"
    /\ IF KeysOf[r] \subseteq entries
       THEN /\ pc' = [pc EXCEPT ![r] = "resolved"]
            /\ response' = [response EXCEPT ![r] = Wanted(r) \cap store]
       ELSE /\ pc' = [pc EXCEPT ![r] = "rejected"]
            /\ UNCHANGED response
    /\ UNCHANGED <<missing, gaps, current, entries, store, ret, batch, bounds, history,
                   closed>>

-----------------------------------------------------------------------------
(* A stream flushes a buffer of a channel that has an entry.                *)
writeDynamic ==
    /\ flushed < MaxFlush /\ flushed' = flushed + 1
    /\ \E c \in entries, t, u \in Instants :
          t <= u /\ writeStatic({c}, {v \in Instants : t <= v /\ v <= u})
    /\ UNCHANGED <<pc, reading, entries, ret, batch, faults, collected, unknown, closed>>

(* Cache.gc: stale data that nobody holds goes; a read holds nothing yet.   *)
gc ==
    /\ collected < MaxGC
    /\ \E gone \in SUBSET store \ {{}} :
          /\ store' = store \ gone
          /\ lost' = lost \cup {r \in Active : Wanted(r) \cap gone # {}}
    /\ collected' = collected + 1
    /\ UNCHANGED <<pc, reading, entries, ret, batch, faults, flushed, unknown, nested,
                   closed>>

(* Core.close drops every entry.  Reads under way are not told, and may     *)
(* make new ones.                                                           *)
close ==
    /\ ~closed
    /\ closed' = TRUE
    /\ entries' = {}
    /\ store' = {}
    /\ lost' = lost \cup {r \in Active : Wanted(r) \cap store # {}}
    /\ UNCHANGED <<pc, reading, ret, batch, bounds, unknown, nested>>

-----------------------------------------------------------------------------
Init ==
    /\ pc = [r \in Reads |-> "idle"]
    /\ missing = [r \in Reads |-> {}]
    /\ gaps = [r \in Reads |-> {}]
    /\ current = [r \in Reads |-> {}]
    /\ response = [r \in Reads |-> {}]
    /\ entries = {}
    /\ store = {}
    /\ ret = Batcher
    /\ batch = Batcher
    /\ faults = 0 /\ collected = 0 /\ flushed = 0
    /\ lost = {} /\ unknown = {} /\ nested = {}
    /\ closed = FALSE

Progress ==
    \/ \E r \in Reads : retrieve(r) \/ CheckCache(r) \/ Request(r) \/ Reread(r)
    \/ RetrieveTimer \/ RetrieveBegins \/ RetrieveEnds
    \/ BatchTimer \/ BatchBegins \/ BatchFetched \/ BatchEnds
    \/ BatchWriteThrows

Next ==
    \/ \E r \in Reads : read(r)
    \/ Progress
    \/ RetrieveFails \/ BatchFails
    \/ writeDynamic
    \/ gc
    \/ close

(* Timers fire, the cluster answers or fails, promises are resumed.         *)
Fairness == WF_vars(Progress)

Spec == Init /\ [][Next]_vars /\ Fairness

-----------------------------------------------------------------------------
(* Properties *)

Batchers ==
    [requests : SUBSET Reads, timer : BOOLEAN, due : BOOLEAN,
     run : {"no", "fetch"}, todo : SUBSET ToFetch]

(* Every variable has its type; cached data has an entry; the requests of a *)
(* batcher are those of the reads that wait for it.                         *)
TypeOK ==
    /\ pc \in [Reads -> {"idle", "retrieve", "retrieving", "check", "request",
                         "waiting", "reread"} \cup Ended]
    /\ missing \in [Reads -> SUBSET Channels]
    /\ gaps \in [Reads -> SUBSET ToFetch]
    /\ current \in [Reads -> SUBSET ToFetch]
    /\ response \in [Reads -> SUBSET (Channels \X Instants)]
    /\ entries \subseteq Channels
    /\ store \subseteq entries \X Instants
    /\ ret \in Batchers /\ batch \in Batchers
    /\ ret.requests = {r \in Reads : pc[r] = "retrieving"}
    /\ batch.requests = {r \in Reads : pc[r] = "waiting"}
    /\ faults \in 0 .. MaxFaults /\ collected \in 0 .. MaxGC /\ flushed \in 0 .. MaxFlush
    /\ lost \subseteq Reads /\ unknown \subseteq Channels /\ nested \subseteq Channels
    /\ closed \in BOOLEAN

(* A read that resolves has all the data it asked for, though its gaps were *)
(* found earlier and its requests were resolved by batches that other reads *)
(* had started, unless the cache dropped some of it meanwhile: no request   *)
(* is resolved by a batch that did not fetch it.  With type correctness.    *)
ResolvedReadsComplete ==
    TypeOK /\ \A r \in Reads : pc[r] = "resolved" /\ r \notin lost => response[r] = Wanted(r)

(* Reads fail only for a reason: a request failed, possibly one made for    *)
(* another read of the same batch, the client was closed, one of the read's *)
(* own channels does not exist, or a range was written inside data that was *)
(* there already (Static.checkIntegrity).  Concurrent first reads of a      *)
(* channel never miss each other's cache entries, and a channel that does   *)
(* not exist fails nobody who did not ask for it.                           *)
RejectedForCause ==
    \A r \in Reads : pc[r] = "rejected" =>
        faults > 0 \/ closed \/ KeysOf[r] \cap unknown # {} \/ nested # {}

(* Every read ends, by resolving or rejecting.                              *)
ReadsEnd == \A r \in Reads : pc[r] # "idle" ~> pc[r] \in Ended

=============================================================================
