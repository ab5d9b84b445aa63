----------------------------- MODULE TelemCache -----------------------------
(***************************************************************************)
(* The per-channel telemetry cache of Pluto (pluto/src/telem/client/cache):*)
(* a Dynamic buffer that live frames are appended to, a Static list of     *)
(* immutable series that flushed buffers and fetched history are merged    *)
(* into, and the Unary object that owns the two.                           *)
(*                                                                         *)
(* A series is a record [alignment, samples, start, end, held]: the         *)
(* alignment is the position of its first sample in the channel, start and *)
(* end are its time range, and held says that its reference count is not   *)
(* zero.  A sample is modelled by its true position in the channel, so     *)
(* that a sample which is stored under the wrong alignment can be told     *)
(* from one that is not.  Sample t is produced at time t.                  *)
(***************************************************************************)
EXTENDS Integers, Sequences, FiniteSets, FiniteSetsExt

CONSTANTS
    MaxNow,       \* bound on the clock, and so on the samples produced
    Caps,         \* the capacities nextBufferSize may answer
    Skips,        \* how many samples may be missed between two frames
    DomainStart,  \* the sample the second stored domain begins at
    StaleAfter,   \* staleEntryThreshold
    ReadRanges,   \* the time ranges that are read
    MaxPending,   \* bound on the gaps being fetched at a time
    MaxHeld       \* bound on the series held at a time

TimeRanges == {tr \in [start : 0 .. MaxNow, end : 0 .. MaxNow] : tr.start < tr.end}

ASSUME CacheAssumption ==
    /\ MaxNow \in Nat \ {0}
    /\ Caps \subseteq Nat \ {0}
    /\ Skips \subseteq Nat
    /\ DomainStart \in Nat
    /\ StaleAfter \in Nat
    /\ MaxPending \in Nat
    /\ MaxHeld \in Nat
    /\ ReadRanges \subseteq TimeRanges

VARIABLES
    curr,       \* Dynamic.curr, the buffer being written to
    data,       \* Static.data, the cached series in order
    closed,     \* Unary.closed
    now,        \* the clock; samples 0 .. now - 1 have been produced
    next,       \* the first sample that no frame has passed yet
    pending,    \* time ranges being fetched from the cluster
    firstHit    \* history: a series inside the first entry has been written

vars == <<curr, data, closed, now, next, pending, firstHit>>

None == [alignment |-> -1]

Max2(a, b) == IF a > b THEN a ELSE b
Min2(a, b) == IF a < b THEN a ELSE b
Abs(n) == IF n < 0 THEN -n ELSE n

-----------------------------------------------------------------------------
(* Series (x/ts/src/telem/series.ts) and bounds (x/ts/src/spatial/bounds).  *)

alignmentBounds(s) ==
    [lower |-> s.alignment, upper |-> s.alignment + Len(s.samples)]

(* Array.prototype.slice: a negative end counts from the back.              *)
JSSlice(seq, from, to) ==
    LET end == IF to < 0 THEN Len(seq) + to ELSE Min2(to, Len(seq))
    IN  SubSeq(seq, from + 1, end)

(* Mutant: the copy keeps the alignment of the series it was cut from.      *)
slice_KeepsAlignment(s, from, to) ==
    IF from <= 0 /\ to >= Len(s.samples)
    THEN s
    ELSE [s EXCEPT !.samples = JSSlice(@, from, to), !.held = FALSE]

(* slice keeps the whole time range of the series it cuts; the copy has no  *)
(* references.                                                              *)
slice(s, from, to) ==
    IF from <= 0 /\ to >= Len(s.samples)
    THEN s
    ELSE [s EXCEPT !.samples = JSSlice(@, from, to), !.alignment = @ + from,
                 !.held = FALSE]

contains(b, v) == b.lower <= v /\ v < b.upper

overlapsWith(a, b) ==
    \/ a.lower = b.lower
    \/ /\ b.upper # a.lower
       /\ b.lower # a.upper
       /\ \/ contains(a, b.upper) \/ contains(a, b.lower)
          \/ contains(b, a.upper) \/ contains(b, a.lower)

(* Mutant: both ends of a bound counted in.                                 *)
span_Inclusive(b) == b.upper - b.lower + 1

span(b) == b.upper - b.lower

(* Indices are those of the code: they count from zero.                     *)
findInsertPosition(bs, target) ==
    LET hits == {i \in DOMAIN bs : contains(bs[i], target) \/ target < bs[i].lower}
    IN  IF hits = {}
        THEN [index |-> Len(bs), position |-> 0]
        ELSE LET i == Min(hits)
             IN  [index    |-> i - 1,
                  position |-> IF contains(bs[i], target)
                               THEN target - bs[i].lower ELSE 0]

Plan(before, after, into, between) ==
    [removeBefore |-> before, removeAfter |-> after,
     insertInto |-> into, deleteInBetween |-> between]

NoPlan == Plan(0, 0, -1, 0)

buildInsertionPlan(bs, target) ==
    LET lower == findInsertPosition(bs, target.lower)
        upper == findInsertPosition(bs, target.upper)
        inPrev == lower.position # 0
    IN  CASE bs = <<>> -> Plan(0, 0, 0, 0)
          [] bs # <<>> /\ lower.index = Len(bs) -> Plan(0, 0, Len(bs), 0)
          [] bs # <<>> /\ lower.index < Len(bs) /\ upper.index = 0 ->
                 Plan(0, upper.position, 0, 0)
          [] lower.index = upper.index /\ upper.index \in 1 .. Len(bs) - 1 ->
                 IF inPrev /\ upper.position # 0
                 THEN NoPlan
                 ELSE Plan(lower.position, upper.position, lower.index, 0)
          [] OTHER ->
                 Plan(IF inPrev THEN span(bs[lower.index + 1]) - lower.position ELSE 0,
                      upper.position,
                      IF inPrev THEN lower.index + 1 ELSE lower.index,
                      upper.index - lower.index - (IF inPrev THEN 1 ELSE 0))

-----------------------------------------------------------------------------
(* Static (static.ts)                                                      *)

BoundsOf(d) == [i \in DOMAIN d |-> alignmentBounds(d[i].series)]

(* Mutant: one entry too many makes way.                                    *)
Splice_OneTooMany(seq, at, del, x) ==
    SubSeq(seq, 1, at) \o <<x>> \o SubSeq(seq, at + del + 2, Len(seq))

Splice(seq, at, del, x) ==
    SubSeq(seq, 1, at) \o <<x>> \o SubSeq(seq, at + del + 1, Len(seq))

writeOne(d, series) ==
    LET plan == buildInsertionPlan(BoundsOf(d), alignmentBounds(series))
        cut == slice(series, plan.removeBefore,
                     Len(series.samples) - plan.removeAfter)
    IN  IF series.samples = <<>> \/ plan = NoPlan \/ cut.samples = <<>>
        THEN d
        ELSE Splice(d, plan.insertInto, plan.deleteInBetween,
                    [series |-> cut, age |-> 0])

(* The entries after each of the series ss is written, in turn.             *)
Writes(d, ss) ==
    LET ds[i \in 0 .. Len(ss)] == IF i = 0 THEN d ELSE writeOne(ds[i - 1], ss[i])
    IN  ds

staticWrite(d, ss) == Writes(d, ss)[Len(ss)]

(* The series that a write merges while it lies strictly inside the first   *)
(* entry: the case buildInsertionPlan takes for "less than all bounds".     *)
InFirst(d, series) ==
    LET b == alignmentBounds(series)
    IN  /\ d # <<>>
        /\ contains(BoundsOf(d)[1], b.lower) /\ contains(BoundsOf(d)[1], b.upper)
        /\ b.lower # BoundsOf(d)[1].lower

WriteHitsFirst(d, ss) ==
    \E i \in 1 .. Len(ss) : InFirst(Writes(d, ss)[i - 1], ss[i])

RangesOverlap(s, tr) ==
    \/ s.start = tr.start /\ s.end = tr.end
    \/ /\ tr.end # s.start /\ s.end # tr.start
       /\ Max2(s.start, tr.start) <= Min2(s.end, tr.end)

(* The entries dirtyRead finds for a time range.                            *)
dirtyReadHits(tr) == {i \in DOMAIN data : RangesOverlap(data[i].series, tr)}

GapBetween(s, t) == [start |-> s, end |-> t]

(* The time between two series that follow each other in what is found.     *)
InnerGaps(hits) ==
    {GapBetween(data[p[1]].series.end, data[p[2]].series.start) :
        p \in {q \in hits \X hits : q[1] < q[2] /\ \A k \in hits : k <= q[1] \/ q[2] <= k}}

LeadingGap(hits, tr) ==
    {GapBetween(tr.start, data[i].series.start) : i \in {h \in hits : \A k \in hits : h <= k}}

TrailingGap(hits, tr) ==
    {GapBetween(data[i].series.end, tr.end) : i \in {h \in hits : \A k \in hits : k <= h}}

(* Mutant: the time after the last series is not reported.                  *)
dirtyReadGaps_NoTrailing(tr) ==
    LET hits == dirtyReadHits(tr)
    IN  IF hits = {} THEN {tr}
        ELSE {g \in InnerGaps(hits) \cup LeadingGap(hits, tr) : g.start < g.end}

(* The gaps dirtyRead reports, as a set of time ranges.                     *)
dirtyReadGaps(tr) ==
    LET hits == dirtyReadHits(tr)
    IN  IF hits = {} THEN {tr}
        ELSE {g \in InnerGaps(hits) \cup LeadingGap(hits, tr) \cup TrailingGap(hits, tr) :
                g.start < g.end}

(* checkIntegrity throws when two entries overlap.                          *)
IntegrityFails(d) ==
    \E i, j \in DOMAIN d : i # j /\ overlapsWith(BoundsOf(d)[i], BoundsOf(d)[j])

-----------------------------------------------------------------------------
(* Dynamic (dynamic.ts)                                                    *)

allocate(cap, alignment) ==
    [alignment |-> alignment, samples |-> <<>>, start |-> now, end |-> MaxNow + 1,
     held |-> FALSE, cap |-> cap]

(* A buffer leaves the Dynamic cache with its time range ended now.         *)
Flushed(buf) ==
    [alignment |-> buf.alignment, samples |-> buf.samples,
     start |-> buf.start, end |-> now, held |-> buf.held]

(* Mutant: a wider tolerance.                                               *)
Misaligned_Lax(buf, series) ==
    Abs(buf.alignment + Len(buf.samples) - series.alignment) > 2

(* A buffer whose end is more than one sample away from the incoming series *)
(* is not the one the series belongs in.                                    *)
Misaligned(buf, series) ==
    Abs(buf.alignment + Len(buf.samples) - series.alignment) > 1

(* The buffer a series is to be appended to, and the one it replaces.       *)
BeginWrite(series, cap) ==
    [buf |-> IF curr = None \/ Misaligned(curr, series) THEN allocate(cap, series.alignment)
             ELSE curr,
     flushed |-> IF curr # None /\ Misaligned(curr, series) THEN <<Flushed(curr)>> ELSE <<>>]

(* One more sample: a full buffer gives way to a new one, aligned with it.  *)
AppendSample(st, series, i, cap) ==
    IF Len(st.buf.samples) < st.buf.cap
    THEN [st EXCEPT !.buf.samples = Append(@, series.samples[i])]
    ELSE [buf |-> [allocate(cap, series.alignment + i - 1)
                       EXCEPT !.samples = <<series.samples[i]>>],
          flushed |-> Append(st.flushed, Flushed(st.buf))]

(* _write: the buffer and what has been flushed after each sample.          *)
Fills(series, cap) ==
    LET st[i \in 0 .. Len(series.samples)] ==
            IF i = 0 THEN BeginWrite(series, cap) ELSE AppendSample(st[i - 1], series, i, cap)
    IN  st

dynamicWrite(series, cap) == Fills(series, cap)[Len(series.samples)]

-----------------------------------------------------------------------------
(* Unary (unary.ts)                                                        *)

Run(from, to) == [i \in 1 .. to - from |-> from + i - 1]

(* A frame with the n samples that follow the `skip' missed ones.  Frames   *)
(* written while the streamer was not open on the channel never arrive.     *)
writeDynamic(skip, n, cap) ==
    LET series == [alignment |-> next + skip,
                   samples |-> Run(next + skip, next + skip + n)]
        res == dynamicWrite(series, cap)
    IN  /\ next + skip + n <= now
        /\ next' = next + skip + n
        /\ IF closed
           THEN UNCHANGED <<curr, data, firstHit>>
           ELSE /\ curr' = res.buf
                /\ data' = staticWrite(data, res.flushed)
                /\ firstHit' = (firstHit \/ WriteHitsFirst(data, res.flushed))
        /\ UNCHANGED <<closed, now, pending>>

(* The first half of Reader.read: the gaps of a dirty read are to be        *)
(* fetched.  A closed cache answers with no gaps.                           *)
read(tr) ==
    /\ ~closed
    /\ pending' = pending \cup dirtyReadGaps(tr)
    /\ pending' # pending
    /\ Cardinality(pending') <= MaxPending
    /\ UNCHANGED <<curr, data, closed, now, next, firstHit>>

(* What the cluster answers for a time range: one series per stored domain, *)
(* with the samples of that range that exist by then.                       *)
readRemote(tr) ==
    LET last == Min2(tr.end, now)
        piece(from, to) ==
            IF from < to
            THEN <<[alignment |-> from, samples |-> Run(from, to),
                    start |-> from, end |-> to, held |-> FALSE]>>
            ELSE <<>>
    IN  piece(tr.start, Min2(last, DomainStart))
        \o piece(Max2(tr.start, DomainStart), last)

(* The answer is written however much the cache has changed meanwhile.      *)
writeStatic(tr) ==
    /\ tr \in pending
    /\ pending' = pending \ {tr}
    /\ IF closed
       THEN UNCHANGED <<data, firstHit>>
       ELSE /\ data' = staticWrite(data, readRemote(tr))
            /\ firstHit' = (firstHit \/ WriteHitsFirst(data, readRemote(tr)))
    /\ UNCHANGED <<curr, closed, now, next>>

shouldKeep(e) == e.series.held \/ e.age < StaleAfter

(* What is left of the first i entries.                                     *)
Kept(d) ==
    LET kept[i \in 0 .. Len(d)] ==
            IF i = 0 THEN <<>>
            ELSE IF shouldKeep(d[i]) THEN Append(kept[i - 1], d[i]) ELSE kept[i - 1]
    IN  kept

gc ==
    /\ ~closed
    /\ \E i \in DOMAIN data : ~shouldKeep(data[i])
    /\ data' = Kept(data)[Len(data)]
    /\ UNCHANGED <<curr, closed, now, next, pending, firstHit>>

close ==
    /\ ~closed
    /\ closed' = TRUE
    /\ curr' = None
    /\ data' = <<>>
    /\ UNCHANGED <<now, next, pending, firstHit>>

(* A plot holds the series it was given, cached or still being written to,  *)
(* for as long as it draws them.                                            *)
acquire ==
    /\ Cardinality({i \in DOMAIN data : data[i].series.held})
         + (IF curr # None /\ curr.held THEN 1 ELSE 0) < MaxHeld
    /\ \/ /\ curr # None /\ ~curr.held
          /\ curr' = [curr EXCEPT !.held = TRUE]
          /\ UNCHANGED data
       \/ /\ \E i \in DOMAIN data :
                /\ ~data[i].series.held
                /\ data' = [data EXCEPT ![i].series.held = TRUE]
          /\ UNCHANGED curr
    /\ UNCHANGED <<closed, now, next, pending, firstHit>>

release ==
    /\ \/ /\ curr # None /\ curr.held
          /\ curr' = [curr EXCEPT !.held = FALSE]
          /\ UNCHANGED data
       \/ /\ \E i \in DOMAIN data :
                /\ data[i].series.held
                /\ data' = [data EXCEPT ![i].series.held = FALSE]
          /\ UNCHANGED curr
    /\ UNCHANGED <<closed, now, next, pending, firstHit>>

(* Time since addedAt is counted up to the threshold only.                  *)
Tick ==
    /\ now < MaxNow
    /\ now' = now + 1
    /\ data' = [i \in DOMAIN data |->
                   [data[i] EXCEPT !.age = Min2(@ + 1, StaleAfter)]]
    /\ UNCHANGED <<curr, closed, next, pending, firstHit>>

-----------------------------------------------------------------------------
Init ==
    /\ curr = None
    /\ data = <<>>
    /\ closed = FALSE
    /\ now = 0
    /\ next = 0
    /\ pending = {}
    /\ firstHit = FALSE

Next ==
    \/ \E skip \in Skips, n \in 1 .. MaxNow, cap \in Caps : writeDynamic(skip, n, cap)
    \/ \E tr \in ReadRanges : read(tr)
    \/ \E tr \in pending : writeStatic(tr)
    \/ gc
    \/ close
    \/ acquire
    \/ release
    \/ Tick

Spec == Init /\ [][Next]_vars

-----------------------------------------------------------------------------
(* Properties *)

SeriesType ==
    [alignment : 0 .. MaxNow, samples : Seq(0 .. MaxNow),
     start : 0 .. MaxNow, end : 0 .. MaxNow + 1, held : BOOLEAN]

BufferType ==
    [alignment : 0 .. MaxNow, samples : Seq(0 .. MaxNow),
     start : 0 .. MaxNow, end : {MaxNow + 1}, held : BOOLEAN, cap : Caps]

(* Every piece of the cache's state has its type; only the buffer being     *)
(* written to has an open time range.                                       *)
TypeOK ==
    /\ \/ curr = None
       \/ curr \in BufferType /\ Len(curr.samples) \in 1 .. curr.cap
    /\ \A i \in DOMAIN data :
          /\ data[i].series \in SeriesType
          /\ data[i].series.end <= now
          /\ data[i].series.samples # <<>>
          /\ data[i].age \in 0 .. StaleAfter
    /\ closed \in BOOLEAN /\ firstHit \in BOOLEAN
    /\ now \in 0 .. MaxNow
    /\ next \in 0 .. now
    /\ pending \subseteq TimeRanges

(* Static.data stays ordered and free of overlaps, which is what            *)
(* buildInsertionPlan assumes of it and checkIntegrity demands after every  *)
(* write, whatever order flushed buffers and late fetches arrive in: the    *)
(* one way to lose it is a series that lies inside the first entry, which   *)
(* the plan takes for one that comes before all entries.  With types.       *)
StaticOrdered ==
    /\ TypeOK
    /\ ~firstHit =>
        /\ ~IntegrityFails(data)
        /\ \A i, j \in DOMAIN data :
            i < j => alignmentBounds(data[i].series).upper <= data[j].series.alignment

(* The tolerance of Dynamic._write never accumulates: however many frames   *)
(* lose a sample between them, every cached sample is at its alignment or   *)
(* one behind it.                                                           *)
OffByAtMostOne ==
    \A s \in {data[i].series : i \in DOMAIN data} \cup ({curr} \ {None}) :
        \A k \in DOMAIN s.samples : s.samples[k] - (s.alignment + k - 1) \in {0, 1}

CoveredBy(s) == s.alignment .. s.alignment + Len(s.samples) - 1

(* The positions of the channel that the cache holds samples for.           *)
Covered ==
    UNION {CoveredBy(s) :
             s \in {data[i].series : i \in DOMAIN data} \cup ({curr} \ {None})}

(* No write, flush or collection takes a position out of the cache that is  *)
(* in the buffer being written to, in a series somebody holds or in one     *)
(* that is not stale: entries a write replaces are covered by what replaces *)
(* them.  (Once a series inside the first entry has been written the        *)
(* entries overlap, and a write may replace one that reaches further back;  *)
(* what is in the buffer is safe even then.)                                *)
KeptUntilStale ==
    [][~closed' =>
         /\ curr # None => CoveredBy(curr) \subseteq Covered'
         /\ \A i \in DOMAIN data :
              ~firstHit' /\ (data[i].series.held \/ data[i].age < StaleAfter)
                  => CoveredBy(data[i].series) \subseteq Covered']_vars

(* What a fetch brings is in the cache afterwards: every sample of the gap  *)
(* that exists when the answer arrives, though the gap was computed from an *)
(* older state of the cache and the answer is cut to fit the present one.   *)
FetchFills ==
    [][~closed =>
         \A tr \in pending \ pending' :
            tr.start .. Min2(tr.end, now) - 1 \subseteq Covered']_vars

(* dirtyRead hides no missing time: a moment of the range asked for that is *)
(* in no cached series is in one of the gaps it reports, even though series *)
(* are ordered by alignment and their time ranges may nest or cross.        *)
GapsCoverMissing ==
    \A tr \in TimeRanges :
        LET gaps == dirtyReadGaps(tr)
        IN  \A t \in tr.start .. tr.end - 1 :
                \/ \E i \in DOMAIN data :
                       data[i].series.start <= t /\ t < data[i].series.end
                \/ \E g \in gaps : g.start <= t /\ t < g.end

=============================================================================
