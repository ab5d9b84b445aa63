-------------------------- MODULE TelemCacheProofs --------------------------
(***************************************************************************)
(* Proofs about TelemCache, for any number of samples, any capacities, any *)
(* frames lost and any reads: the static cache stays in order, samples are *)
(* one off at most, reads report all that is missing, fetches fill their   *)
(* gap and nothing held or fresh goes.                                     *)
(*                                                                         *)
(* What a loop of the code does (a recursive function of the model) is     *)
(* shown by taking the least step at which it would fail.                  *)
(***************************************************************************)
EXTENDS TelemCache, SequenceTheorems, WellFoundedInduction, TLAPS

-----------------------------------------------------------------------------
(* Least elements.                                                         *)

LEMMA Least ==
  ASSUME NEW T, T \subseteq Nat, T # {}
  PROVE  \E m \in T : \A n \in T : m <= n
<1> DEFINE R == OpToRel(<, Nat)
<1>1. IsWellFoundedOn(R, Nat)
  BY NatLessThanWellFounded
<1>2. \A x, y \in Nat : x < y => <<x, y>> \in R
  BY DEF OpToRel
<1> HIDE DEF R
<1>3. PICK m \in T : \A y \in T : ~(<<y, m>> \in R)
  BY <1>1, WFMin
<1>4. ASSUME NEW n \in T PROVE m <= n
  <2>1. ~(n < m)
    BY <1>2, <1>3
  <2> QED
    BY <2>1
<1> QED
  BY <1>4

(* Induction up to n: the property is a set, not an operator.              *)
LEMMA Climb ==
  ASSUME NEW n \in Nat, NEW T, 0 \in T, \A i \in 0 .. n - 1 : i \in T => i + 1 \in T
  PROVE  0 .. n \subseteq T
<1> DEFINE F == {i \in 0 .. n : i \notin T}
<1> SUFFICES ASSUME F # {} PROVE FALSE
  OBVIOUS
<1>1. F \subseteq Nat
  OBVIOUS
<1>2. PICK m \in F : \A k \in F : m <= k
  BY <1>1, Least
<1>3. m - 1 \in 0 .. n - 1 /\ m - 1 \notin F
  BY <1>2
<1>4. m - 1 \in T /\ (m - 1) + 1 = m
  BY <1>3
<1> QED
  BY <1>3, <1>4

LEMMA MinIsLeast ==
  ASSUME NEW T, T \subseteq Nat, T # {}
  PROVE  Min(T) \in T /\ \A n \in T : Min(T) <= n
BY Least DEF Min

-----------------------------------------------------------------------------
(* Sequences of entries, and the bounds of an entry.                       *)

Series == [alignment : Nat, samples : Seq(Nat), start : 0 .. MaxNow,
           end : 0 .. MaxNow + 1, held : BOOLEAN]

Entries == {e \in [series : Series, age : 0 .. StaleAfter] : e.series.samples # <<>>}

Lower(e) == e.series.alignment
Upper(e) == e.series.alignment + Len(e.series.samples)

LEMMA EntryFacts ==
  ASSUME NEW e \in Entries
  PROVE  Lower(e) \in Nat /\ Upper(e) \in Nat /\ Lower(e) < Upper(e)
BY DEF Entries, Series, Lower, Upper

LEMMA BoundsFacts ==
  ASSUME NEW d \in Seq(Entries)
  PROVE  /\ BoundsOf(d) \in Seq([lower : Nat, upper : Nat]) /\ Len(BoundsOf(d)) = Len(d)
         /\ BoundsOf(d) = <<>> <=> d = <<>>
         /\ \A i \in 1 .. Len(d) : /\ d[i] \in Entries
                                   /\ BoundsOf(d)[i].lower = Lower(d[i])
                                   /\ BoundsOf(d)[i].upper = Upper(d[i])
<1>1. \A i \in 1 .. Len(d) : d[i] \in Entries /\ Lower(d[i]) \in Nat /\ Upper(d[i]) \in Nat
  BY EntryFacts
<1>2. BoundsOf(d) = [i \in 1 .. Len(d) |-> [lower |-> Lower(d[i]), upper |-> Upper(d[i])]]
  BY DEF BoundsOf, alignmentBounds, Lower, Upper
<1> QED
  BY <1>1, <1>2

LEMMA SeqOf ==
  ASSUME NEW S, NEW T, NEW r \in Seq(T), \A i \in 1 .. Len(r) : r[i] \in S
  PROVE  r \in Seq(S)
<1>1. Len(r) \in Nat /\ r = [i \in 1 .. Len(r) |-> r[i]]
  OBVIOUS
<1>2. [i \in 1 .. Len(r) |-> r[i]] \in [1 .. Len(r) -> S]
  OBVIOUS
<1>3. r \in [1 .. Len(r) -> S]
  BY <1>1, <1>2
<1> QED
  BY <1>1, <1>3, SeqDef

(* r is d with x in the place of the del elements after the first at.      *)
Replaced(r, S, d, at, del, x) ==
  /\ r \in Seq(S) /\ Len(r) = Len(d) + 1 - del
  /\ \A i \in 1 .. at : r[i] = d[i]
  /\ r[at + 1] = x
  /\ \A i \in at + 2 .. Len(r) : r[i] = d[i + del - 1]

LEMMA SpliceFacts ==
  ASSUME NEW S, NEW d \in Seq(S), NEW at \in 0 .. Len(d), NEW del \in 0 .. Len(d) - at, NEW x \in S
  PROVE  Replaced(Splice(d, at, del, x), S, d, at, del, x)
<1> DEFINE a == SubSeq(d, 1, at)
           b == SubSeq(d, at + del + 1, Len(d))
<1>1. a \in Seq(S) /\ Len(a) = at /\ \A i \in 1 .. at : a[i] = d[i]
  BY SubSeqProperties
<1>2. /\ b \in Seq(S) /\ Len(b) = Len(d) - at - del
      /\ \A i \in 1 .. Len(d) - at - del : b[i] = d[at + del + i]
  BY SubSeqProperties
<1>3. Splice(d, at, del, x) = a \o <<x>> \o b
  BY DEF Splice
<1> HIDE DEF a, b
<1>4. /\ <<x>> \in Seq(S) /\ Len(<<x>>) = 1 /\ <<x>>[1] = x
  OBVIOUS
<1>5. /\ a \o <<x>> \in Seq(S) /\ Len(a \o <<x>>) = at + 1
      /\ \A i \in 1 .. at : (a \o <<x>>)[i] = a[i]
      /\ (a \o <<x>>)[at + 1] = x
  BY <1>1, <1>4, ConcatProperties
<1> DEFINE c == a \o <<x>>
<1>6. /\ a \o <<x>> \o b \in Seq(S) /\ Len(a \o <<x>> \o b) = Len(d) + 1 - del
      /\ \A i \in 1 .. at + 1 : (a \o <<x>> \o b)[i] = (a \o <<x>>)[i]
      /\ \A i \in at + 2 .. Len(d) + 1 - del : (a \o <<x>> \o b)[i] = b[i - at - 1]
  <2>1. c \in Seq(S) /\ Len(c) = at + 1
    BY <1>5
  <2> HIDE DEF c
  <2>2. /\ c \o b \in Seq(S) /\ Len(c \o b) = Len(d) + 1 - del
        /\ \A i \in 1 .. Len(c) + Len(b) : (c \o b)[i] = IF i <= Len(c) THEN c[i] ELSE b[i - Len(c)]
    BY <2>1, <1>2, ConcatProperties, SMTT(30)
  <2>3. /\ \A i \in 1 .. at + 1 : (c \o b)[i] = c[i]
        /\ \A i \in at + 2 .. Len(d) + 1 - del : (c \o b)[i] = b[i - at - 1]
    BY <2>1, <2>2, <1>2, SMTT(30)
  <2> QED
    BY <2>2, <2>3 DEF c
<1>7. ASSUME NEW i \in at + 2 .. Len(d) + 1 - del PROVE (a \o <<x>> \o b)[i] = d[i + del - 1]
  <2>1. i - at - 1 \in 1 .. Len(d) - at - del /\ at + del + (i - at - 1) = i + del - 1
    OBVIOUS
  <2> QED
    BY <2>1, <1>2, <1>6
<1> DEFINE r == Splice(d, at, del, x)
<1>8. /\ r \in Seq(S) /\ Len(r) = Len(d) + 1 - del
      /\ \A i \in 1 .. at + 1 : r[i] = (a \o <<x>>)[i]
      /\ \A i \in at + 2 .. Len(d) + 1 - del : r[i] = d[i + del - 1]
  BY <1>3, <1>6, <1>7
<1> HIDE DEF r
<1>9. (\A i \in 1 .. at : r[i] = d[i]) /\ r[at + 1] = x
  BY <1>1, <1>5, <1>8
<1> QED
  BY <1>8, <1>9 DEF Replaced, r

-----------------------------------------------------------------------------
(* Where a position falls: past the first i entries, before the end of the *)
(* next one.                                                               *)
At(d, v, i) ==
  /\ i \in 0 .. Len(d)
  /\ \A j \in 1 .. i : Upper(d[j]) <= v
  /\ i < Len(d) => v < Upper(d[i + 1])

LEMMA FindFacts ==
  ASSUME NEW d \in Seq(Entries), NEW v \in Nat
  PROVE  LET r == findInsertPosition(BoundsOf(d), v) IN
         /\ At(d, v, r.index)
         /\ r.position = IF r.index < Len(d) /\ Lower(d[r.index + 1]) <= v
                         THEN v - Lower(d[r.index + 1]) ELSE 0
<1> DEFINE bs == BoundsOf(d)
           hits == {i \in DOMAIN bs : contains(bs[i], v) \/ v < bs[i].lower}
           r == findInsertPosition(bs, v)
<1>1. \A i \in 1 .. Len(d) : /\ d[i] \in Entries /\ Lower(d[i]) \in Nat /\ Upper(d[i]) \in Nat
                             /\ Lower(d[i]) < Upper(d[i])
                             /\ bs[i].lower = Lower(d[i]) /\ bs[i].upper = Upper(d[i])
  BY BoundsFacts, EntryFacts
<1>2. DOMAIN bs = 1 .. Len(d) /\ Len(bs) = Len(d) /\ Len(d) \in Nat
  BY BoundsFacts
<1> HIDE DEF bs
<1>3. hits \subseteq 1 .. Len(d) /\ \A i \in 1 .. Len(d) : i \in hits <=> v < Upper(d[i])
  BY <1>1, <1>2 DEF contains
<1>4. r = IF hits = {} THEN [index |-> Len(bs), position |-> 0]
          ELSE [index    |-> Min(hits) - 1,
                position |-> IF contains(bs[Min(hits)], v) THEN v - bs[Min(hits)].lower ELSE 0]
  BY DEF findInsertPosition
<1> HIDE DEF hits, r
<1>5. CASE hits = {}
  <2>1. r.index = Len(d) /\ r.position = 0
    BY <1>2, <1>4, <1>5
  <2> QED
    BY <1>1, <1>2, <1>3, <1>5, <2>1 DEF At, r, bs
<1>6. CASE hits # {}
  <2> DEFINE m == Min(hits)
  <2>1. m \in hits /\ \A n \in hits : m <= n
    <3>1. hits \subseteq Nat
      BY <1>3
    <3> QED
      BY <3>1, <1>6, MinIsLeast
  <2>2. r.index = m - 1 /\ r.position = IF contains(bs[m], v) THEN v - bs[m].lower ELSE 0
    BY <1>4, <1>6
  <2> HIDE DEF m
  <2>3. m \in 1 .. Len(d) /\ v < Upper(d[m]) /\ \A j \in 1 .. m - 1 : Upper(d[j]) <= v
    BY <1>1, <1>2, <1>3, <2>1
  <2>4. r.position = IF Lower(d[m]) <= v THEN v - Lower(d[m]) ELSE 0
    BY <1>1, <2>2, <2>3 DEF contains
  <2>5. At(d, v, m - 1)
    BY <2>3 DEF At
  <2> QED
    BY <2>2, <2>3, <2>4, <2>5 DEF r, bs
<1> QED
  BY <1>5, <1>6

(* A piece of a series, under the alignment it has there.                  *)
PartOf(x, s) ==
  /\ x \in Series /\ x.samples # <<>> /\ x.start = s.start /\ x.end = s.end
  /\ s.alignment <= x.alignment
  /\ x.alignment + Len(x.samples) <= s.alignment + Len(s.samples)
  /\ \A k \in 1 .. Len(x.samples) :
       x.samples[k] = s.samples[x.alignment - s.alignment + k]

(* A slice up to `to' ends before the element `last' counts to.             *)
EndsAt(s, to, last) == last = IF to < 0 THEN Len(s.samples) + to ELSE to

LEMMA SliceFacts ==
  ASSUME NEW s \in Series, s.samples # <<>>, NEW from \in Nat, NEW to \in Int,
         to <= Len(s.samples), NEW last, EndsAt(s, to, last)
  PROVE  LET r == slice(s, from, to) IN
         /\ from >= last => r.samples = <<>>
         /\ from < last => /\ PartOf(r, s) /\ r.alignment = s.alignment + from
                           /\ r.alignment + Len(r.samples) = s.alignment + last
<1> DEFINE n == Len(s.samples)
           q == SubSeq(s.samples, from + 1, last)
           r == slice(s, from, to)
<1>1. /\ s.samples \in Seq(Nat) /\ n \in Nat /\ n > 0 /\ s.alignment \in Nat
      /\ last \in Int /\ last <= n
  <2>1. s.samples \in Seq(Nat) /\ s.samples # <<>> /\ s.alignment \in Nat
    BY DEF Series
  <2>2. n \in Nat /\ n > 0
    BY <2>1
  <2> QED
    BY <2>1, <2>2 DEF EndsAt
<1>2. JSSlice(s.samples, from, to) = q
  <2>1. last = IF to < 0 THEN n + to ELSE Min2(to, n)
    <3> HIDE DEF n
    <3> QED
      BY <1>1 DEF EndsAt, Min2, n
  <2> QED
    BY <2>1 DEF JSSlice
<1>3. CASE from <= 0 /\ to >= n
  <2>1. r = s /\ from = 0 /\ last = n
    BY <1>1, <1>3 DEF slice, EndsAt
  <2>2. PartOf(s, s)
    BY <1>1 DEF PartOf
  <2> QED
    BY <2>1, <2>2, <1>1
<1>4. CASE ~(from <= 0 /\ to >= n)
  <2>1. r = [s EXCEPT !.samples = q, !.alignment = s.alignment + from, !.held = FALSE]
    BY <1>2, <1>4 DEF slice
  <2>2. /\ r.samples = q /\ r.alignment = s.alignment + from /\ r.held = FALSE
        /\ r.start = s.start /\ r.end = s.end
    BY <2>1 DEF Series
  <2>3. CASE from >= last
    BY <2>2, <2>3, <1>1, SubSeqEmpty
  <2>4. CASE from < last
    <3>1. /\ q \in Seq(Nat) /\ Len(q) = last - from
          /\ \A k \in 1 .. last - from : q[k] = s.samples[from + k]
      <4>1. from + 1 \in 1 .. n + 1 /\ last \in (from + 1) - 1 .. n
        BY <1>1, <2>4
      <4>2. /\ q \in Seq(Nat) /\ Len(q) = last - (from + 1) + 1
            /\ \A k \in 1 .. last - (from + 1) + 1 : q[k] = s.samples[(from + 1) + k - 1]
        BY <1>1, <4>1, SubSeqProperties
      <4> HIDE DEF q
      <4>3. last - (from + 1) + 1 = last - from
        BY <1>1
      <4>4. ASSUME NEW k \in 1 .. last - from PROVE q[k] = s.samples[from + k]
        <5>1. (from + 1) + k - 1 = from + k
          OBVIOUS
        <5> QED
          BY <4>2, <4>3, <5>1
      <4> QED
        BY <4>2, <4>3, <4>4
    <3> DEFINE al == s.alignment + from
    <3>2. al \in Nat
      BY <1>1
    <3> HIDE DEF q, al
    <3>3. q # <<>>
      <4>1. Len(q) # 0
        BY <3>1, <2>4, <1>1
      <4> QED
        BY <4>1
    <3>4. [s EXCEPT !.samples = q, !.alignment = al, !.held = FALSE] \in Series
      BY <3>1, <3>2 DEF Series
    <3>5. r \in Series
      BY <2>1, <3>4 DEF al
    <3> HIDE DEF r
    <3>6. /\ s.alignment <= r.alignment
          /\ r.alignment + Len(r.samples) = s.alignment + last
          /\ r.alignment - s.alignment = from
      <4>1. Len(r.samples) = last - from /\ r.alignment = s.alignment + from
        BY <2>2, <3>1
      <4> HIDE DEF n
      <4> QED
        BY <4>1, <1>1
    <3>7. \A k \in 1 .. Len(r.samples) : r.samples[k] = s.samples[r.alignment - s.alignment + k]
      BY <2>2, <3>1, <3>6
    <3>8. PartOf(r, s)
      BY <2>2, <3>3, <3>5, <3>6, <3>7, <1>1 DEF PartOf
    <3> QED
      BY <3>6, <3>8, <2>2, <2>4, <1>1 DEF r
  <2> QED
    BY <2>3, <2>4, <1>1
<1> QED
  BY <1>3, <1>4

-----------------------------------------------------------------------------
(* writeOne.                                                               *)

(* The series begins inside the entry at lo, and the cut ones after it.     *)
LowIn(d, L, lo) == lo < Len(d) /\ Lower(d[lo + 1]) < L
CutLow(d, L, lo, up) == LowIn(d, L, lo) /\ lo < up

LEMMA AtOrder ==
  ASSUME NEW d \in Seq(Entries), NEW L \in Nat, NEW U \in Nat, L <= U, NEW lo, NEW up,
         At(d, L, lo), At(d, U, up)
  PROVE  lo <= up /\ lo \in 0 .. Len(d) /\ up \in 0 .. Len(d)
<1>1. lo \in 0 .. Len(d) /\ up \in 0 .. Len(d) /\ \A i \in 1 .. Len(d) : Upper(d[i]) \in Nat
  BY EntryFacts DEF At
<1>2. ASSUME up < lo PROVE FALSE
  <2>1. up + 1 \in 1 .. lo /\ up < Len(d) /\ up + 1 \in 1 .. Len(d)
    BY <1>1, <1>2
  <2>2. Upper(d[up + 1]) <= L /\ U < Upper(d[up + 1])
    BY <2>1 DEF At
  <2> QED
    BY <2>1, <2>2, <1>1
<1> QED
  BY <1>1, <1>2

LEMMA PlanFacts ==
  ASSUME NEW d \in Seq(Entries), NEW s \in Series, s.samples # <<>>,
         NEW L, NEW U, L = s.alignment, U = s.alignment + Len(s.samples)
  PROVE  \E lo, up \in 0 .. Len(d) :
         LET from == IF CutLow(d, L, lo, up) THEN Upper(d[lo + 1]) - L ELSE 0
             rem  == IF up < Len(d) /\ Lower(d[up + 1]) <= U THEN U - Lower(d[up + 1]) ELSE 0
             at   == IF CutLow(d, L, lo, up) THEN lo + 1 ELSE lo
         IN  /\ At(d, L, lo) /\ At(d, U, up) /\ lo <= up
             /\ buildInsertionPlan(BoundsOf(d), alignmentBounds(s))
                  = IF lo = up /\ 0 < up /\ LowIn(d, L, lo) THEN NoPlan
                    ELSE Plan(from, rem, at, up - at)
<1> DEFINE bs == BoundsOf(d)
           t == alignmentBounds(s)
           lower == findInsertPosition(bs, t.lower)
           upper == findInsertPosition(bs, t.upper)
           lo == lower.index
           up == upper.index
           n == Len(d)
           lowIn == LowIn(d, L, lo)
           from == IF CutLow(d, L, lo, up) THEN Upper(d[lo + 1]) - L ELSE 0
           rem  == IF up < n /\ Lower(d[up + 1]) <= U THEN U - Lower(d[up + 1]) ELSE 0
           at   == IF CutLow(d, L, lo, up) THEN lo + 1 ELSE lo
           plan == buildInsertionPlan(bs, t)
<1>1. t.lower = L /\ t.upper = U /\ L \in Nat /\ U \in Nat /\ L < U
  BY DEF alignmentBounds, Series
<1>2. /\ At(d, L, lo)
      /\ lower.position = IF lo < n /\ Lower(d[lo + 1]) <= L THEN L - Lower(d[lo + 1]) ELSE 0
  BY <1>1, FindFacts
<1>3. /\ At(d, U, up)
      /\ upper.position = rem
  BY <1>1, FindFacts
<1>4. /\ Len(bs) = n /\ (bs = <<>> <=> n = 0) /\ n \in Nat
      /\ \A i \in 1 .. n : bs[i].lower = Lower(d[i]) /\ bs[i].upper = Upper(d[i])
  BY BoundsFacts
<1>5. \A i \in 1 .. n : Lower(d[i]) \in Nat /\ Upper(d[i]) \in Nat /\ Lower(d[i]) < Upper(d[i])
  BY EntryFacts
<1>6. plan =
      CASE bs = <<>> -> Plan(0, 0, 0, 0)
        [] bs # <<>> /\ lo = Len(bs) -> Plan(0, 0, Len(bs), 0)
        [] bs # <<>> /\ lo < Len(bs) /\ up = 0 -> Plan(0, upper.position, 0, 0)
        [] lo = up /\ up \in 1 .. Len(bs) - 1 ->
               IF lower.position # 0 /\ upper.position # 0 THEN NoPlan
               ELSE Plan(lower.position, upper.position, lo, 0)
        [] OTHER ->
               Plan(IF lower.position # 0 THEN span(bs[lo + 1]) - lower.position ELSE 0,
                    upper.position,
                    IF lower.position # 0 THEN lo + 1 ELSE lo,
                    up - lo - (IF lower.position # 0 THEN 1 ELSE 0))
  BY DEF buildInsertionPlan
<1>7. lo <= up /\ lo \in 0 .. n /\ up \in 0 .. n
  <2> HIDE DEF lo, up
  <2> QED
    BY <1>1, <1>2, <1>3, AtOrder
<1> DEFINE lp == lower.position
<1>8. /\ lp # 0 <=> lowIn
      /\ lowIn => lp = L - Lower(d[lo + 1]) /\ lo + 1 \in 1 .. n
      /\ lp \in Int
  BY <1>1, <1>2, <1>4, <1>5, <1>7 DEF LowIn
<1> HIDE DEF bs, t, plan, lo, up, lowIn, lp, n
<1>9. plan = IF lo = up /\ 0 < up /\ lowIn THEN NoPlan ELSE Plan(from, rem, at, up - at)
  <2>1. CASE lo = n
    <3>1. up = n /\ ~lowIn
      BY <2>1, <1>7 DEF LowIn, lowIn, n
    <3>2. rem = 0 /\ from = 0 /\ at = n /\ up - at = 0
      BY <3>1, <2>1, <1>4 DEF CutLow, lowIn
    <3>3. plan = Plan(0, 0, n, 0)
      BY <1>4, <1>6, <2>1
    <3> QED
      BY <3>1, <3>2, <3>3
  <2>2. CASE lo < n /\ up = 0
    <3>1. lo = 0 /\ ~CutLow(d, L, lo, up)
      BY <2>2, <1>7 DEF CutLow
    <3>2. from = 0 /\ at = 0 /\ up - at = 0
      <4>1. from = 0 /\ at = lo
        BY <3>1
      <4> HIDE DEF at, from
      <4> QED
        BY <4>1, <3>1, <2>2
    <3>3. plan = Plan(0, rem, 0, 0)
      BY <1>4, <1>6, <2>2, <1>3
    <3> QED
      BY <2>2, <3>2, <3>3
  <2>3. CASE lo < n /\ lo = up /\ 0 < up
    <3>1. bs # <<>> /\ lo < Len(bs) /\ up # 0 /\ up \in 1 .. Len(bs) - 1
      BY <2>3, <1>4, <1>7
    <3>2. plan = IF lp # 0 /\ rem # 0 THEN NoPlan ELSE Plan(lp, rem, lo, 0)
      BY <3>1, <2>3, <1>6, <1>3 DEF lp
    <3>3. lowIn => rem # 0
      <4> SUFFICES ASSUME lowIn PROVE rem # 0
        OBVIOUS
      <4>1. up < n /\ Lower(d[up + 1]) < L /\ Lower(d[up + 1]) \in Nat
        BY <2>3, <1>5, <1>7, <1>8 DEF lowIn, LowIn
      <4> QED
        BY <4>1, <1>1
    <3>4. ~lowIn => from = 0 /\ at = lo /\ up - at = 0 /\ lp = 0
      BY <2>3, <1>7, <1>8 DEF CutLow, lowIn
    <3> QED
      BY <3>2, <3>3, <3>4, <2>3, <1>8
  <2>4. CASE lo < n /\ lo < up
    <3>1. bs # <<>> /\ lo < Len(bs) /\ up # 0 /\ lo # up
      BY <2>4, <1>4, <1>7
    <3>2. plan = Plan(IF lp # 0 THEN span(bs[lo + 1]) - lp ELSE 0, rem,
                      IF lp # 0 THEN lo + 1 ELSE lo, up - lo - (IF lp # 0 THEN 1 ELSE 0))
      BY <3>1, <1>6, <1>3 DEF lp
    <3>3. CutLow(d, L, lo, up) <=> lp # 0
      BY <1>8, <2>4 DEF CutLow, lowIn
    <3>4. CASE lowIn
      <4>1. span(bs[lo + 1]) - lp = Upper(d[lo + 1]) - L
        BY <3>4, <1>8, <1>4, <1>5, <1>1, SMTT(30) DEF span
      <4>2. up - lo - 1 = up - (lo + 1)
        BY <1>7, <1>4
      <4> QED
        BY <4>1, <4>2, <3>1, <3>2, <3>3, <3>4, <1>8
    <3>5. CASE ~lowIn
      <4>2. up - lo - 0 = up - lo
        BY <1>7, <1>4
      <4> QED
        BY <4>2, <3>1, <3>2, <3>3, <3>5, <1>8
    <3> QED
      BY <3>4, <3>5
  <2> QED
    BY <2>1, <2>2, <2>3, <2>4, <1>7, <1>4
<1> QED
  BY <1>2, <1>3, <1>7, <1>9 DEF lowIn, bs, t, plan, n

In(p, e) == Lower(e) <= p /\ p < Upper(e)

(* Nothing is written: the entries at lo and up have all of [L, U).         *)
Had(d, L, U, lo, up) ==
  \A p \in L .. U - 1 : \/ lo < Len(d) /\ In(p, d[lo + 1])
                        \/ up < Len(d) /\ In(p, d[up + 1])

(* x, the part of [L, U) the entries at lo and up do not have, takes the    *)
(* place of the entries between them.                                       *)
Fits(d, L, U, lo, up, x, at) ==
  /\ IF CutLow(d, L, lo, up) THEN at = lo + 1 /\ Lower(x) = Upper(d[lo + 1])
                             ELSE at = lo /\ Lower(x) = L
  /\ L <= Lower(x) /\ Upper(x) <= U
  /\ LowIn(d, L, lo) => lo < up \/ up = 0
  /\ up < Len(d) => Upper(x) <= Lower(d[up + 1]) \/ Lower(d[up + 1]) < L
  /\ \A p \in Upper(x) .. U - 1 : up < Len(d) /\ In(p, d[up + 1])

(* r is d with the entries at+1 .. up replaced by x.                       *)
Spliced(r, d, at, up, x) ==
  /\ r \in Seq(Entries) /\ Len(r) = Len(d) + 1 - (up - at)
  /\ \A i \in 1 .. at : r[i] = d[i]
  /\ r[at + 1] = x
  /\ \A i \in at + 2 .. Len(r) : r[i] = d[i + up - at - 1]

LEMMA SpliceReplaces ==
  ASSUME NEW d \in Seq(Entries), NEW at \in 0 .. Len(d), NEW up \in at .. Len(d), NEW x \in Entries
  PROVE  Spliced(Splice(d, at, up - at, x), d, at, up, x)
<1> DEFINE del == up - at
           r == Splice(d, at, del, x)
<1>1. at \in Nat /\ up \in Nat /\ Len(d) \in Nat /\ at <= up /\ up <= Len(d)
      /\ del \in 0 .. Len(d) - at /\ del \in Int /\ del = up - at
  OBVIOUS
<1> HIDE DEF del
<1>2. /\ r \in Seq(Entries) /\ Len(r) = Len(d) + 1 - del
      /\ \A i \in 1 .. at : r[i] = d[i]
      /\ r[at + 1] = x
      /\ \A i \in at + 2 .. Len(r) : r[i] = d[i + del - 1]
  <2>1. del \in 0 .. Len(d) - at
    BY <1>1
  <2>2. Replaced(r, Entries, d, at, del, x)
    BY <2>1, SpliceFacts
  <2> HIDE DEF r
  <2> QED
    BY <2>1, <2>2 DEF Replaced
<1> HIDE DEF r
<1>3. ASSUME NEW i \in at + 2 .. Len(r) PROVE r[i] = d[i + up - at - 1]
  <2>1. i + del - 1 = i + up - at - 1 /\ i \in Int
    BY <1>1, <1>2
  <2>2. r[i] = d[i + del - 1]
    BY <1>2
  <2> QED
    BY <2>1, <2>2
<1>4. Spliced(r, d, at, up, x)
  BY <1>1, <1>2, <1>3 DEF Spliced
<1> QED
  BY <1>4 DEF r, del

(* Where the entries that stay are found.                                   *)
LEMMA SplicedKeeps ==
  ASSUME NEW d \in Seq(Entries), NEW at \in 0 .. Len(d), NEW up \in at .. Len(d), NEW x, NEW r,
         Spliced(r, d, at, up, x)
  PROVE  /\ Len(r) \in Nat /\ at + 1 \in 1 .. Len(r)
         /\ \A i \in 1 .. at : i \in 1 .. Len(r) /\ r[i] = d[i]
         /\ \A k \in up + 1 .. Len(d) : \E i \in at + 2 .. Len(r) : r[i] = d[k]
         /\ up < Len(d) => at + 2 \in 1 .. Len(r) /\ r[at + 2] = d[up + 1]
<1>1. /\ at \in Nat /\ up \in Nat /\ Len(d) \in Nat /\ at <= up /\ up <= Len(d)
      /\ Len(r) \in Nat /\ Len(r) = Len(d) + 1 - (up - at)
      /\ \A i \in at + 2 .. Len(r) : r[i] = d[i + up - at - 1]
      /\ \A i \in 1 .. at : r[i] = d[i]
  BY DEF Spliced
<1>2. at + 1 \in 1 .. Len(r) /\ at < Len(r)
  BY <1>1
<1>3. ASSUME NEW k \in up + 1 .. Len(d) PROVE \E i \in at + 2 .. Len(r) : r[i] = d[k]
  <2> DEFINE i == k - up + at + 1
  <2>1. i \in at + 2 .. Len(r) /\ i + up - at - 1 = k
    BY <1>1
  <2> HIDE DEF i
  <2> QED
    BY <1>1, <2>1
<1>4. ASSUME up < Len(d) PROVE at + 2 \in 1 .. Len(r) /\ r[at + 2] = d[up + 1]
  <2> DEFINE i == at + 2
  <2>1. i \in at + 2 .. Len(r) /\ i \in 1 .. Len(r) /\ i + up - at - 1 = up + 1
    BY <1>1, <1>4
  <2>2. r[i] = d[i + up - at - 1]
    <3> HIDE DEF i
    <3> QED
      BY <1>1, <2>1
  <2> QED
    BY <2>1, <2>2
<1>5. ASSUME NEW i \in 1 .. at PROVE i \in 1 .. Len(r) /\ r[i] = d[i]
  BY <1>1, <1>2
<1> QED
  BY <1>1, <1>2, <1>3, <1>4, <1>5

LEMMA WriteOneFacts ==
  ASSUME NEW d \in Seq(Entries), NEW s \in Series, s.samples # <<>>,
         NEW L, NEW U, L = s.alignment, U = s.alignment + Len(s.samples)
  PROVE  \E lo, up \in 0 .. Len(d) :
         /\ At(d, L, lo) /\ At(d, U, up) /\ lo <= up
         /\ \/ writeOne(d, s) = d /\ Had(d, L, U, lo, up)
            \/ \E x \in Entries, at \in lo .. up :
                 /\ PartOf(x.series, s) /\ x.age = 0 /\ Fits(d, L, U, lo, up, x, at)
                 /\ Spliced(writeOne(d, s), d, at, up, x)
<1> DEFINE n == Len(d)
           len == Len(s.samples)
<1>1. L \in Nat /\ U \in Nat /\ L < U /\ n \in Nat /\ len \in Nat /\ U = L + len /\ len > 0
  BY DEF Series
<1>2. \A i \in 1 .. n : Lower(d[i]) \in Nat /\ Upper(d[i]) \in Nat /\ Lower(d[i]) < Upper(d[i])
  BY EntryFacts
<1> DEFINE From(lo, up) == IF CutLow(d, L, lo, up) THEN Upper(d[lo + 1]) - L ELSE 0
           Rem(up) == IF up < Len(d) /\ Lower(d[up + 1]) <= U THEN U - Lower(d[up + 1]) ELSE 0
           Pos(lo, up) == IF CutLow(d, L, lo, up) THEN lo + 1 ELSE lo
           plan == buildInsertionPlan(BoundsOf(d), alignmentBounds(s))
<1>3. PICK lo \in 0 .. n, up \in 0 .. n :
        /\ At(d, L, lo) /\ At(d, U, up) /\ lo <= up
        /\ plan = IF lo = up /\ 0 < up /\ LowIn(d, L, lo) THEN NoPlan
                  ELSE Plan(From(lo, up), Rem(up), Pos(lo, up), up - Pos(lo, up))
  BY PlanFacts
<1>7. lo \in Nat /\ up \in Nat /\ lo <= up /\ up <= n
  BY <1>3
<1> DEFINE from == From(lo, up)
           rem == Rem(up)
           at == Pos(lo, up)
           to == len - rem
           last == IF to < 0 THEN len + to ELSE to
           cut == slice(s, from, to)
           x == [series |-> cut, age |-> 0]
<1>4. /\ lo < n => L < Upper(d[lo + 1]) /\ lo + 1 \in 1 .. n
      /\ up < n => U < Upper(d[up + 1]) /\ up + 1 \in 1 .. n
      /\ lo < up => Upper(d[lo + 1]) <= U
  BY <1>1, <1>3 DEF At
<1> SUFFICES \/ writeOne(d, s) = d /\ Had(d, L, U, lo, up)
             \/ /\ x \in Entries /\ at \in lo .. up
                /\ PartOf(x.series, s) /\ x.age = 0 /\ Fits(d, L, U, lo, up, x, at)
                /\ Spliced(writeOne(d, s), d, at, up, x)
  BY <1>3
<1>5. CASE lo = up /\ 0 < up /\ LowIn(d, L, lo)
  <2>1. writeOne(d, s) = d
    BY <1>3, <1>5 DEF writeOne
  <2>2. Had(d, L, U, lo, up)
    BY <1>1, <1>2, <1>4, <1>5, SMTT(30) DEF Had, In, LowIn
  <2> QED
    BY <2>1, <2>2
<1>6. CASE ~(lo = up /\ 0 < up /\ LowIn(d, L, lo))
  <2>1. at \in lo .. up /\ at \in Nat
    BY <1>1, <1>3 DEF CutLow
  <2>2. plan = Plan(from, rem, at, up - at)
    BY <1>3, <1>6
  <2>3. /\ plan.removeBefore = from /\ plan.removeAfter = rem /\ plan.insertInto = at
        /\ plan.deleteInBetween = up - at /\ plan # NoPlan
    <3> HIDE DEF plan, from, rem, at
    <3>1. plan.insertInto = at /\ NoPlan.insertInto = -1
      BY <2>2 DEF Plan, NoPlan
    <3> QED
      BY <2>1, <2>2, <3>1 DEF Plan
  <2>4. writeOne(d, s) = IF cut.samples = <<>> THEN d ELSE Splice(d, at, up - at, x)
    <3> HIDE DEF plan, from, rem, at
    <3> QED
      BY <2>3 DEF writeOne, plan
  <2>5. from \in 0 .. len /\ rem \in Nat
    <3>1. from \in 0 .. len
      <4>1. CASE CutLow(d, L, lo, up)
        <5>1. lo < n /\ lo < up
          BY <4>1 DEF CutLow, LowIn
        <5>2. from = Upper(d[lo + 1]) - L
          BY <4>1
        <5>3. Upper(d[lo + 1]) \in Nat /\ L < Upper(d[lo + 1]) /\ Upper(d[lo + 1]) <= U
          BY <5>1, <1>2, <1>4
        <5> HIDE DEF from
        <5> QED
          BY <5>2, <5>3, <1>1
      <4>2. CASE ~CutLow(d, L, lo, up)
        BY <4>2, <1>1
      <4> QED
        BY <4>1, <4>2
    <3>2. rem \in Nat
      BY <1>1, <1>2, <1>4
    <3> QED
      BY <3>1, <3>2
  <2>6. /\ up = n \/ (up < n /\ Lower(d[up + 1]) > U) => rem = 0
        /\ up < n /\ Lower(d[up + 1]) <= U => rem = U - Lower(d[up + 1])
        /\ CutLow(d, L, lo, up) => from = Upper(d[lo + 1]) - L /\ at = lo + 1
        /\ ~CutLow(d, L, lo, up) => from = 0 /\ at = lo
    BY <1>1, <1>2, <1>3, <1>4
  <2>7. /\ from >= last => cut.samples = <<>>
        /\ from < last => /\ PartOf(cut, s) /\ cut.alignment = s.alignment + from
                          /\ cut.alignment + Len(cut.samples) = s.alignment + last
    <3> HIDE DEF from, rem
    <3>1. from \in Nat /\ to \in Int /\ to <= len
      BY <1>1, <2>5
    <3>2. last = IF to < 0 THEN len + to ELSE to
      OBVIOUS
    <3> HIDE DEF to, last
    <3> QED
      BY <3>1, <3>2, SliceFacts DEF EndsAt
  <2> HIDE DEF from, rem, at, cut
  <2>11. /\ last \in Int /\ last <= len
         /\ up = n \/ (up < n /\ Lower(d[up + 1]) > U) => L + last = U
         /\ up < n /\ L <= Lower(d[up + 1]) /\ Lower(d[up + 1]) <= U
                => L + last = Lower(d[up + 1])
    <3>1. to \in Int /\ to <= len
      BY <1>1, <2>5
    <3>2. last \in Int /\ last <= len
      BY <3>1, <1>1
    <3>3. up = n \/ (up < n /\ Lower(d[up + 1]) > U) => L + last = U
      BY <2>6, <1>1
    <3>4. up < n /\ L <= Lower(d[up + 1]) /\ Lower(d[up + 1]) <= U
                => L + last = Lower(d[up + 1])
      <4> SUFFICES ASSUME up < n, L <= Lower(d[up + 1]), Lower(d[up + 1]) <= U
                   PROVE  L + last = Lower(d[up + 1])
        OBVIOUS
      <4>1. rem = U - Lower(d[up + 1]) /\ Lower(d[up + 1]) \in Nat
        BY <2>6, <1>2, <1>4
      <4>2. to = Lower(d[up + 1]) - L /\ to >= 0
        BY <4>1, <1>1, SMTT(30)
      <4>3. last = to
        <5> HIDE DEF to
        <5> QED
          BY <4>2
      <4> HIDE DEF to, last
      <4> QED
        BY <4>1, <4>2, <4>3, <1>1
    <3> QED
      BY <3>2, <3>3, <3>4
  <2> HIDE DEF last
  <2>8. ASSUME NEW p \in L .. U - 1, L + last <= p PROVE up < n /\ In(p, d[up + 1])
    <3>1. up < n /\ up + 1 \in 1 .. n
      BY <1>1, <1>4, <1>7, <2>8, <2>11
    <3>2. Lower(d[up + 1]) \in Nat /\ Upper(d[up + 1]) \in Nat /\ U < Upper(d[up + 1])
      BY <3>1, <1>2, <1>4
    <3>3. Lower(d[up + 1]) <= p
      BY <3>1, <3>2, <1>1, <2>8, <2>11, SMTT(30)
    <3> QED
      BY <3>1, <3>2, <3>3, <1>1 DEF In
  <2>9. CASE from >= last
    <3>1. ASSUME NEW p \in L .. U - 1, p < L + from PROVE lo < n /\ In(p, d[lo + 1])
      BY <1>1, <1>2, <1>3, <1>4, <2>5, <2>6, <3>1 DEF In, CutLow, LowIn
    <3>2. ASSUME NEW p \in L .. U - 1 PROVE p < L + from \/ L + last <= p
      BY <2>9, <1>1, <2>5, <2>11
    <3> QED
      BY <2>4, <2>7, <2>8, <2>9, <3>1, <3>2 DEF Had
  <2>10. CASE from < last
    <3>1. PartOf(cut, s) /\ cut.alignment = L + from
          /\ cut.alignment + Len(cut.samples) = L + last
      BY <2>7, <2>10
    <3>2. cut \in Series /\ cut.samples # <<>>
      BY <3>1 DEF PartOf
    <3>3. x \in Entries
      BY <3>2, CacheAssumption DEF Entries
    <3>4. Lower(x) = L + from /\ Upper(x) = L + last
      BY <3>1 DEF Lower, Upper
    <3> HIDE DEF x
    <3>5. L <= Lower(x) /\ Upper(x) <= U
      BY <3>4, <1>1, <2>5, <2>11, SMTT(30)
    <3>6. up < n => Upper(x) <= Lower(d[up + 1]) \/ Lower(d[up + 1]) < L
      BY <3>4, <1>1, <1>2, <1>4, <2>11
    <3>7. IF CutLow(d, L, lo, up) THEN at = lo + 1 /\ Lower(x) = Upper(d[lo + 1])
                                  ELSE at = lo /\ Lower(x) = L
      BY <3>4, <1>1, <1>2, <1>4, <2>5, <2>6, SMTT(30) DEF CutLow, LowIn
    <3>8. \A p \in Upper(x) .. U - 1 : up < n /\ In(p, d[up + 1])
      <4>1. Upper(x) .. U - 1 \subseteq L .. U - 1
        BY <3>4, <2>5, <2>10, <2>11, <1>1
      <4> QED
        BY <4>1, <2>8, <3>4, <2>11, <1>1
    <3>9. Fits(d, L, U, lo, up, x, at)
      <4>1. LowIn(d, L, lo) => lo < up \/ up = 0
        BY <1>6, <1>7
      <4> QED
        BY <3>5, <3>6, <3>7, <3>8, <4>1 DEF Fits
    <3>10. Spliced(Splice(d, at, up - at, x), d, at, up, x)
      <4>1. at \in 0 .. Len(d) /\ up \in at .. Len(d)
        BY <2>1, <1>7, <1>1
      <4> QED
        BY <3>3, <4>1, SpliceReplaces
    <3> QED
      BY <3>1, <3>2, <3>3, <3>9, <3>10, <2>1, <2>4 DEF x
  <2> QED
    BY <2>9, <2>10, <2>5, <2>11, <1>1
<1> QED
  BY <1>5, <1>6

-----------------------------------------------------------------------------
(* What a write does to the entries.                                       *)

Covers(d, p) == \E k \in 1 .. Len(d) : In(p, d[k])

(* p is in an entry, and none before that one goes past v.                  *)
Reach(d, p, v) ==
  \E k \in 1 .. Len(d) : In(p, d[k]) /\ \A j \in 1 .. k - 1 : Upper(d[j]) <= v

Apart(d) == \A i, j \in 1 .. Len(d) : i < j => Upper(d[i]) <= Lower(d[j])

LEMMA WriteOneType ==
  ASSUME NEW G, G \subseteq Entries, NEW d \in Seq(G), NEW s \in Series, s.samples # <<>>,
         \A x \in Entries : PartOf(x.series, s) /\ x.age = 0 => x \in G
  PROVE  writeOne(d, s) \in Seq(G)
<1>1. d \in Seq(Entries) /\ Len(d) \in Nat
  OBVIOUS
<1> DEFINE L == s.alignment
           U == s.alignment + Len(s.samples)
<1>2. PICK lo \in 0 .. Len(d), up \in 0 .. Len(d) :
        \/ writeOne(d, s) = d
        \/ \E x \in Entries, at \in lo .. up :
             /\ PartOf(x.series, s) /\ x.age = 0
             /\ Spliced(writeOne(d, s), d, at, up, x)
  <2> HIDE DEF L, U
  <2> QED
    BY <1>1, WriteOneFacts DEF L, U
<1>3. CASE writeOne(d, s) = d
  BY <1>3
<1>4. ASSUME NEW x \in Entries, NEW at \in lo .. up, PartOf(x.series, s), x.age = 0,
             Spliced(writeOne(d, s), d, at, up, x)
      PROVE  writeOne(d, s) \in Seq(G)
  <2> DEFINE r == writeOne(d, s)
  <2>1. x \in G /\ at \in Nat /\ up \in Nat /\ at <= up /\ up <= Len(d)
    BY <1>1, <1>4
  <2>2. /\ r \in Seq(Entries) /\ Len(r) = Len(d) + 1 - (up - at) /\ Len(r) \in Nat
        /\ \A i \in 1 .. at : r[i] = d[i]
        /\ r[at + 1] = x
        /\ \A i \in at + 2 .. Len(r) : r[i] = d[i + up - at - 1]
    BY <1>4 DEF Spliced
  <2> HIDE DEF r
  <2>3. ASSUME NEW i \in 1 .. Len(r) PROVE r[i] \in G
    <3>1. CASE i \in 1 .. at
      BY <3>1, <2>1, <2>2, <1>1
    <3>2. CASE i = at + 1
      BY <3>2, <2>1, <2>2
    <3>3. CASE i \in at + 2 .. Len(r)
      <4>1. i + up - at - 1 \in 1 .. Len(d)
        BY <3>3, <2>1, <2>2, <1>1
      <4> QED
        BY <3>3, <4>1, <2>2
    <3> QED
      BY <3>1, <3>2, <3>3, <2>1
  <2>4. r \in Seq(G)
    BY <2>2, <2>3, SeqOf
  <2> QED
    BY <2>4 DEF r
<1> QED
  BY <1>2, <1>3, <1>4

LEMMA WriteLands ==
  ASSUME NEW d \in Seq(Entries), NEW s \in Series, s.samples # <<>>,
         NEW L, NEW U, L = s.alignment, U = s.alignment + Len(s.samples), NEW p \in L .. U - 1
  PROVE  Reach(writeOne(d, s), p, U)
<1> DEFINE n == Len(d)
<1>1. L \in Nat /\ U \in Nat /\ L < U /\ n \in Nat /\ p \in Nat
  BY DEF Series
<1>2. \A i \in 1 .. n : Lower(d[i]) \in Nat /\ Upper(d[i]) \in Nat
  BY EntryFacts
<1>3. PICK lo \in 0 .. n, up \in 0 .. n :
        /\ At(d, L, lo) /\ At(d, U, up) /\ lo <= up
        /\ \/ writeOne(d, s) = d /\ Had(d, L, U, lo, up)
           \/ \E x \in Entries, at \in lo .. up :
                /\ PartOf(x.series, s) /\ x.age = 0 /\ Fits(d, L, U, lo, up, x, at)
                /\ Spliced(writeOne(d, s), d, at, up, x)
  BY WriteOneFacts
<1>4. /\ \A j \in 1 .. lo : Upper(d[j]) <= U
      /\ \A j \in 1 .. up : Upper(d[j]) <= U
      /\ lo \in Nat /\ up \in Nat /\ lo <= up /\ up <= n
  BY <1>1, <1>2, <1>3 DEF At
<1>5. CASE writeOne(d, s) = d /\ Had(d, L, U, lo, up)
  <2>1. CASE lo < n /\ In(p, d[lo + 1])
    <3>1. lo + 1 \in 1 .. n /\ (lo + 1) - 1 = lo
      BY <2>1, <1>1, <1>4
    <3> QED
      BY <1>4, <1>5, <2>1, <3>1 DEF Reach
  <2>2. CASE up < n /\ In(p, d[up + 1])
    <3>1. up + 1 \in 1 .. n /\ (up + 1) - 1 = up
      BY <2>2, <1>1, <1>4
    <3> QED
      BY <1>4, <1>5, <2>2, <3>1 DEF Reach
  <2> QED
    BY <1>5, <2>1, <2>2 DEF Had
<1>6. ASSUME NEW x \in Entries, NEW at \in lo .. up, Fits(d, L, U, lo, up, x, at),
             Spliced(writeOne(d, s), d, at, up, x)
      PROVE  Reach(writeOne(d, s), p, U)
  <2> DEFINE r == writeOne(d, s)
  <2>1. /\ at + 1 \in 1 .. Len(r) /\ r[at + 1] = x
        /\ \A i \in 1 .. at : i \in 1 .. Len(r) /\ r[i] = d[i]
        /\ up < n => at + 2 \in 1 .. Len(r) /\ r[at + 2] = d[up + 1]
    <3>1. at \in 0 .. n /\ up \in at .. n
      BY <1>1, <1>4
    <3> HIDE DEF r
    <3> QED
      BY <3>1, <1>6, SplicedKeeps DEF Spliced, r
  <2> HIDE DEF r
  <2>2. /\ Lower(x) \in Nat /\ Upper(x) \in Nat /\ at \in Nat /\ at <= up
        /\ IF CutLow(d, L, lo, up) THEN at = lo + 1 /\ Lower(x) = Upper(d[lo + 1])
                                   ELSE at = lo /\ Lower(x) = L
        /\ Upper(x) <= U
        /\ \A q \in Upper(x) .. U - 1 : up < n /\ In(q, d[up + 1])
    BY <1>4, <1>6, EntryFacts DEF Fits
  <2>3. CASE p < Lower(x)
    <3>1. CutLow(d, L, lo, up) /\ at = lo + 1 /\ Lower(x) = Upper(d[lo + 1])
      BY <2>2, <2>3, <1>1
    <3>2. lo + 1 \in 1 .. n /\ lo + 1 \in 1 .. at /\ Lower(d[lo + 1]) < L
      BY <3>1, <1>1, <1>4 DEF CutLow, LowIn
    <3>3. r[lo + 1] = d[lo + 1] /\ lo + 1 \in 1 .. Len(r)
      BY <3>2, <2>1
    <3>4. In(p, r[lo + 1])
      BY <3>1, <3>2, <3>3, <2>3, <1>1, <1>2 DEF In
    <3>5. ASSUME NEW j \in 1 .. (lo + 1) - 1 PROVE Upper(r[j]) <= U
      <4>1. j \in 1 .. lo /\ j \in 1 .. at
        BY <3>1, <1>4
      <4> QED
        BY <4>1, <2>1, <1>4
    <3> QED
      BY <3>3, <3>4, <3>5 DEF Reach, r
  <2>4. CASE Lower(x) <= p /\ p < Upper(x)
    <3>1. In(p, r[at + 1])
      BY <2>1, <2>4 DEF In
    <3>2. ASSUME NEW j \in 1 .. (at + 1) - 1 PROVE Upper(r[j]) <= U
      <4>1. j \in 1 .. up /\ j \in 1 .. at
        BY <2>2, <1>4
      <4> QED
        BY <4>1, <2>1, <1>4
    <3> QED
      BY <2>1, <3>1, <3>2 DEF Reach, r
  <2>5. CASE Upper(x) <= p
    <3>1. up < n /\ In(p, d[up + 1])
      BY <2>2, <2>5, <1>1
    <3>4. at + 2 \in 1 .. Len(r) /\ In(p, r[at + 2])
      BY <3>1, <2>1
    <3>5. ASSUME NEW j \in 1 .. (at + 2) - 1 PROVE Upper(r[j]) <= U
      <4>1. j = at + 1 \/ (j \in 1 .. up /\ j \in 1 .. at)
        BY <2>2, <1>4
      <4> QED
        BY <4>1, <2>1, <2>2, <1>4
    <3> QED
      BY <3>4, <3>5 DEF Reach, r
  <2> QED
    BY <2>2, <2>3, <2>4, <2>5, <1>1
<1> QED
  BY <1>3, <1>5, <1>6

LEMMA WriteKeepsEarly ==
  ASSUME NEW d \in Seq(Entries), NEW s \in Series, s.samples # <<>>,
         NEW p \in Nat, p < s.alignment, Reach(d, p, s.alignment)
  PROVE  Reach(writeOne(d, s), p, s.alignment + Len(s.samples))
<1> DEFINE n == Len(d)
           L == s.alignment
           U == s.alignment + Len(s.samples)
<1>1. L \in Nat /\ U \in Nat /\ L < U /\ n \in Nat
  BY DEF Series
<1>2. \A i \in 1 .. n : Lower(d[i]) \in Nat /\ Upper(d[i]) \in Nat
  BY EntryFacts
<1>3. PICK lo \in 0 .. n, up \in 0 .. n :
        /\ At(d, L, lo) /\ At(d, U, up) /\ lo <= up
        /\ \/ writeOne(d, s) = d
           \/ \E x \in Entries, at \in lo .. up :
                /\ Fits(d, L, U, lo, up, x, at)
                /\ Spliced(writeOne(d, s), d, at, up, x)
  <2>1. L = s.alignment /\ U = s.alignment + Len(s.samples)
    OBVIOUS
  <2> HIDE DEF L, U
  <2> QED
    BY <2>1, WriteOneFacts
<1>4. PICK k \in 1 .. n : In(p, d[k]) /\ \A j \in 1 .. k - 1 : Upper(d[j]) <= L
  BY DEF Reach
<1>5. CASE writeOne(d, s) = d
  <2>1. \A j \in 1 .. k - 1 : j \in 1 .. n /\ Upper(d[j]) <= U
    BY <1>1, <1>2, <1>4, SMTT(30)
  <2> QED
    BY <1>4, <1>5, <2>1 DEF Reach
<1>6. ASSUME NEW x \in Entries, NEW at \in lo .. up, Fits(d, L, U, lo, up, x, at),
             Spliced(writeOne(d, s), d, at, up, x)
      PROVE  Reach(writeOne(d, s), p, U)
  <2> DEFINE r == writeOne(d, s)
  <2>1. /\ at \in Nat /\ up \in Nat /\ at <= up /\ up <= n /\ Len(r) = n + 1 - (up - at)
        /\ \A i \in 1 .. at : r[i] = d[i]
        /\ r[at + 1] = x
        /\ \A i \in at + 2 .. Len(r) : r[i] = d[i + up - at - 1]
    <3>1. at \in Nat /\ up \in Nat /\ at <= up /\ up <= n
      BY <1>1, <1>3
    <3> HIDE DEF r
    <3> QED
      BY <3>1, <1>6 DEF r, Spliced
  <2>5. Upper(x) \in Nat /\ Upper(x) <= U
    BY <1>6, EntryFacts DEF Fits
  <2> HIDE DEF r, L, U
  <2>2. CASE k \in 1 .. at
    <3>1. k \in 1 .. Len(r) /\ In(p, r[k])
      BY <2>1, <2>2, <1>1, <1>4
    <3>2. ASSUME NEW j \in 1 .. k - 1 PROVE Upper(r[j]) <= U
      <4>1. j \in 1 .. at /\ j \in 1 .. n
        BY <2>1, <2>2, <1>1
      <4>2. Upper(d[j]) <= L /\ Upper(d[j]) \in Nat
        BY <4>1, <1>2, <1>4
      <4> QED
        BY <4>1, <4>2, <2>1, <1>1
    <3> QED
      BY <3>1, <3>2 DEF Reach, r
  <2>3. CASE k \in up + 1 .. n
    <3> DEFINE i == k - up + at + 1
    <3>1. i \in at + 2 .. Len(r) /\ i \in 1 .. Len(r) /\ i + up - at - 1 = k
      BY <2>1, <2>3, <1>1
    <3>2. In(p, r[i])
      BY <3>1, <2>1, <1>4
    <3>3. ASSUME NEW j \in 1 .. i - 1 PROVE Upper(r[j]) <= U
      <4>1. CASE j \in 1 .. at
        <5>1. j \in 1 .. k - 1 /\ j \in 1 .. n
          BY <4>1, <2>1, <2>3, <1>1
        <5>2. Upper(d[j]) <= L /\ Upper(d[j]) \in Nat
          BY <5>1, <1>2, <1>4
        <5>3. r[j] = d[j]
          BY <4>1, <2>1
        <5> QED
          BY <5>2, <5>3, <1>1
      <4>2. CASE j = at + 1
        BY <4>2, <2>1, <2>5
      <4>3. CASE j \in at + 2 .. i - 1
        <5> DEFINE h == j + up - at - 1
        <5>1. h \in 1 .. k - 1 /\ h \in 1 .. n /\ j \in at + 2 .. Len(r)
          BY <4>3, <3>1, <2>1, <2>3, <1>1
        <5>2. r[j] = d[h]
          BY <5>1, <2>1
        <5> HIDE DEF h
        <5>3. Upper(d[h]) <= L /\ Upper(d[h]) \in Nat
          BY <5>1, <1>2, <1>4
        <5> QED
          BY <5>2, <5>3, <1>1
      <4> QED
        BY <4>1, <4>2, <4>3, <3>1, <2>1
    <3> HIDE DEF i
    <3> QED
      BY <3>1, <3>2, <3>3 DEF Reach, r
  <2>4. CASE k \in at + 1 .. up
    <3>1. lo < n /\ L < Upper(d[lo + 1]) /\ lo + 1 \in 1 .. n /\ at >= lo
      BY <1>1, <1>3, <1>6, <2>4 DEF At
    <3>2. ~(lo + 1 \in 1 .. k - 1)
      BY <3>1, <1>1, <1>2, <1>4
    <3>3. k = lo + 1 /\ at = lo /\ lo < up
      BY <3>1, <3>2, <2>4, <1>3, <1>6
    <3>4. CutLow(d, L, lo, up)
      BY <3>1, <3>3, <1>1, <1>2, <1>4 DEF CutLow, LowIn, In, L
    <3> QED
      BY <3>3, <3>4, <1>6 DEF Fits
  <2> QED
    BY <2>2, <2>3, <2>4, <1>3, <1>6, <1>1
<1> QED
  BY <1>3, <1>5, <1>6

(* A series that is not inside the first entry keeps the entries apart and *)
(* takes no position out of them.                                          *)
LEMMA WriteKeeps ==
  ASSUME NEW d \in Seq(Entries), NEW s \in Series, s.samples # <<>>,
         Apart(d), ~InFirst(d, s)
  PROVE  /\ Apart(writeOne(d, s))
         /\ \A p \in Nat : Covers(d, p) => Covers(writeOne(d, s), p)
<1> DEFINE n == Len(d)
           L == s.alignment
           U == s.alignment + Len(s.samples)
<1>1. L \in Nat /\ U \in Nat /\ L < U /\ n \in Nat
  BY DEF Series
<1>2. \A i \in 1 .. n : Lower(d[i]) \in Nat /\ Upper(d[i]) \in Nat /\ Lower(d[i]) < Upper(d[i])
  BY EntryFacts
<1>3. PICK lo \in 0 .. n, up \in 0 .. n :
        /\ At(d, L, lo) /\ At(d, U, up) /\ lo <= up
        /\ \/ writeOne(d, s) = d
           \/ \E x \in Entries, at \in lo .. up :
                /\ Fits(d, L, U, lo, up, x, at)
                /\ Spliced(writeOne(d, s), d, at, up, x)
  <2>1. L = s.alignment /\ U = s.alignment + Len(s.samples)
    OBVIOUS
  <2> HIDE DEF L, U
  <2> QED
    BY <2>1, WriteOneFacts
<1>4. CASE writeOne(d, s) = d
  BY <1>4
<1>5. ~(d # <<>> /\ Lower(d[1]) < L /\ L < Upper(d[1]) /\ U < Upper(d[1]))
  <2>1. d # <<>> => /\ BoundsOf(d)[1].lower = Lower(d[1]) /\ BoundsOf(d)[1].upper = Upper(d[1])
                    /\ 1 \in 1 .. n
    BY BoundsFacts
  <2>2. alignmentBounds(s).lower = L /\ alignmentBounds(s).upper = U
    BY DEF alignmentBounds
  <2> HIDE DEF L, U
  <2> QED
    BY <1>1, <1>2, <2>1, <2>2 DEF InFirst, contains
<1>6. ASSUME NEW x \in Entries, NEW at \in lo .. up, Fits(d, L, U, lo, up, x, at),
             Spliced(writeOne(d, s), d, at, up, x)
      PROVE  /\ Apart(writeOne(d, s))
             /\ \A p \in Nat : Covers(d, p) => Covers(writeOne(d, s), p)
  <2> DEFINE r == writeOne(d, s)
  <2> HIDE DEF L, U
  <2>1. lo \in Nat /\ up \in Nat /\ at \in Nat /\ lo <= at /\ at <= up /\ up <= n
    BY <1>1, <1>3, <1>6
  <2>2. Lower(x) \in Nat /\ Upper(x) \in Nat /\ Lower(x) < Upper(x)
    BY EntryFacts
  <2>3. /\ lo < n => L < Upper(d[lo + 1]) /\ lo + 1 \in 1 .. n
        /\ up < n => U < Upper(d[up + 1]) /\ up + 1 \in 1 .. n
        /\ \A j \in 1 .. lo : Upper(d[j]) <= L
        /\ \A j \in 1 .. up : Upper(d[j]) <= U
    BY <1>1, <1>3, <2>1 DEF At
  <2>4. /\ CutLow(d, L, lo, up) => at = lo + 1 /\ Lower(x) = Upper(d[lo + 1])
        /\ ~CutLow(d, L, lo, up) => at = lo /\ Lower(x) = L
        /\ L <= Lower(x) /\ Upper(x) <= U
        /\ LowIn(d, L, lo) => lo < up \/ up = 0
        /\ up < n => Upper(x) <= Lower(d[up + 1]) \/ Lower(d[up + 1]) < L
        /\ \A p \in Upper(x) .. U - 1 : up < n /\ In(p, d[up + 1])
    BY <1>6 DEF Fits
  <2>5. ASSUME NEW i \in 1 .. at PROVE Upper(d[i]) <= Lower(x)
    <3>1. CASE i \in 1 .. lo
      <4>1. i \in 1 .. n /\ Upper(d[i]) <= L
        BY <3>1, <2>1, <2>3
      <4>2. Upper(d[i]) \in Nat /\ L <= Lower(x)
        BY <4>1, <1>2, <2>4
      <4> QED
        BY <4>1, <4>2, <1>1, <2>2
    <3>2. CASE ~(i \in 1 .. lo)
      <4>1. i = lo + 1 /\ CutLow(d, L, lo, up)
        BY <3>2, <2>1, <2>4
      <4> QED
        BY <4>1, <2>4, <2>2
    <3> QED
      BY <3>1, <3>2
  <2>6. ASSUME up < n PROVE Upper(x) <= Lower(d[up + 1])
    <3>1. SUFFICES ASSUME Lower(d[up + 1]) < L PROVE FALSE
      BY <2>4, <2>6
    <3>2. CASE lo < up
      <4>1. lo + 1 \in 1 .. n /\ up + 1 \in 1 .. n /\ lo + 1 < up + 1
        BY <3>2, <2>6, <2>1, <1>1
      <4>2. Upper(d[lo + 1]) <= Lower(d[up + 1]) /\ L < Upper(d[lo + 1])
        BY <4>1, <2>3, <2>1, <1>1, <3>2 DEF Apart
      <4> QED
        BY <4>1, <4>2, <3>1, <1>1, <1>2
    <3>3. CASE lo = up
      <4>1. LowIn(d, L, lo)
        BY <3>1, <3>3, <2>6 DEF LowIn
      <4>2. up = 0 /\ lo = 0 /\ d # <<>>
        BY <4>1, <3>3, <2>4, <2>1, <2>6
      <4>3. Lower(d[1]) < L /\ L < Upper(d[1]) /\ U < Upper(d[1])
        BY <4>2, <3>1, <2>3, <2>6
      <4> QED
        BY <4>2, <4>3, <1>5
    <3> QED
      BY <3>2, <3>3, <2>1
  <2>7. ASSUME NEW k \in up + 1 .. n PROVE Upper(x) <= Lower(d[k])
    <3>1. up < n /\ Upper(x) <= Lower(d[up + 1]) /\ up + 1 \in 1 .. n /\ k \in 1 .. n
      BY <2>1, <2>6
    <3>2. CASE k = up + 1
      BY <3>1, <3>2
    <3>3. CASE up + 1 < k
      <4>1. Upper(d[up + 1]) <= Lower(d[k])
        BY <3>1, <3>3 DEF Apart
      <4> QED
        BY <4>1, <3>1, <1>2, <2>2
    <3> QED
      BY <3>2, <3>3, <2>1
  <2>8. /\ r \in Seq(Entries) /\ Len(r) = n + 1 - (up - at) /\ Len(r) \in Nat
        /\ \A i \in 1 .. at : r[i] = d[i]
        /\ r[at + 1] = x
        /\ \A i \in at + 2 .. Len(r) : r[i] = d[i + up - at - 1]
    BY <1>6, SMTT(30) DEF Spliced
  <2> HIDE DEF r
  <2>9. ASSUME NEW i \in 1 .. Len(r), NEW j \in 1 .. Len(r), i < j
        PROVE  Upper(r[i]) <= Lower(r[j])
    <3>1. CASE j \in 1 .. at
      <4>1. i \in 1 .. at /\ i \in 1 .. n /\ j \in 1 .. n
        BY <3>1, <2>1, <2>9
      <4> QED
        BY <4>1, <3>1, <2>8, <2>9 DEF Apart
    <3>2. CASE j = at + 1
      <4>1. i \in 1 .. at
        BY <3>2, <2>1, <2>9
      <4> QED
        BY <4>1, <3>2, <2>5, <2>8
    <3>3. CASE j \in at + 2 .. Len(r)
      <4> DEFINE jj == j + up - at - 1
      <4>1. jj \in up + 1 .. n /\ jj \in 1 .. n
        BY <3>3, <2>1, <2>8
      <4>2. r[j] = d[jj]
        BY <3>3, <2>8
      <4>3. CASE i \in 1 .. at
        <5>1. i \in 1 .. n /\ i < jj
          BY <4>1, <4>3, <2>1
        <5> HIDE DEF jj
        <5> QED
          BY <5>1, <4>1, <4>2, <4>3, <2>8 DEF Apart
      <4>4. CASE i = at + 1
        <5> HIDE DEF jj
        <5> QED
          BY <4>1, <4>2, <4>4, <2>7, <2>8
      <4>5. CASE i \in at + 2 .. Len(r)
        <5> DEFINE ii == i + up - at - 1
        <5>1. ii \in 1 .. n /\ ii < jj
          BY <4>5, <3>3, <2>1, <2>8, <2>9
        <5>2. r[i] = d[ii]
          BY <4>5, <2>8
        <5> HIDE DEF ii, jj
        <5> QED
          BY <5>1, <5>2, <4>1, <4>2 DEF Apart
      <4> QED
        BY <4>3, <4>4, <4>5, <2>1
    <3> QED
      BY <3>1, <3>2, <3>3, <2>1
  <2>10. Apart(r)
    BY <2>9 DEF Apart
  <2>11. ASSUME NEW p \in Nat, Covers(d, p) PROVE Covers(r, p)
    <3>1. PICK k \in 1 .. n : In(p, d[k])
      BY <2>11 DEF Covers
    <3>2. /\ at + 1 \in 1 .. Len(r)
          /\ \A i \in 1 .. at : i \in 1 .. Len(r) /\ r[i] = d[i]
          /\ \A i \in up + 1 .. n : \E j \in at + 2 .. Len(r) : r[j] = d[i]
          /\ up < n => at + 2 \in 1 .. Len(r) /\ r[at + 2] = d[up + 1]
      <4>1. at \in 0 .. n /\ up \in at .. n
        BY <2>1
      <4> QED
        BY <4>1, <1>6, SplicedKeeps DEF r
    <3>3. CASE k \in 1 .. at
      BY <3>1, <3>2, <3>3 DEF Covers
    <3>4. CASE k \in up + 1 .. n
      <4>1. PICK j \in at + 2 .. Len(r) : r[j] = d[k]
        BY <3>2, <3>4
      <4>2. j \in 1 .. Len(r) /\ In(p, r[j])
        BY <4>1, <3>1, <2>1, <2>8
      <4> QED
        BY <4>2 DEF Covers
    <3>5. CASE k \in at + 1 .. up
      <4>1. Upper(d[k]) <= U /\ p < Upper(d[k]) /\ Lower(d[k]) <= p /\ k \in 1 .. n
        BY <3>1, <3>5, <2>1, <2>3 DEF In
      <4>2. lo < n /\ lo + 1 \in 1 .. n /\ lo < up
        BY <3>5, <2>1
      <4>3. Lower(x) <= Lower(d[k])
        <5>1. CASE CutLow(d, L, lo, up)
          <6>1. lo + 1 < k
            BY <5>1, <3>5, <2>4, <2>1
          <6> QED
            BY <5>1, <6>1, <4>1, <4>2, <2>4 DEF Apart
        <5>2. CASE ~CutLow(d, L, lo, up)
          <6>1. L <= Lower(d[lo + 1]) /\ Lower(x) = L /\ lo + 1 <= k
            BY <5>2, <4>2, <3>5, <2>1, <2>4, <1>1, <1>2 DEF CutLow, LowIn
          <6>2. CASE k = lo + 1
            BY <6>1, <6>2
          <6>3. CASE lo + 1 < k
            <7>1. Upper(d[lo + 1]) <= Lower(d[k])
              BY <6>3, <4>1, <4>2 DEF Apart
            <7> QED
              BY <7>1, <6>1, <4>1, <4>2, <1>1, <1>2
          <6> QED
            BY <6>1, <6>2, <6>3, <2>1
        <5> QED
          BY <5>1, <5>2
      <4>4. CASE p < Upper(x)
        <5>1. In(p, r[at + 1])
          BY <4>1, <4>3, <4>4, <2>2, <2>8, <1>2 DEF In
        <5> QED
          BY <5>1, <3>2 DEF Covers
      <4>5. CASE Upper(x) <= p
        <5>1. p \in Upper(x) .. U - 1
          BY <4>1, <4>5, <1>1, <1>2, <2>2
        <5>2. up < n /\ In(p, d[up + 1])
          BY <5>1, <2>4
        <5> QED
          BY <5>2, <3>2 DEF Covers
      <4> QED
        BY <4>4, <4>5, <2>2
    <3> QED
      BY <3>3, <3>4, <3>5, <2>1
  <2> QED
    BY <2>10, <2>11 DEF r
<1> QED
  BY <1>3, <1>4, <1>6

-----------------------------------------------------------------------------
(* write: the series one after the other.                                  *)

LEMMA WritesUnfold ==
  ASSUME NEW d, NEW ss, Len(ss) \in Nat
  PROVE  Writes(d, ss) = [i \in 0 .. Len(ss) |-> IF i = 0 THEN d ELSE writeOne(Writes(d, ss)[i - 1], ss[i])]
<1> DEFINE G(h, n) == h = [i \in 0 .. n |-> IF i = 0 THEN d ELSE writeOne(h[i - 1], ss[i])]
           T == {n \in Nat : ~ \E h : G(h, n)}
<1>1. T = {}
  <2> SUFFICES ASSUME T # {} PROVE FALSE
    OBVIOUS
  <2>1. PICK n \in T : \A m \in T : n <= m
    BY Least
  <2>2. n # 0
    <3>1. G([i \in 0 .. 0 |-> d], 0)
      OBVIOUS
    <3> QED
      BY <3>1
  <2>3. n - 1 \in Nat /\ n - 1 \notin T
    BY <2>1, <2>2
  <2>4. PICK h : G(h, n - 1)
    BY <2>3
  <2> DEFINE g == [i \in 0 .. n |-> IF i = n THEN writeOne(h[n - 1], ss[n]) ELSE h[i]]
  <2>5. G(g, n)
    <3>1. ASSUME NEW i \in 0 .. n
          PROVE  g[i] = IF i = 0 THEN d ELSE writeOne(g[i - 1], ss[i])
      <4>1. CASE i = n
        <5>1. g[n] = writeOne(h[n - 1], ss[n])
          OBVIOUS
        <5>2. g[n - 1] = h[n - 1]
          BY <2>3
        <5> QED
          BY <4>1, <5>1, <5>2, <2>2
      <4>2. CASE i # n
        <5>1. g[i] = h[i] /\ i \in 0 .. n - 1
          BY <4>2
        <5>2. h[i] = IF i = 0 THEN d ELSE writeOne(h[i - 1], ss[i])
          BY <2>4, <5>1
        <5>3. i # 0 => g[i - 1] = h[i - 1]
          BY <5>1
        <5> HIDE DEF g
        <5> QED
          BY <5>1, <5>2, <5>3
      <4> QED
        BY <4>1, <4>2
    <3>2. g = [i \in 0 .. n |-> g[i]]
      OBVIOUS
    <3> HIDE DEF g
    <3> QED
      BY <3>1, <3>2
  <2> QED
    BY <2>1, <2>5
<1>2. \E h : G(h, Len(ss))
  BY <1>1
<1>3. Writes(d, ss) = CHOOSE h : G(h, Len(ss))
  BY DEF Writes
<1> QED
  BY <1>2, <1>3

LEMMA WritesFacts ==
  ASSUME NEW d, NEW ss, Len(ss) \in Nat
  PROVE  /\ Writes(d, ss)[0] = d
         /\ \A i \in 0 .. Len(ss) - 1 : Writes(d, ss)[i + 1] = writeOne(Writes(d, ss)[i], ss[i + 1])
<1> DEFINE W == Writes(d, ss)
<1>1. W = [i \in 0 .. Len(ss) |-> IF i = 0 THEN d ELSE writeOne(W[i - 1], ss[i])]
  BY WritesUnfold
<1> HIDE DEF W
<1>2. W[0] = d
  BY <1>1
<1>3. ASSUME NEW i \in 0 .. Len(ss) - 1 PROVE W[i + 1] = writeOne(W[i], ss[i + 1])
  <2>1. i + 1 \in 0 .. Len(ss) /\ i + 1 # 0 /\ (i + 1) - 1 = i
    OBVIOUS
  <2>2. W[i + 1] = writeOne(W[(i + 1) - 1], ss[i + 1])
    BY <1>1, <2>1
  <2> QED
    BY <2>1, <2>2
<1> QED
  BY <1>2, <1>3 DEF W

LEMMA WritesType ==
  ASSUME NEW G, G \subseteq Entries, NEW d \in Seq(G), NEW ss \in Seq(Series),
         \A i \in 1 .. Len(ss) : /\ ss[i].samples # <<>>
                                 /\ \A x \in Entries : PartOf(x.series, ss[i]) /\ x.age = 0 => x \in G
  PROVE  \A i \in 0 .. Len(ss) : Writes(d, ss)[i] \in Seq(G)
<1> DEFINE W == Writes(d, ss)
           T == {i \in 0 .. Len(ss) : W[i] \in Seq(G)}
<1>1. Len(ss) \in Nat
  OBVIOUS
<1>2. /\ W[0] = d
      /\ \A i \in 0 .. Len(ss) - 1 : W[i + 1] = writeOne(W[i], ss[i + 1])
  BY <1>1, WritesFacts
<1> HIDE DEF W
<1>3. 0 \in T
  BY <1>1, <1>2
<1>4. ASSUME NEW i \in 0 .. Len(ss) - 1, i \in T PROVE i + 1 \in T
  <2>1. i + 1 \in 1 .. Len(ss) /\ i + 1 \in 0 .. Len(ss) /\ W[i] \in Seq(G)
    BY <1>1, <1>4
  <2>2. ss[i + 1] \in Series
    BY <2>1
  <2>3. writeOne(W[i], ss[i + 1]) \in Seq(G)
    BY <2>1, <2>2, WriteOneType
  <2> QED
    BY <2>1, <2>3, <1>2
<1> HIDE DEF T
<1>5. 0 .. Len(ss) \subseteq T
  BY <1>1, <1>3, <1>4, Climb
<1> QED
  BY <1>5 DEF T, W

LEMMA WritesKeep ==
  ASSUME NEW d \in Seq(Entries), NEW ss \in Seq(Series),
         \A i \in 1 .. Len(ss) : ss[i].samples # <<>>,
         Apart(d), ~WriteHitsFirst(d, ss)
  PROVE  /\ Apart(staticWrite(d, ss))
         /\ \A p \in Nat : Covers(d, p) \/ (\E i \in 1 .. Len(ss) : p \in CoveredBy(ss[i]))
                            => Covers(staticWrite(d, ss), p)
<1> DEFINE W == Writes(d, ss)
           Has(i, p) == Covers(d, p) \/ (\E j \in 1 .. i : p \in CoveredBy(ss[j]))
           T == {i \in 0 .. Len(ss) : Apart(W[i]) /\ \A p \in Nat : Has(i, p) => Covers(W[i], p)}
<1>1. Len(ss) \in Nat
  OBVIOUS
<1>2. /\ W[0] = d
      /\ \A i \in 0 .. Len(ss) - 1 : W[i + 1] = writeOne(W[i], ss[i + 1])
  BY <1>1, WritesFacts
<1>3. \A i \in 0 .. Len(ss) : W[i] \in Seq(Entries)
  BY WritesType
<1>4. \A i \in 1 .. Len(ss) : ~InFirst(W[i - 1], ss[i])
  BY DEF WriteHitsFirst
<1> HIDE DEF W
<1>5. 0 \in T
  BY <1>1, <1>2
<1>6. ASSUME NEW i \in 0 .. Len(ss) - 1, i \in T PROVE i + 1 \in T
  <2> DEFINE s == ss[i + 1]
  <2>1. i + 1 \in 1 .. Len(ss) /\ i + 1 \in 0 .. Len(ss) /\ i \in 0 .. Len(ss) /\ (i + 1) - 1 = i
    BY <1>1, <1>6
  <2>2. s \in Series /\ s.samples # <<>> /\ W[i] \in Seq(Entries) /\ ~InFirst(W[i], s)
    BY <2>1, <1>3, <1>4
  <2>3. Apart(W[i]) /\ (\A p \in Nat : Has(i, p) => Covers(W[i], p)) /\ W[i + 1] = writeOne(W[i], s)
    BY <1>2, <1>6
  <2> HIDE DEF s
  <2>4. Apart(W[i + 1]) /\ \A p \in Nat : Covers(W[i], p) => Covers(W[i + 1], p)
    BY <2>2, <2>3, WriteKeeps
  <2>5. ASSUME NEW p \in CoveredBy(s) PROVE Covers(W[i + 1], p)
    <3>1. p \in s.alignment .. (s.alignment + Len(s.samples)) - 1
      BY <2>2 DEF CoveredBy, Series
    <3>2. Reach(writeOne(W[i], s), p, s.alignment + Len(s.samples))
      BY <2>2, <3>1, WriteLands
    <3> QED
      BY <2>3, <3>2 DEF Reach, Covers
  <2>6. ASSUME NEW p \in Nat, Has(i + 1, p) PROVE Covers(W[i + 1], p)
    <3>1. CASE Has(i, p)
      BY <3>1, <2>3, <2>4
    <3>2. CASE ~Has(i, p)
      <4>1. PICK j \in 1 .. i + 1 : p \in CoveredBy(ss[j])
        BY <3>2, <2>6
      <4>2. j = i + 1
        BY <3>2, <4>1
      <4> QED
        BY <4>1, <4>2, <2>5 DEF s
    <3> QED
      BY <3>1, <3>2
  <2> QED
    BY <2>1, <2>4, <2>6
<1>7. 0 .. Len(ss) \subseteq T
  <2> HIDE DEF T
  <2> QED
    BY <1>1, <1>5, <1>6, Climb
<1>8. Len(ss) \in T
  BY <1>1, <1>7
<1> QED
  BY <1>8 DEF staticWrite, W

Top(s) == s.alignment + Len(s.samples)

InOrder(ss) == \A i, j \in 1 .. Len(ss) : i < j => Top(ss[i]) <= ss[j].alignment

(* Series written in their order all land, even among entries that overlap.*)
LEMMA WritesLand ==
  ASSUME NEW d \in Seq(Entries), NEW ss \in Seq(Series),
         \A i \in 1 .. Len(ss) : ss[i].samples # <<>>,
         InOrder(ss), NEW f \in 1 .. Len(ss), NEW p \in CoveredBy(ss[f])
  PROVE  p \in Nat /\ Covers(staticWrite(d, ss), p)
<1> DEFINE W == Writes(d, ss)
           n == Len(ss)
           T == {k \in 0 .. n - f : Reach(W[f + k], p, Top(ss[f + k]))}
<1>1. n \in Nat /\ f \in Nat /\ n - f \in Nat
  OBVIOUS
<1>2. \A i \in 0 .. n - 1 : W[i + 1] = writeOne(W[i], ss[i + 1])
  BY <1>1, WritesFacts
<1>3. \A i \in 0 .. n : W[i] \in Seq(Entries)
  BY WritesType
<1>4. \A i \in 1 .. n : ss[i] \in Series /\ ss[i].alignment \in Nat /\ Top(ss[i]) \in Nat
  <2>1. ASSUME NEW t \in Series PROVE t.alignment \in Nat /\ Top(t) \in Nat
    <3>1. t.alignment \in Nat /\ t.samples \in Seq(Nat)
      BY DEF Series
    <3> QED
      BY <3>1 DEF Top
  <2>2. \A i \in 1 .. n : ss[i] \in Series
    OBVIOUS
  <2> QED
    BY <2>1, <2>2
<1> HIDE DEF W
<1>5. p \in Nat /\ p \in ss[f].alignment .. Top(ss[f]) - 1
  BY <1>4 DEF CoveredBy, Top
<1>6. 0 \in T
  <2>1. f - 1 \in 0 .. n - 1 /\ f - 1 \in 0 .. n /\ (f - 1) + 1 = f /\ f + 0 = f /\ 0 \in 0 .. n - f
    BY <1>1
  <2>2. W[f] = writeOne(W[f - 1], ss[f]) /\ W[f - 1] \in Seq(Entries)
    <3>1. W[(f - 1) + 1] = writeOne(W[f - 1], ss[(f - 1) + 1])
      BY <1>2, <2>1
    <3> QED
      BY <1>3, <2>1, <3>1
  <2>3. Reach(writeOne(W[f - 1], ss[f]), p, Top(ss[f]))
    BY <1>4, <1>5, <2>2, WriteLands DEF Top
  <2>4. Reach(W[f + 0], p, Top(ss[f + 0]))
    BY <2>1, <2>2, <2>3
  <2> QED
    BY <2>1, <2>4
<1>7. ASSUME NEW k \in 0 .. (n - f) - 1, k \in T PROVE k + 1 \in T
  <2> DEFINE a == f + k
             b == f + (k + 1)
  <2>1. /\ a \in 1 .. n /\ a \in 0 .. n /\ a \in 0 .. n - 1 /\ b \in 1 .. n /\ a + 1 = b /\ a < b /\ f < b
        /\ k + 1 \in 0 .. n - f
    BY <1>1
  <2>2. Reach(W[a], p, Top(ss[a]))
    BY <1>7
  <2> HIDE DEF a, b
  <2>3. W[b] = writeOne(W[a], ss[b]) /\ W[a] \in Seq(Entries)
    BY <1>2, <1>3, <2>1
  <2>4. Top(ss[a]) <= ss[b].alignment /\ Top(ss[f]) <= ss[b].alignment
    BY <2>1 DEF InOrder
  <2>5. p < ss[b].alignment
    <3>1. Top(ss[f]) \in Nat /\ ss[b].alignment \in Nat /\ ss[f].alignment \in Nat
      BY <1>4, <2>1
    <3> QED
      BY <3>1, <1>5, <2>4
  <2>6. Reach(W[a], p, ss[b].alignment)
    <3> DEFINE e == W[a]
    <3>1. e \in Seq(Entries) /\ Reach(e, p, Top(ss[a]))
      BY <2>2, <2>3
    <3> HIDE DEF e
    <3>2. \A i \in 1 .. Len(e) : Upper(e[i]) \in Nat
      BY <3>1, EntryFacts
    <3>3. PICK i \in 1 .. Len(e) : In(p, e[i]) /\ \A j \in 1 .. i - 1 : Upper(e[j]) <= Top(ss[a])
      BY <3>1 DEF Reach
    <3>4. ASSUME NEW j \in 1 .. i - 1 PROVE Upper(e[j]) <= ss[b].alignment
      <4>1. j \in 1 .. Len(e)
        BY <3>1
      <4>2. Upper(e[j]) <= Top(ss[a]) /\ Upper(e[j]) \in Nat
        BY <4>1, <3>2, <3>3
      <4>3. Top(ss[a]) \in Nat /\ ss[b].alignment \in Nat
        BY <2>1, <1>4
      <4>4. \A x, y, z \in Nat : x <= y /\ y <= z => x <= z
        OBVIOUS
      <4> QED
        BY <4>2, <4>3, <4>4, <2>4
    <3>5. Reach(e, p, ss[b].alignment)
      BY <3>3, <3>4 DEF Reach
    <3> QED
      BY <3>5 DEF e
  <2>7. Reach(W[b], p, Top(ss[b]))
    BY <1>4, <1>5, <2>1, <2>3, <2>5, <2>6, WriteKeepsEarly DEF Top
  <2> QED
    BY <2>1, <2>7 DEF b
<1>8. 0 .. n - f \subseteq T
  <2> HIDE DEF T
  <2> QED
    BY <1>1, <1>6, <1>7, Climb
<1>9. Reach(W[n], p, Top(ss[n]))
  <2>1. n - f \in T /\ f + (n - f) = n
    <3>1. n - f \in 0 .. n - f /\ f + (n - f) = n
      BY <1>1
    <3> HIDE DEF T
    <3> QED
      BY <3>1, <1>8
  <2>2. Reach(W[f + (n - f)], p, Top(ss[f + (n - f)]))
    BY <2>1
  <2> QED
    BY <2>1, <2>2
<1> QED
  BY <1>5, <1>9 DEF staticWrite, W, Reach, Covers

-----------------------------------------------------------------------------
(* gc: the entries that are kept, in their order.                          *)

LEMMA KeptUnfold ==
  ASSUME NEW d, Len(d) \in Nat
  PROVE  Kept(d) = [i \in 0 .. Len(d) |-> IF i = 0 THEN <<>> ELSE (IF shouldKeep(d[i]) THEN Append(Kept(d)[i - 1], d[i]) ELSE Kept(d)[i - 1])]
<1> DEFINE G(h, n) == h = [i \in 0 .. n |-> IF i = 0 THEN <<>> ELSE (IF shouldKeep(d[i]) THEN Append(h[i - 1], d[i]) ELSE h[i - 1])]
           T == {n \in Nat : ~ \E h : G(h, n)}
<1>1. T = {}
  <2> SUFFICES ASSUME T # {} PROVE FALSE
    OBVIOUS
  <2>1. PICK n \in T : \A m \in T : n <= m
    BY Least
  <2>2. n # 0
    <3>1. G([i \in 0 .. 0 |-> <<>>], 0)
      OBVIOUS
    <3> QED
      BY <3>1
  <2>3. n - 1 \in Nat /\ n - 1 \notin T
    <3>1. n \in Nat
      OBVIOUS
    <3> HIDE DEF T
    <3> QED
      BY <3>1, <2>1, <2>2
  <2>4. PICK h : G(h, n - 1)
    BY <2>3
  <2> DEFINE g == [i \in 0 .. n |-> IF i = n THEN (IF shouldKeep(d[n]) THEN Append(h[n - 1], d[n]) ELSE h[n - 1]) ELSE h[i]]
  <2>5. G(g, n)
    <3>1. ASSUME NEW i \in 0 .. n
          PROVE  g[i] = IF i = 0 THEN <<>> ELSE (IF shouldKeep(d[i]) THEN Append(g[i - 1], d[i]) ELSE g[i - 1])
      <4>1. CASE i = n
        <5>1. g[n] = (IF shouldKeep(d[n]) THEN Append(h[n - 1], d[n]) ELSE h[n - 1])
          OBVIOUS
        <5>2. g[n - 1] = h[n - 1]
          BY <2>3
        <5> QED
          BY <4>1, <5>1, <5>2, <2>2
      <4>2. CASE i # n
        <5>1. g[i] = h[i] /\ i \in 0 .. n - 1
          BY <4>2
        <5>2. h[i] = IF i = 0 THEN <<>> ELSE (IF shouldKeep(d[i]) THEN Append(h[i - 1], d[i]) ELSE h[i - 1])
          BY <2>4, <5>1
        <5>3. i # 0 => g[i - 1] = h[i - 1]
          BY <5>1
        <5> HIDE DEF g
        <5> QED
          BY <5>1, <5>2, <5>3
      <4> QED
        BY <4>1, <4>2
    <3>2. g = [i \in 0 .. n |-> g[i]]
      OBVIOUS
    <3> HIDE DEF g
    <3> QED
      BY <3>1, <3>2
  <2> QED
    BY <2>1, <2>5
<1>2. \E h : G(h, Len(d))
  BY <1>1
<1>3. Kept(d) = CHOOSE h : G(h, Len(d))
  BY DEF Kept
<1> QED
  BY <1>2, <1>3

LEMMA KeptFacts ==
  ASSUME NEW G, G \subseteq Entries, NEW d \in Seq(G)
  PROVE  LET r == Kept(d)[Len(d)] IN
         /\ r \in Seq(G)
         /\ Apart(d) => Apart(r)
         /\ \A j \in 1 .. Len(d) : shouldKeep(d[j]) => \E k \in 1 .. Len(r) : r[k] = d[j]
<1> DEFINE K == Kept(d)
           Good(i) == /\ K[i] \in Seq(G)
                      /\ \A k \in 1 .. Len(K[i]) : \E j \in 1 .. i : K[i][k] = d[j]
                      /\ Apart(d) => Apart(K[i])
                      /\ \A j \in 1 .. i : shouldKeep(d[j]) => \E k \in 1 .. Len(K[i]) : K[i][k] = d[j]
           T == {i \in 0 .. Len(d) : Good(i)}
<1>1. Len(d) \in Nat
  OBVIOUS
<1>2. K = [i \in 0 .. Len(d) |-> IF i = 0 THEN <<>>
              ELSE (IF shouldKeep(d[i]) THEN Append(K[i - 1], d[i]) ELSE K[i - 1])]
  BY <1>1, KeptUnfold
<1> HIDE DEF K
<1>3. 0 \in T
  <2>1. K[0] = <<>>
    BY <1>1, <1>2
  <2>2. Len(K[0]) = 0 /\ K[0] \in Seq(G)
    BY <2>1
  <2>3. Apart(K[0])
    BY <2>2 DEF Apart
  <2> QED
    BY <1>1, <2>2, <2>3
<1>4. ASSUME NEW i \in 0 .. Len(d) - 1, i \in T PROVE i + 1 \in T
  <2>1. i + 1 \in 1 .. Len(d) /\ i + 1 \in 0 .. Len(d) /\ (i + 1) - 1 = i /\ i + 1 # 0 /\ i \in Nat
    BY <1>1
  <2> DEFINE e == d[i + 1]
             q == K[i]
             r == K[i + 1]
  <2>2. r = IF shouldKeep(e) THEN Append(q, e) ELSE q
    <3>1. K[i + 1] = IF shouldKeep(d[i + 1]) THEN Append(K[(i + 1) - 1], d[i + 1]) ELSE K[(i + 1) - 1]
      BY <1>2, <2>1
    <3> QED
      BY <2>1, <3>1
  <2>3. Good(i) /\ e \in G
    BY <1>4, <2>1
  <2>4. CASE ~shouldKeep(e)
    <3>1. r = q
      BY <2>2, <2>4
    <3>2. ASSUME NEW j \in 1 .. i + 1, shouldKeep(d[j]) PROVE \E k \in 1 .. Len(r) : r[k] = d[j]
      <4>1. j \in 1 .. i
        BY <2>1, <2>4, <3>2
      <4> QED
        BY <3>1, <3>2, <4>1, <2>3
    <3>3. ASSUME NEW k \in 1 .. Len(r) PROVE \E j \in 1 .. i + 1 : r[k] = d[j]
      <4>1. PICK j \in 1 .. i : q[k] = d[j]
        BY <2>3, <3>1
      <4> QED
        BY <4>1, <3>1, <2>1
    <3> QED
      BY <2>1, <2>3, <3>1, <3>2, <3>3
  <2>5. CASE shouldKeep(e)
    <3>1. r = Append(q, e) /\ q \in Seq(G) /\ Len(q) \in Nat
      BY <2>2, <2>3, <2>5
    <3> HIDE DEF e
    <3>2. /\ r \in Seq(G) /\ Len(r) = Len(q) + 1 /\ r[Len(q) + 1] = e
          /\ \A k \in 1 .. Len(q) : r[k] = q[k]
      <4> HIDE DEF q, r
      <4> QED
        BY <2>3, <3>1, AppendProperties
    <3>3. ASSUME NEW j \in 1 .. i + 1, shouldKeep(d[j]) PROVE \E k \in 1 .. Len(r) : r[k] = d[j]
      <4>1. CASE j = i + 1
        <5>1. Len(q) + 1 \in 1 .. Len(r) /\ r[Len(q) + 1] = d[j]
          BY <4>1, <3>1, <3>2 DEF e
        <5> QED
          BY <5>1
      <4>2. CASE j \in 1 .. i
        <5>1. PICK k \in 1 .. Len(q) : q[k] = d[j]
          BY <4>2, <3>3, <2>3
        <5>2. k \in 1 .. Len(r) /\ r[k] = d[j]
          BY <5>1, <3>1, <3>2
        <5> QED
          BY <5>2
      <4> QED
        BY <4>1, <4>2, <2>1
    <3>4. ASSUME NEW k \in 1 .. Len(r) PROVE \E j \in 1 .. i + 1 : r[k] = d[j]
      <4>1. CASE k = Len(q) + 1
        <5>1. i + 1 \in 1 .. i + 1 /\ r[k] = d[i + 1]
          BY <4>1, <3>2, <2>1 DEF e
        <5> QED
          BY <5>1
      <4>2. CASE k \in 1 .. Len(q)
        <5>1. PICK j \in 1 .. i : q[k] = d[j]
          BY <4>2, <2>3
        <5>2. j \in 1 .. i + 1 /\ r[k] = d[j]
          BY <5>1, <4>2, <3>2, <2>1
        <5> QED
          BY <5>2
      <4> QED
        BY <4>1, <4>2, <3>1, <3>2
    <3>5. ASSUME Apart(d), NEW a \in 1 .. Len(r), NEW b \in 1 .. Len(r), a < b
          PROVE  Upper(r[a]) <= Lower(r[b])
      <4>1. a \in 1 .. Len(q) /\ r[a] = q[a]
        BY <3>1, <3>2, <3>5
      <4>2. CASE b \in 1 .. Len(q)
        BY <4>1, <4>2, <3>2, <3>5, <2>3 DEF Apart
      <4>3. CASE b = Len(q) + 1
        <5>1. PICK j \in 1 .. i : q[a] = d[j]
          BY <4>1, <2>3
        <5>2. j \in 1 .. Len(d) /\ j < i + 1
          BY <5>1, <2>1
        <5> QED
          BY <5>1, <5>2, <4>1, <4>3, <3>2, <3>5, <2>1 DEF Apart, e
      <4> QED
        BY <4>2, <4>3, <3>1, <3>2
    <3>6. Apart(d) => Apart(r)
      BY <3>5 DEF Apart
    <3> QED
      BY <2>1, <3>2, <3>3, <3>4, <3>6
  <2> QED
    BY <2>4, <2>5
<1>5. 0 .. Len(d) \subseteq T
  <2> HIDE DEF T
  <2> QED
    BY <1>1, <1>3, <1>4, Climb
<1>6. Good(Len(d))
  BY <1>1, <1>5
<1> QED
  BY <1>6 DEF K

-----------------------------------------------------------------------------
(* Dynamic: the buffer and what is flushed while a frame is written.       *)

Buffers == [alignment : Nat, samples : Seq(Nat), start : 0 .. MaxNow,
            end : {MaxNow + 1}, held : BOOLEAN, cap : Caps]

(* Every sample is at its position or one behind, and comes before m.       *)
Close(s, m) ==
  \A k \in 1 .. Len(s.samples) :
    s.samples[k] - (s.alignment + k - 1) \in {0, 1} /\ s.samples[k] < m

(* What has been flushed is in order and comes before the buffer.           *)
Queued(st) ==
  InOrder(st.flushed) /\ \A j \in 1 .. Len(st.flushed) : Top(st.flushed[j]) <= st.buf.alignment

(* The state of a write whose next sample is m.                             *)
FillOK(st, m) ==
  /\ st \in [buf : Buffers, flushed : Seq(Series)]
  /\ Len(st.buf.samples) <= st.buf.cap
  /\ m - (st.buf.alignment + Len(st.buf.samples)) \in {0, 1}
  /\ Close(st.buf, m)
  /\ \A j \in 1 .. Len(st.flushed) :
       st.flushed[j].samples # <<>> /\ st.flushed[j].end = now /\ Close(st.flushed[j], m)
  /\ Queued(st)

Holds(st, p) ==
  \/ p \in CoveredBy(st.buf)
  \/ \E j \in 1 .. Len(st.flushed) : p \in CoveredBy(st.flushed[j])

LEMMA CloseLater ==
  ASSUME NEW s, s.samples \in Seq(Nat), NEW m \in Nat, Close(s, m), NEW l \in Nat, m <= l
  PROVE  Close(s, l)
BY DEF Close

TimeOK == now \in 0 .. MaxNow

LEMMA FlushedFacts ==
  ASSUME NEW b \in Buffers, TimeOK
  PROVE  /\ Flushed(b) \in Series /\ Flushed(b).end = now
         /\ Flushed(b).samples = b.samples /\ Flushed(b).alignment = b.alignment
<1>1. MaxNow \in Nat
  BY CacheAssumption
<1> QED
  BY <1>1 DEF Flushed, Buffers, Series, TimeOK

LEMMA AllocateFacts ==
  ASSUME NEW cap \in Caps, NEW a \in Nat, TimeOK, NEW q \in Seq(Nat)
  PROVE  /\ allocate(cap, a) \in Buffers
         /\ [allocate(cap, a) EXCEPT !.samples = q] \in Buffers
         /\ [allocate(cap, a) EXCEPT !.samples = q].samples = q
         /\ [allocate(cap, a) EXCEPT !.samples = q].alignment = a
         /\ [allocate(cap, a) EXCEPT !.samples = q].cap = cap
         /\ allocate(cap, a).alignment = a /\ allocate(cap, a).samples = <<>>
<1>1. MaxNow \in Nat
  BY CacheAssumption
<1> DEFINE al == allocate(cap, a)
<1>2. al \in Buffers /\ al.alignment = a /\ al.samples = <<>> /\ al.cap = cap
  BY <1>1 DEF allocate, Buffers, TimeOK
<1> HIDE DEF al
<1>3. /\ [al EXCEPT !.samples = q] \in Buffers
      /\ [al EXCEPT !.samples = q].samples = q
      /\ [al EXCEPT !.samples = q].alignment = a
      /\ [al EXCEPT !.samples = q].cap = cap
  BY <1>2 DEF Buffers
<1> QED
  BY <1>2, <1>3 DEF al

(* The i-th sample of the series is m, at its own position.                 *)
Supplies(series, i, m) == series.samples[i] = m /\ series.alignment + i - 1 = m

LEMMA AppendFacts ==
  ASSUME TimeOK, NEW m \in Nat, NEW st, FillOK(st, m), NEW cap \in Caps,
         NEW series, NEW i, Supplies(series, i, m)
  PROVE  LET r == AppendSample(st, series, i, cap) IN
         /\ FillOK(r, m + 1) /\ r.buf.samples # <<>>
         /\ \A p : Holds(st, p) => Holds(r, p)
<1> DEFINE r == AppendSample(st, series, i, cap)
           b == st.buf
           n == Len(b.samples)
           f == st.flushed
<1>1. /\ st \in [buf : Buffers, flushed : Seq(Series)] /\ b \in Buffers /\ f \in Seq(Series)
      /\ b.alignment \in Nat /\ b.samples \in Seq(Nat) /\ n \in Nat /\ b.cap \in Nat /\ b.cap > 0
      /\ n <= b.cap /\ m - (b.alignment + n) \in {0, 1} /\ Close(b, m)
      /\ \A j \in 1 .. Len(f) : f[j].samples # <<>> /\ f[j].end = now /\ Close(f[j], m)
  <2>1. /\ st \in [buf : Buffers, flushed : Seq(Series)]
        /\ n <= b.cap /\ m - (b.alignment + n) \in {0, 1} /\ Close(b, m)
        /\ \A j \in 1 .. Len(f) : f[j].samples # <<>> /\ f[j].end = now /\ Close(f[j], m)
    BY DEF FillOK
  <2>2. b \in Buffers /\ f \in Seq(Series)
    BY <2>1
  <2>3. b.alignment \in Nat /\ b.samples \in Seq(Nat) /\ b.cap \in Caps
    BY <2>2 DEF Buffers
  <2>4. b.cap \in Nat /\ b.cap > 0 /\ n \in Nat
    <3>1. b.cap \in Nat \ {0}
      BY <2>3, CacheAssumption
    <3>2. n \in Nat
      BY <2>3
    <3> QED
      BY <3>1, <3>2
  <2> QED
    BY <2>1, <2>2, <2>3, <2>4
<1>5. b = st.buf /\ f = st.flushed /\ Len(f) \in Nat /\ n = Len(b.samples)
  BY <1>1
<1> HIDE DEF b, n, f
<1>2. \A j \in 1 .. Len(f) : Close(f[j], m + 1)
  <2>1. \A j \in 1 .. Len(f) : f[j].samples \in Seq(Nat)
    <3>1. \A s \in Series : s.samples \in Seq(Nat)
      BY DEF Series
    <3>2. \A j \in 1 .. Len(f) : f[j] \in Series
      BY <1>1
    <3> QED
      BY <3>1, <3>2
  <2>2. m + 1 \in Nat /\ m <= m + 1
    OBVIOUS
  <2> QED
    BY <1>1, <2>1, <2>2, CloseLater
<1>3. CASE n < b.cap
  <2> DEFINE q == Append(b.samples, m)
             c == [b EXCEPT !.samples = q]
  <2>1. r = [st EXCEPT !.buf = c]
    BY <1>1, <1>3, <1>5 DEF AppendSample, Supplies
  <2>2. /\ q \in Seq(Nat) /\ Len(q) = n + 1 /\ q[n + 1] = m /\ \A k \in 1 .. n : q[k] = b.samples[k]
    <3>1. b.samples \in Seq(Nat) /\ n = Len(b.samples) /\ n \in Nat
      BY <1>1, <1>5
    <3> QED
      BY <3>1, AppendProperties
  <2> HIDE DEF q
  <2>9. q # <<>>
    <3>1. Len(q) # 0
      BY <2>2, <1>1
    <3> QED
      BY <3>1
  <2>3. /\ c \in Buffers /\ c.samples = q /\ c.alignment = b.alignment /\ c.cap = b.cap
    BY <1>1, <2>2 DEF Buffers
  <2> HIDE DEF c
  <2>4. r \in [buf : Buffers, flushed : Seq(Series)] /\ r.buf = c /\ r.flushed = f
    BY <1>1, <1>5, <2>1, <2>3
  <2> HIDE DEF r
  <2>5. Close(c, m + 1)
    <3>1. ASSUME NEW k \in 1 .. n
          PROVE  q[k] - (b.alignment + k - 1) \in {0, 1} /\ q[k] < m + 1
      <4>1. b.samples[k] - (b.alignment + k - 1) \in {0, 1} /\ b.samples[k] < m /\ b.samples[k] \in Nat
        <5>1. k \in 1 .. Len(b.samples) /\ b.samples \in Seq(Nat) /\ Close(b, m)
          BY <1>1, <1>5
        <5>2. b.samples[k] - (b.alignment + k - 1) \in {0, 1} /\ b.samples[k] < m
          BY <5>1 DEF Close
        <5> QED
          BY <5>1, <5>2
      <4>2. q[k] = b.samples[k]
        BY <2>2
      <4> QED
        BY <4>1, <4>2
    <3>2. q[n + 1] - (b.alignment + (n + 1) - 1) \in {0, 1} /\ q[n + 1] < m + 1
      BY <1>1, <2>2
    <3>3. \A k \in 1 .. n + 1 : k \in 1 .. n \/ k = n + 1
      BY <1>1
    <3> QED
      BY <2>2, <2>3, <3>1, <3>2, <3>3 DEF Close
  <2>6. FillOK(r, m + 1)
    <3>1. Len(c.samples) <= c.cap /\ (m + 1) - (c.alignment + Len(c.samples)) \in {0, 1}
      BY <1>1, <1>3, <2>2, <2>3, SMTT(30)
    <3>2. Queued(r)
      <4>1. Queued(st)
        BY DEF FillOK
      <4> QED
        BY <4>1, <1>5, <2>3, <2>4 DEF Queued
    <3> QED
      BY <1>1, <1>2, <2>4, <2>5, <3>1, <3>2 DEF FillOK
  <2>7. CoveredBy(b) \subseteq CoveredBy(c)
    BY <1>1, <1>5, <2>2, <2>3, SMTT(30) DEF CoveredBy
  <2>8. \A p : Holds(st, p) => Holds(r, p)
    BY <1>5, <2>4, <2>7 DEF Holds
  <2> QED
    BY <2>9, <2>3, <2>4, <2>6, <2>8 DEF r
<1>4. CASE ~(n < b.cap)
  <2> DEFINE q == <<m>>
             c == [allocate(cap, m) EXCEPT !.samples = q]
             g == Append(f, Flushed(b))
  <2>1. r = [buf |-> c, flushed |-> g]
    BY <1>4, <1>5 DEF AppendSample, Supplies
  <2>2. q \in Seq(Nat) /\ Len(q) = 1 /\ q[1] = m /\ q # <<>>
    OBVIOUS
  <2> HIDE DEF q
  <2>3. c \in Buffers /\ c.samples = q /\ c.alignment = m /\ c.cap = cap
    BY <2>2, AllocateFacts
  <2>4. /\ Flushed(b) \in Series /\ Flushed(b).end = now
        /\ Flushed(b).samples = b.samples /\ Flushed(b).alignment = b.alignment
    BY <1>1, FlushedFacts
  <2>5. /\ g \in Seq(Series) /\ Len(g) = Len(f) + 1 /\ g[Len(f) + 1] = Flushed(b)
        /\ \A j \in 1 .. Len(f) : g[j] = f[j]
    BY <1>1, <2>4, AppendProperties
  <2> HIDE DEF c, g
  <2>6. r \in [buf : Buffers, flushed : Seq(Series)] /\ r.buf = c /\ r.flushed = g
    BY <2>1, <2>3, <2>5
  <2> HIDE DEF r
  <2>7. Close(Flushed(b), m + 1) /\ b.samples # <<>>
    <3>1. Close(b, m + 1)
      BY <1>1, CloseLater
    <3>2. b.samples # <<>>
      BY <1>1, <1>4, <1>5
    <3> QED
      BY <3>1, <3>2, <2>4 DEF Close
  <2>8. Close(c, m + 1)
    <3>1. ASSUME NEW k \in 1 .. Len(c.samples)
          PROVE  c.samples[k] - (c.alignment + k - 1) \in {0, 1} /\ c.samples[k] < m + 1
      <4>1. Len(c.samples) = 1 /\ c.samples[1] = m /\ c.alignment = m
        BY <2>2, <2>3
      <4>2. k = 1
        BY <4>1
      <4> QED
        BY <4>1, <4>2
    <3> QED
      BY <3>1 DEF Close
  <2>9. ASSUME NEW j \in 1 .. Len(g)
        PROVE  g[j].samples # <<>> /\ g[j].end = now /\ Close(g[j], m + 1)
    <3>1. CASE j = Len(f) + 1
      BY <3>1, <2>4, <2>5, <2>7
    <3>2. CASE j \in 1 .. Len(f)
      BY <3>2, <1>1, <1>2, <2>5
    <3> QED
      BY <3>1, <3>2, <1>5, <2>5
  <2>10. FillOK(r, m + 1)
    <3>1. Len(c.samples) <= c.cap /\ (m + 1) - (c.alignment + Len(c.samples)) \in {0, 1}
      <4>1. cap \in Nat /\ cap > 0
        BY CacheAssumption
      <4>2. Len(c.samples) = 1 /\ c.cap = cap /\ c.alignment = m
        BY <2>2, <2>3
      <4> QED
        BY <4>1, <4>2
    <3>2. Queued(r)
      <4>1. InOrder(f) /\ \A j \in 1 .. Len(f) : Top(f[j]) <= b.alignment
        <5>1. Queued(st)
          BY DEF FillOK
        <5> QED
          BY <5>1, <1>5 DEF Queued
      <4>2. Top(g[Len(f) + 1]) = b.alignment + n /\ g[Len(f) + 1].alignment = b.alignment
        BY <1>5, <2>4, <2>5 DEF Top
      <4>3. b.alignment + n <= m
        BY <1>1
      <4>4. ASSUME NEW j \in 1 .. Len(f) PROVE Top(g[j]) <= b.alignment /\ Top(g[j]) \in Nat
        <5>1. f[j] \in Series /\ g[j] = f[j]
          BY <1>1, <2>5
        <5>2. Top(f[j]) \in Nat
          BY <5>1 DEF Top, Series
        <5> QED
          BY <4>1, <5>1, <5>2
      <4>5. \A j \in 1 .. Len(g) : j \in 1 .. Len(f) \/ j = Len(f) + 1
        BY <1>5, <2>5
      <4>6. ASSUME NEW j \in 1 .. Len(g) PROVE Top(g[j]) <= m
        <5>1. CASE j \in 1 .. Len(f)
          BY <5>1, <4>3, <4>4, <1>1
        <5> QED
          BY <5>1, <4>2, <4>3, <4>5
      <4>7. ASSUME NEW i1 \in 1 .. Len(g), NEW j \in 1 .. Len(g), i1 < j
            PROVE  Top(g[i1]) <= g[j].alignment
        <5>1. i1 \in 1 .. Len(f)
          BY <4>5, <4>7, <1>5, <2>5
        <5>2. CASE j = Len(f) + 1
          BY <5>1, <5>2, <4>2, <4>4
        <5>3. CASE j \in 1 .. Len(f)
          BY <5>1, <5>3, <4>1, <4>7, <2>5 DEF InOrder
        <5> QED
          BY <5>2, <5>3, <4>5
      <4>8. InOrder(g)
        BY <4>7 DEF InOrder
      <4> QED
        BY <4>6, <4>8, <2>3, <2>6 DEF Queued
    <3> QED
      BY <2>6, <2>8, <2>9, <3>1, <3>2 DEF FillOK
  <2>11. CoveredBy(Flushed(b)) = CoveredBy(b)
    BY <2>4 DEF CoveredBy
  <2>12. ASSUME NEW p, Holds(st, p) PROVE Holds(r, p)
    <3>1. CASE p \in CoveredBy(b)
      <4>1. Len(f) + 1 \in 1 .. Len(g) /\ p \in CoveredBy(g[Len(f) + 1])
        BY <3>1, <2>5, <2>11, <1>5
      <4> QED
        BY <4>1, <2>6 DEF Holds
    <3>2. ASSUME NEW j \in 1 .. Len(f), p \in CoveredBy(f[j]) PROVE Holds(r, p)
      <4>1. j \in 1 .. Len(g) /\ p \in CoveredBy(g[j])
        BY <3>2, <2>5, <1>5
      <4> QED
        BY <4>1, <2>6 DEF Holds
    <3> QED
      BY <3>1, <3>2, <2>12, <1>5 DEF Holds
  <2> QED
    BY <2>2, <2>3, <2>6, <2>10, <2>12 DEF r
<1> QED
  BY <1>3, <1>4 DEF b, n

CurrOK == curr = None \/ (curr \in Buffers /\ Len(curr.samples) \in 1 .. curr.cap /\ Close(curr, next))

LEMMA NotNone ==
  ASSUME NEW b \in Buffers PROVE b # None
BY DEF Buffers, None

LEMMA BeginFacts ==
  ASSUME TimeOK, CurrOK, next \in Nat, NEW a \in Nat, next <= a, NEW series, series.alignment = a,
         NEW cap \in Caps
  PROVE  LET r == BeginWrite(series, cap) IN
         /\ FillOK(r, a)
         /\ curr # None => \A p \in CoveredBy(curr) : Holds(r, p)
<1> DEFINE r == BeginWrite(series, cap)
           al == allocate(cap, a)
<1>1. al \in Buffers /\ al.alignment = a /\ al.samples = <<>>
  <2>1. <<>> \in Seq(Nat)
    OBVIOUS
  <2> QED
    BY <2>1, AllocateFacts, ZenonT(40)
<1>2. Len(al.samples) = 0 /\ Close(al, a)
  BY <1>1 DEF Close
<1>3. al.cap \in Nat
  BY <1>1, CacheAssumption DEF Buffers
<1> DEFINE F(b, fl) == FillOK([buf |-> b, flushed |-> fl], a)
<1>4. CASE curr = None
  <2>1. r = [buf |-> al, flushed |-> <<>>]
    BY <1>4 DEF BeginWrite
  <2> HIDE DEF al
  <2>2. /\ r \in [buf : Buffers, flushed : Seq(Series)] /\ r.buf = al /\ r.flushed = <<>>
        /\ Len(r.flushed) = 0
    BY <2>1, <1>1
  <2> HIDE DEF r
  <2>3. FillOK(r, a)
    <3>1. Len(al.samples) <= al.cap /\ a - (al.alignment + Len(al.samples)) \in {0, 1}
      BY <1>1, <1>2, <1>3
    <3> QED
      BY <2>2, <3>1, <1>2 DEF FillOK, Queued, InOrder
  <2> QED
    BY <1>4, <2>3 DEF r
<1>5. CASE curr # None
  <2>1. curr \in Buffers /\ Len(curr.samples) \in 1 .. curr.cap /\ Close(curr, next)
    BY <1>5 DEF CurrOK
  <2> DEFINE n == Len(curr.samples)
  <2>2. curr.alignment \in Nat /\ curr.samples \in Seq(Nat) /\ curr.cap \in Caps
    BY <2>1 DEF Buffers
  <2>3. curr.cap \in Nat /\ n \in Nat /\ n >= 1 /\ n <= curr.cap
    <3>1. curr.cap \in Nat
      BY <2>2, CacheAssumption
    <3> QED
      BY <3>1, <2>1, <2>2
  <2>4. curr.alignment + n <= a
    <3>1. n \in 1 .. Len(curr.samples) /\ curr.samples[n] \in Nat
      BY <2>2, <2>3
    <3>2. curr.samples[n] - (curr.alignment + n - 1) \in {0, 1} /\ curr.samples[n] < next
      BY <2>1, <3>1 DEF Close
    <3> HIDE DEF n
    <3>3. curr.alignment + n <= next
      BY <3>1, <3>2, <2>2, <2>3, SMTT(30)
    <3> QED
      BY <3>3, <2>2, <2>3
  <2>5. Close(curr, a)
    BY <2>1, <2>2, CloseLater
  <2>6. CASE Misaligned(curr, series)
    <3> DEFINE fl == <<Flushed(curr)>>
    <3>1. r = [buf |-> al, flushed |-> fl]
      BY <1>5, <2>6 DEF BeginWrite
    <3>2. /\ Flushed(curr) \in Series /\ Flushed(curr).end = now
          /\ Flushed(curr).samples = curr.samples /\ Flushed(curr).alignment = curr.alignment
      BY <2>1, FlushedFacts
    <3>3. fl \in Seq(Series) /\ Len(fl) = 1 /\ fl[1] = Flushed(curr)
      BY <3>2
    <3> HIDE DEF al, fl
    <3>4. r \in [buf : Buffers, flushed : Seq(Series)] /\ r.buf = al /\ r.flushed = fl
      BY <3>1, <3>3, <1>1
    <3> HIDE DEF r
    <3>5. curr.samples # <<>>
      BY <2>2, <2>3
    <3>6. Close(Flushed(curr), a)
      BY <3>2, <2>5 DEF Close
    <3>7. FillOK(r, a)
      <4>1. Len(al.samples) <= al.cap /\ a - (al.alignment + Len(al.samples)) \in {0, 1}
        BY <1>1, <1>2, <1>3
      <4>2. ASSUME NEW j \in 1 .. Len(fl) PROVE fl[j].samples # <<>> /\ fl[j].end = now /\ Close(fl[j], a)
        <5>1. j = 1
          BY <3>3
        <5> QED
          BY <5>1, <3>2, <3>3, <3>5, <3>6
      <4>3. Queued(r)
        <5>1. Top(fl[1]) <= al.alignment
          BY <1>1, <2>4, <3>2, <3>3 DEF Top
        <5>2. \A j \in 1 .. Len(fl) : j = 1
          BY <3>3
        <5>3. InOrder(fl)
          BY <5>2 DEF InOrder
        <5> QED
          BY <5>1, <5>2, <5>3, <3>4 DEF Queued
      <4> QED
        BY <3>4, <4>1, <4>2, <4>3, <1>2 DEF FillOK
    <3>8. ASSUME NEW p \in CoveredBy(curr) PROVE Holds(r, p)
      <4>1. p \in CoveredBy(fl[1]) /\ 1 \in 1 .. Len(fl)
        BY <3>2, <3>3 DEF CoveredBy
      <4> QED
        BY <4>1, <3>4 DEF Holds
    <3> QED
      BY <3>7, <3>8 DEF r
  <2>7. CASE ~Misaligned(curr, series)
    <3>1. r = [buf |-> curr, flushed |-> <<>>]
      BY <1>5, <2>7 DEF BeginWrite
    <3>2. /\ r \in [buf : Buffers, flushed : Seq(Series)] /\ r.buf = curr /\ r.flushed = <<>>
          /\ Len(r.flushed) = 0
      BY <3>1, <2>1
    <3> HIDE DEF r
    <3>3. a - (curr.alignment + n) \in {0, 1}
      <4>1. ~(Abs(curr.alignment + n - a) > 1)
        BY <2>7 DEF Misaligned
      <4> HIDE DEF n
      <4> QED
        BY <4>1, <2>2, <2>3, <2>4 DEF Abs
    <3>4. FillOK(r, a)
      BY <3>2, <3>3, <2>3, <2>5 DEF FillOK, Queued, InOrder
    <3>5. \A p \in CoveredBy(curr) : Holds(r, p)
      BY <3>2 DEF Holds
    <3> QED
      BY <3>4, <3>5 DEF r
  <2> QED
    BY <2>6, <2>7
<1> QED
  BY <1>4, <1>5

LEMMA FillsUnfold ==
  ASSUME NEW series, NEW cap, Len(series.samples) \in Nat
  PROVE  Fills(series, cap) = [i \in 0 .. Len(series.samples) |-> IF i = 0 THEN BeginWrite(series, cap) ELSE AppendSample(Fills(series, cap)[i - 1], series, i, cap)]
<1> DEFINE G(h, n) == h = [i \in 0 .. n |-> IF i = 0 THEN BeginWrite(series, cap) ELSE AppendSample(h[i - 1], series, i, cap)]
           T == {n \in Nat : ~ \E h : G(h, n)}
<1>1. T = {}
  <2> SUFFICES ASSUME T # {} PROVE FALSE
    OBVIOUS
  <2>1. PICK n \in T : \A m \in T : n <= m
    BY Least
  <2>2. n # 0
    <3>1. G([i \in 0 .. 0 |-> BeginWrite(series, cap)], 0)
      OBVIOUS
    <3> QED
      BY <3>1
  <2>3. n - 1 \in Nat /\ n - 1 \notin T
    <3>1. n \in Nat
      OBVIOUS
    <3> HIDE DEF T
    <3> QED
      BY <3>1, <2>1, <2>2
  <2>4. PICK h : G(h, n - 1)
    BY <2>3
  <2> DEFINE g == [i \in 0 .. n |-> IF i = n THEN AppendSample(h[n - 1], series, n, cap) ELSE h[i]]
  <2>5. G(g, n)
    <3>1. ASSUME NEW i \in 0 .. n
          PROVE  g[i] = IF i = 0 THEN BeginWrite(series, cap) ELSE AppendSample(g[i - 1], series, i, cap)
      <4>1. CASE i = n
        <5>1. g[n] = AppendSample(h[n - 1], series, n, cap)
          OBVIOUS
        <5>2. g[n - 1] = h[n - 1]
          BY <2>3
        <5> QED
          BY <4>1, <5>1, <5>2, <2>2
      <4>2. CASE i # n
        <5>1. g[i] = h[i] /\ i \in 0 .. n - 1
          BY <4>2
        <5>2. h[i] = IF i = 0 THEN BeginWrite(series, cap) ELSE AppendSample(h[i - 1], series, i, cap)
          BY <2>4, <5>1
        <5>3. i # 0 => g[i - 1] = h[i - 1]
          BY <5>1
        <5> HIDE DEF g
        <5> QED
          BY <5>1, <5>2, <5>3
      <4> QED
        BY <4>1, <4>2
    <3>2. g = [i \in 0 .. n |-> g[i]]
      OBVIOUS
    <3> HIDE DEF g
    <3> QED
      BY <3>1, <3>2
  <2> QED
    BY <2>1, <2>5
<1>2. \E h : G(h, Len(series.samples))
  BY <1>1
<1>3. Fills(series, cap) = CHOOSE h : G(h, Len(series.samples))
  BY DEF Fills
<1> QED
  BY <1>2, <1>3

(* A frame with the n samples from a on.                                    *)
FrameOf(series, a, n) == series.alignment = a /\ series.samples = Run(a, a + n)

LEMMA DynamicWriteFacts ==
  ASSUME TimeOK, CurrOK, next \in Nat, NEW a \in Nat, next <= a, NEW n \in Nat, n > 0,
         NEW cap \in Caps, NEW series, FrameOf(series, a, n)
  PROVE  LET r == dynamicWrite(series, cap) IN
         /\ FillOK(r, a + n) /\ r.buf.samples # <<>>
         /\ curr # None => \A p \in CoveredBy(curr) : Holds(r, p)
<1> DEFINE F == Fills(series, cap)
           Good(i) == /\ FillOK(F[i], a + i)
                      /\ i > 0 => F[i].buf.samples # <<>>
                      /\ curr # None => \A p \in CoveredBy(curr) : Holds(F[i], p)
           T == {i \in 0 .. n : Good(i)}
<1>1. series.alignment = a /\ series.samples = [i \in 1 .. n |-> a + i - 1]
  <2>1. (a + n) - a = n
    OBVIOUS
  <2> QED
    BY <2>1 DEF Run, FrameOf
<1>2. Len(series.samples) = n /\ \A i \in 1 .. n : series.samples[i] = a + i - 1
  BY <1>1
<1>3. F = [i \in 0 .. n |-> IF i = 0 THEN BeginWrite(series, cap)
                            ELSE AppendSample(F[i - 1], series, i, cap)]
  <2>1. Len(series.samples) \in Nat
    BY <1>2
  <2>2. F = [i \in 0 .. Len(series.samples) |-> IF i = 0 THEN BeginWrite(series, cap)
                                               ELSE AppendSample(F[i - 1], series, i, cap)]
    BY <2>1, FillsUnfold
  <2> QED
    BY <1>2, <2>2
<1> HIDE DEF F
<1>4. 0 \in T
  <2>1. F[0] = BeginWrite(series, cap) /\ a + 0 = a
    BY <1>3
  <2>2. /\ FillOK(BeginWrite(series, cap), a)
        /\ curr # None => \A p \in CoveredBy(curr) : Holds(BeginWrite(series, cap), p)
    BY <1>1, BeginFacts
  <2> QED
    BY <2>1, <2>2
<1>5. ASSUME NEW i \in 0 .. n - 1, i \in T PROVE i + 1 \in T
  <2>1. i + 1 \in 1 .. n /\ i + 1 \in 0 .. n /\ (i + 1) - 1 = i /\ a + i \in Nat
    OBVIOUS
  <2>2. F[i + 1] = AppendSample(F[i], series, i + 1, cap)
    <3>1. F[i + 1] = AppendSample(F[(i + 1) - 1], series, i + 1, cap)
      BY <1>3, <2>1
    <3> QED
      BY <2>1, <3>1
  <2>3. Supplies(series, i + 1, a + i)
    <3>1. series.samples[i + 1] = a + (i + 1) - 1 /\ series.alignment = a
      BY <1>1, <1>2, <2>1
    <3> QED
      BY <3>1, <2>1 DEF Supplies
  <2>4. Good(i)
    BY <1>5
  <2> DEFINE st == F[i]
             m == a + i
             r == AppendSample(st, series, i + 1, cap)
  <2>5. m \in Nat /\ FillOK(st, m) /\ Supplies(series, i + 1, m)
    BY <2>1, <2>3, <2>4
  <2>6. FillOK(r, m + 1) /\ r.buf.samples # <<>> /\ \A p : Holds(st, p) => Holds(r, p)
    <3> HIDE DEF st, m
    <3> QED
      BY <2>5, AppendFacts
  <2>7. m + 1 = a + (i + 1) /\ F[i + 1] = r
    BY <2>1, <2>2
  <2>8. Good(i + 1)
    <3> HIDE DEF r, m
    <3> QED
      BY <2>4, <2>6, <2>7 DEF m
  <2> QED
    BY <2>1, <2>8
<1>6. 0 .. n \subseteq T
  <2> HIDE DEF T
  <2> QED
    BY <1>4, <1>5, Climb
<1>7. Good(n)
  BY <1>6
<1> QED
  BY <1>2, <1>7 DEF F, dynamicWrite

-----------------------------------------------------------------------------
(* What the cluster answers.                                               *)

Stored(from, to) == [alignment |-> from, samples |-> Run(from, to),
                     start |-> from, end |-> to, held |-> FALSE]

(* A stored series with the samples from .. to - 1.                         *)
PieceOf(s, from, to) ==
  /\ s \in Series /\ s.samples # <<>> /\ s.end = to /\ Close(s, to)
  /\ s.alignment = from /\ s.alignment + Len(s.samples) = to

LEMMA StoredFacts ==
  ASSUME NEW from \in Nat, NEW to \in Nat, from < to, to <= MaxNow
  PROVE  PieceOf(Stored(from, to), from, to)
<1> DEFINE s == Stored(from, to)
           q == Run(from, to)
           n == to - from
<1>1. n \in Nat /\ n > 0 /\ MaxNow \in Nat /\ from \in 0 .. MaxNow /\ to \in 0 .. MaxNow + 1
  BY CacheAssumption
<1>2. q = [i \in 1 .. n |-> from + i - 1]
  BY DEF Run
<1> HIDE DEF q, n
<1>3. q \in Seq(Nat) /\ Len(q) = n /\ \A i \in 1 .. n : q[i] = from + i - 1
  BY <1>1, <1>2
<1>4. s = [alignment |-> from, samples |-> q, start |-> from, end |-> to, held |-> FALSE]
  BY DEF Stored, q
<1>5. s.alignment = from /\ s.samples = q /\ s.end = to
  BY <1>4
<1>6. s \in Series
  BY <1>1, <1>3, <1>4 DEF Series
<1> HIDE DEF s
<1>7. ASSUME NEW k \in 1 .. n PROVE q[k] - (from + k - 1) \in {0, 1} /\ q[k] < to
  <2>1. q[k] = from + k - 1 /\ k <= n /\ k \in Nat
    BY <1>1, <1>3
  <2> QED
    BY <2>1 DEF n
<1>8. Close(s, to)
  BY <1>3, <1>5, <1>7 DEF Close
<1>9. q # <<>>
  <2>1. Len(q) # 0
    BY <1>1, <1>3
  <2> QED
    BY <2>1, <1>3
<1>10. from + Len(q) = to
  BY <1>3 DEF n
<1> QED
  BY <1>5, <1>6, <1>8, <1>9, <1>10 DEF PieceOf, s

LEMMA RemoteFacts ==
  ASSUME TimeOK, NEW tr \in TimeRanges, NEW last, last = Min2(tr.end, now)
  PROVE  \/ readRemote(tr) = <<>> /\ last <= tr.start
         \/ \E s : readRemote(tr) = <<s>> /\ PieceOf(s, tr.start, last)
         \/ \E s, t : /\ readRemote(tr) = <<s, t>>
                      /\ PieceOf(s, tr.start, DomainStart) /\ PieceOf(t, DomainStart, last)
                      /\ DomainStart < last
<1> DEFINE a == tr.start
           m1 == Min2(last, DomainStart)
           m2 == Max2(a, DomainStart)
           p1 == IF a < m1 THEN <<Stored(a, m1)>> ELSE <<>>
           p2 == IF m2 < last THEN <<Stored(m2, last)>> ELSE <<>>
<1>1. MaxNow \in Nat /\ DomainStart \in Nat /\ now \in Nat /\ now <= MaxNow
  BY CacheAssumption DEF TimeOK
<1>2. a \in Nat /\ tr.end \in Nat
  BY <1>1 DEF TimeRanges
<1>3. last \in Nat /\ last <= MaxNow
  BY <1>1, <1>2 DEF Min2
<1>4. readRemote(tr) = p1 \o p2
  BY DEF readRemote, Stored
<1> HIDE DEF p1, p2
<1>5. m1 \in Nat /\ m2 \in Nat /\ m1 <= last /\ m1 <= MaxNow
  BY <1>1, <1>2, <1>3 DEF Min2, Max2
<1>6. (m1 = last /\ last <= DomainStart) \/ (m1 = DomainStart /\ DomainStart < last)
  BY <1>1, <1>3 DEF Min2
<1>7. (m2 = a /\ DomainStart < a) \/ (m2 = DomainStart /\ a <= DomainStart)
  BY <1>1, <1>2 DEF Max2
<1> HIDE DEF m1, m2, a
<1>8. CASE a < m1 /\ m2 < last
  <2>1. m1 = DomainStart /\ m2 = DomainStart
    BY <1>1, <1>2, <1>3, <1>6, <1>7, <1>8
  <2>2. readRemote(tr) = <<Stored(a, m1), Stored(m2, last)>>
    <3>1. ASSUME NEW x, NEW y PROVE <<x>> \o <<y>> = <<x, y>>
      <4> DEFINE u == <<x>>
                 v == <<y>>
                 w == <<x, y>>
      <4>1. /\ u \in Seq({x, y}) /\ Len(u) = 1 /\ u[1] = x
            /\ v \in Seq({x, y}) /\ Len(v) = 1 /\ v[1] = y
            /\ w \in Seq({x, y}) /\ Len(w) = 2 /\ w[1] = x /\ w[2] = y
        OBVIOUS
      <4> HIDE DEF u, v, w
      <4>2. /\ u \o v \in Seq({x, y}) /\ Len(u \o v) = 2
            /\ (u \o v)[1] = x /\ (u \o v)[2] = y
        BY <4>1, ConcatProperties, SMTT(30)
      <4>3. \A i \in 1 .. Len(u \o v) : (u \o v)[i] = w[i]
        BY <4>1, <4>2
      <4>4. u \o v = w
        BY <4>1, <4>2, <4>3, SeqEqual
      <4> QED
        BY <4>4 DEF u, v, w
    <3>2. p1 = <<Stored(a, m1)>> /\ p2 = <<Stored(m2, last)>>
      BY <1>8 DEF p1, p2
    <3> QED
      BY <1>4, <3>1, <3>2
  <2>3. PieceOf(Stored(a, m1), a, m1) /\ PieceOf(Stored(m2, last), m2, last)
    BY <1>1, <1>2, <1>3, <1>5, <1>8, StoredFacts
  <2> QED
    BY <1>8, <2>1, <2>2, <2>3 DEF a
<1>9. CASE a < m1 /\ ~(m2 < last)
  <2>1. m1 = last
    BY <1>1, <1>2, <1>3, <1>5, <1>6, <1>7, <1>9
  <2>2. readRemote(tr) = <<Stored(a, m1)>>
    BY <1>4, <1>9 DEF p1, p2
  <2>3. PieceOf(Stored(a, m1), a, m1)
    BY <1>2, <1>5, <1>9, StoredFacts
  <2> QED
    BY <2>1, <2>2, <2>3 DEF a
<1>10. CASE ~(a < m1) /\ m2 < last
  <2>1. m2 = a
    BY <1>1, <1>2, <1>3, <1>5, <1>6, <1>7, <1>10
  <2>2. readRemote(tr) = <<Stored(m2, last)>>
    BY <1>4, <1>10 DEF p1, p2
  <2>3. PieceOf(Stored(m2, last), m2, last)
    BY <1>3, <1>5, <1>10, StoredFacts
  <2> QED
    BY <2>1, <2>2, <2>3 DEF a
<1>11. CASE ~(a < m1) /\ ~(m2 < last)
  <2>1. last <= a
    BY <1>1, <1>2, <1>3, <1>5, <1>6, <1>7, <1>11
  <2>2. readRemote(tr) = <<>>
    BY <1>4, <1>11 DEF p1, p2
  <2> QED
    BY <2>1, <2>2 DEF a
<1> QED
  BY <1>8, <1>9, <1>10, <1>11

(* Every sample that is there by now of what was asked for is in the cache *)
(* afterwards, whatever the cache holds.                                   *)
LEMMA RemoteLands ==
  ASSUME TimeOK, NEW tr \in TimeRanges, NEW d \in Seq(Entries),
         NEW p \in tr.start .. Min2(tr.end, now) - 1
  PROVE  Covers(staticWrite(d, readRemote(tr)), p)
<1> DEFINE last == Min2(tr.end, now)
           ss == readRemote(tr)
           a == tr.start
<1>1. /\ now \in Nat /\ a \in Nat /\ tr.end \in Nat /\ DomainStart \in Nat
  BY CacheAssumption DEF TimeOK, TimeRanges
<1>2. last \in Nat
  BY <1>1 DEF Min2
<1>3. last = Min2(tr.end, now) /\ p \in a .. last - 1
  OBVIOUS
<1> HIDE DEF last
<1>4. \/ ss = <<>> /\ last <= a
      \/ \E s : ss = <<s>> /\ PieceOf(s, a, last)
      \/ \E s, t : /\ ss = <<s, t>>
                   /\ PieceOf(s, a, DomainStart) /\ PieceOf(t, DomainStart, last)
                   /\ DomainStart < last
  BY <1>3, RemoteFacts
<1> HIDE DEF ss, a
<1>5. CASE ss = <<>> /\ last <= a
  BY <1>1, <1>2, <1>3, <1>5
<1>6. ASSUME NEW s, ss = <<s>>, PieceOf(s, a, last)
      PROVE  Covers(staticWrite(d, ss), p)
  <2>1. Len(ss) = 1 /\ ss[1] = s
    BY <1>6
  <2>2. staticWrite(d, ss) = writeOne(d, s)
    <3>1. 0 \in 0 .. Len(ss) - 1 /\ Len(ss) \in Nat /\ 0 + 1 = 1
      BY <2>1
    <3>2. Writes(d, ss)[0] = d /\ Writes(d, ss)[0 + 1] = writeOne(Writes(d, ss)[0], ss[0 + 1])
      BY <3>1, WritesFacts
    <3> QED
      BY <3>1, <3>2, <2>1 DEF staticWrite
  <2>3. s \in Series /\ s.samples # <<>> /\ a = s.alignment /\ last = s.alignment + Len(s.samples)
    BY <1>6 DEF PieceOf
  <2>4. Reach(writeOne(d, s), p, last)
    BY <1>3, <2>3, WriteLands
  <2> QED
    BY <2>2, <2>4 DEF Reach, Covers
<1>7. ASSUME NEW s, NEW t, ss = <<s, t>>, PieceOf(s, a, DomainStart), PieceOf(t, DomainStart, last)
      PROVE  Covers(staticWrite(d, ss), p)
  <2>1. Len(ss) = 2 /\ ss[1] = s /\ ss[2] = t
    BY <1>7
  <2> DEFINE e == writeOne(d, s)
  <2>2. staticWrite(d, ss) = writeOne(e, t)
    <3>1. 0 \in 0 .. Len(ss) - 1 /\ 1 \in 0 .. Len(ss) - 1 /\ Len(ss) \in Nat /\ 0 + 1 = 1 /\ 1 + 1 = 2
      BY <2>1
    <3>2. /\ Writes(d, ss)[0] = d /\ Writes(d, ss)[0 + 1] = writeOne(Writes(d, ss)[0], ss[0 + 1])
          /\ Writes(d, ss)[1 + 1] = writeOne(Writes(d, ss)[1], ss[1 + 1])
      BY <3>1, WritesFacts
    <3> QED
      BY <3>1, <3>2, <2>1 DEF staticWrite
  <2>3. /\ s \in Series /\ s.samples # <<>> /\ a = s.alignment /\ DomainStart = s.alignment + Len(s.samples)
        /\ t \in Series /\ t.samples # <<>> /\ DomainStart = t.alignment /\ last = t.alignment + Len(t.samples)
    BY <1>7 DEF PieceOf
  <2>4. e \in Seq(Entries)
    BY <2>3, WriteOneType
  <2>5. CASE p < DomainStart
    <3>1. p \in a .. DomainStart - 1 /\ p \in Nat
      BY <2>5, <1>1, <1>2, <1>3
    <3>2. Reach(e, p, DomainStart)
      BY <3>1, <2>3, WriteLands
    <3> HIDE DEF e
    <3>3. Reach(writeOne(e, t), p, t.alignment + Len(t.samples))
      BY <3>1, <3>2, <2>3, <2>4, <2>5, WriteKeepsEarly
    <3> QED
      BY <3>3, <2>2 DEF Reach, Covers
  <2>6. CASE ~(p < DomainStart)
    <3>1. p \in DomainStart .. last - 1
      BY <2>6, <1>1, <1>2, <1>3
    <3> HIDE DEF e
    <3>2. Reach(writeOne(e, t), p, last)
      BY <3>1, <2>3, <2>4, WriteLands
    <3> QED
      BY <2>2, <3>2 DEF Reach, Covers
  <2> QED
    BY <2>5, <2>6
<1> QED
  BY <1>4, <1>5, <1>6, <1>7 DEF ss

-----------------------------------------------------------------------------
(* The inductive invariant.                                                *)

(* Entries whose series ended by m and hold samples from before m, each at  *)
(* its position or one behind.                                              *)
Sound(m) == {e \in Entries : e.series.end <= m /\ Close(e.series, m)}

Inv ==
  /\ TimeOK /\ next \in 0 .. now
  /\ closed \in BOOLEAN /\ firstHit \in BOOLEAN /\ pending \subseteq TimeRanges
  /\ CurrOK
  /\ data \in Seq(Sound(now))
  /\ ~firstHit => Apart(data)

LEMMA EntryType ==
  ASSUME NEW e \in Entries
  PROVE  /\ e.series \in Series /\ e.series.samples # <<>> /\ e.age \in 0 .. StaleAfter
         /\ e.series.alignment \in Nat /\ e.series.samples \in Seq(Nat)
         /\ e.series.start \in 0 .. MaxNow /\ e.series.end \in 0 .. MaxNow + 1
         /\ e.series.held \in BOOLEAN
<1>1. e \in [series : Series, age : 0 .. StaleAfter] /\ e.series.samples # <<>>
  BY DEF Entries
<1>2. e.series \in Series /\ e.age \in 0 .. StaleAfter
  BY <1>1
<1> QED
  BY <1>1, <1>2 DEF Series

LEMMA SoundLater ==
  ASSUME NEW m \in Nat, NEW l \in Nat, m <= l
  PROVE  Sound(m) \subseteq Sound(l)
<1> SUFFICES ASSUME NEW e \in Sound(m) PROVE e \in Sound(l)
  OBVIOUS
<1>1. e \in Entries /\ e.series.end <= m /\ Close(e.series, m)
  BY DEF Sound
<1>2. e.series.samples \in Seq(Nat) /\ e.series.end \in Int
  BY <1>1, EntryType, CacheAssumption
<1>3. Close(e.series, l) /\ e.series.end <= l
  BY <1>1, <1>2, CloseLater
<1> QED
  BY <1>1, <1>3 DEF Sound

LEMMA PartSound ==
  ASSUME NEW m \in Nat, NEW s \in Series, s.end <= m, Close(s, m),
         NEW x \in Entries, PartOf(x.series, s)
  PROVE  x \in Sound(m)
<1> DEFINE y == x.series
<1>1. /\ y \in Series /\ y.end = s.end /\ s.alignment <= y.alignment
      /\ y.alignment + Len(y.samples) <= s.alignment + Len(s.samples)
      /\ \A k \in 1 .. Len(y.samples) : y.samples[k] = s.samples[y.alignment - s.alignment + k]
  BY DEF PartOf
<1> HIDE DEF y
<1>2. /\ y.alignment \in Nat /\ y.samples \in Seq(Nat) /\ Len(y.samples) \in Nat
      /\ s.alignment \in Nat /\ s.samples \in Seq(Nat) /\ Len(s.samples) \in Nat
  <2>1. \A z \in Series : z.alignment \in Nat /\ z.samples \in Seq(Nat) /\ Len(z.samples) \in Nat
    BY DEF Series
  <2> QED
    BY <1>1, <2>1
<1>3. ASSUME NEW k \in 1 .. Len(y.samples)
      PROVE  y.samples[k] - (y.alignment + k - 1) \in {0, 1} /\ y.samples[k] < m
  <2> DEFINE j == y.alignment - s.alignment + k
  <2>1. j \in 1 .. Len(s.samples) /\ s.alignment + j - 1 = y.alignment + k - 1
    <3>1. /\ s.alignment <= y.alignment /\ k \in Nat /\ k >= 1 /\ k <= Len(y.samples)
          /\ y.alignment + Len(y.samples) <= s.alignment + Len(s.samples)
      BY <1>1, <1>2
    <3>2. j \in Int /\ s.alignment + j - 1 = y.alignment + k - 1
      BY <3>1, <1>2, SMTT(30)
    <3>3. 1 <= j /\ j <= Len(s.samples)
      <4>1. \A sa, sl, ya, yl, i \in Nat :
              sa <= ya /\ 1 <= i /\ i <= yl /\ ya + yl <= sa + sl
                => 1 <= ya - sa + i /\ ya - sa + i <= sl
        OBVIOUS
      <4> QED
        BY <4>1, <3>1, <1>2
    <3> HIDE DEF j
    <3> QED
      BY <3>2, <3>3, <1>2
  <2>2. y.samples[k] = s.samples[j]
    BY <1>1
  <2> HIDE DEF j
  <2>3. s.samples[j] - (s.alignment + j - 1) \in {0, 1} /\ s.samples[j] < m
    BY <2>1 DEF Close
  <2> QED
    BY <2>1, <2>2, <2>3
<1>4. Close(y, m)
  BY <1>3 DEF Close
<1> QED
  BY <1>1, <1>4 DEF Sound, y

(* What may be written to the static cache at time m.                       *)
Writable(ss, m) ==
  /\ ss \in Seq(Series)
  /\ \A i \in 1 .. Len(ss) : ss[i].samples # <<>> /\ ss[i].end <= m /\ Close(ss[i], m)

LEMMA StaticSound ==
  ASSUME NEW m \in Nat, NEW d \in Seq(Sound(m)), NEW ss, Writable(ss, m)
  PROVE  staticWrite(d, ss) \in Seq(Sound(m))
<1>1. ss \in Seq(Series) /\ Len(ss) \in Nat
  BY DEF Writable
<1>2. ASSUME NEW i \in 1 .. Len(ss)
      PROVE  /\ ss[i].samples # <<>>
             /\ \A x \in Entries : PartOf(x.series, ss[i]) /\ x.age = 0 => x \in Sound(m)
  <2>1. ss[i] \in Series /\ ss[i].samples # <<>> /\ ss[i].end <= m /\ Close(ss[i], m)
    BY <1>1 DEF Writable
  <2> QED
    BY <2>1, PartSound
<1>3. Sound(m) \subseteq Entries
  BY DEF Sound
<1>4. \A i \in 0 .. Len(ss) : Writes(d, ss)[i] \in Seq(Sound(m))
  <2> DEFINE G == Sound(m)
  <2>1. G \subseteq Entries /\ d \in Seq(G)
    BY <1>3
  <2>2. \A i \in 1 .. Len(ss) :
          /\ ss[i].samples # <<>>
          /\ \A x \in Entries : PartOf(x.series, ss[i]) /\ x.age = 0 => x \in G
    BY <1>2
  <2> HIDE DEF G
  <2>3. \A i \in 0 .. Len(ss) : Writes(d, ss)[i] \in Seq(G)
    BY <1>1, <2>1, <2>2, WritesType
  <2> QED
    BY <2>3 DEF G
<1> QED
  BY <1>1, <1>4 DEF staticWrite

LEMMA RemoteSound ==
  ASSUME TimeOK, NEW tr \in TimeRanges
  PROVE  Writable(readRemote(tr), now)
<1> DEFINE last == Min2(tr.end, now)
           ss == readRemote(tr)
<1>1. now \in Nat /\ DomainStart \in Nat /\ tr.end \in Nat
  BY CacheAssumption DEF TimeOK, TimeRanges
<1>2. last \in Nat /\ last <= now
  BY <1>1 DEF Min2
<1>3. last = Min2(tr.end, now)
  OBVIOUS
<1> HIDE DEF last
<1>4. \/ ss = <<>>
      \/ \E s : ss = <<s>> /\ PieceOf(s, tr.start, last)
      \/ \E s, t : /\ ss = <<s, t>>
                   /\ PieceOf(s, tr.start, DomainStart) /\ PieceOf(t, DomainStart, last)
                   /\ DomainStart < last
  BY <1>3, RemoteFacts
<1> HIDE DEF ss
<1>5. ASSUME NEW s, NEW from, NEW to \in Nat, to <= now, PieceOf(s, from, to)
      PROVE  s \in Series /\ s.samples # <<>> /\ s.end <= now /\ Close(s, now)
  <2>1. s \in Series /\ s.samples # <<>> /\ s.end = to /\ Close(s, to)
    BY <1>5 DEF PieceOf
  <2>2. s.samples \in Seq(Nat)
    BY <2>1 DEF Series
  <2> QED
    BY <2>1, <2>2, <1>1, <1>5, CloseLater
<1>6. ASSUME ss = <<>> PROVE Writable(ss, now)
  BY <1>6 DEF Writable
<1>7. ASSUME NEW s, ss = <<s>>, PieceOf(s, tr.start, last) PROVE Writable(ss, now)
  <2>1. s \in Series /\ s.samples # <<>> /\ s.end <= now /\ Close(s, now)
    BY <1>2, <1>5, <1>7
  <2>2. ss \in Seq(Series) /\ Len(ss) = 1 /\ ss[1] = s
    BY <1>7, <2>1
  <2> QED
    BY <2>1, <2>2 DEF Writable
<1>8. ASSUME NEW s, NEW t, ss = <<s, t>>, PieceOf(s, tr.start, DomainStart),
             PieceOf(t, DomainStart, last), DomainStart < last
      PROVE  Writable(ss, now)
  <2>1. s \in Series /\ s.samples # <<>> /\ s.end <= now /\ Close(s, now)
    BY <1>1, <1>2, <1>5, <1>8
  <2>2. t \in Series /\ t.samples # <<>> /\ t.end <= now /\ Close(t, now)
    BY <1>2, <1>5, <1>8
  <2>3. ss \in Seq(Series) /\ Len(ss) = 2 /\ ss[1] = s /\ ss[2] = t
    BY <1>8, <2>1, <2>2
  <2>4. ASSUME NEW i \in 1 .. Len(ss)
        PROVE  ss[i].samples # <<>> /\ ss[i].end <= now /\ Close(ss[i], now)
    <3>1. i = 1 \/ i = 2
      BY <2>3
    <3> QED
      BY <3>1, <2>1, <2>2, <2>3
  <2> QED
    BY <2>3, <2>4 DEF Writable
<1> QED
  BY <1>4, <1>6, <1>7, <1>8 DEF ss

LEMMA SameBounds ==
  ASSUME NEW d \in Seq(Entries), NEW e \in Seq(Entries), Len(d) = Len(e), Apart(d),
         \A i \in 1 .. Len(d) : Lower(e[i]) = Lower(d[i]) /\ Upper(e[i]) = Upper(d[i])
  PROVE  Apart(e)
BY DEF Apart

LEMMA HoldEntry ==
  ASSUME NEW m, NEW e \in Sound(m), NEW h \in BOOLEAN
  PROVE  LET f == [e EXCEPT !.series.held = h] IN
         /\ f \in Sound(m) /\ f.series.alignment = e.series.alignment
         /\ f.series.samples = e.series.samples
<1> DEFINE s == e.series
           t == [s EXCEPT !.held = h]
           f == [e EXCEPT !.series = t]
<1>1. e \in [series : Series, age : 0 .. StaleAfter] /\ s.samples # <<>> /\ s \in Series
      /\ s.end <= m /\ Close(s, m)
  BY DEF Sound, Entries
<1>2. f = [e EXCEPT !.series.held = h]
  BY <1>1
<1> HIDE DEF s
<1>3. t \in Series /\ t.alignment = s.alignment /\ t.samples = s.samples /\ t.end = s.end
  BY <1>1 DEF Series
<1> HIDE DEF t
<1>4. f \in [series : Series, age : 0 .. StaleAfter] /\ f.series = t
  BY <1>1, <1>3
<1> HIDE DEF f
<1>5. f \in Entries
  BY <1>1, <1>3, <1>4 DEF Entries
<1>6. Close(t, m)
  BY <1>1, <1>3 DEF Close
<1>7. f \in Sound(m)
  BY <1>1, <1>3, <1>4, <1>5, <1>6 DEF Sound
<1> QED
  BY <1>2, <1>3, <1>4, <1>7 DEF s

LEMMA InvTypes ==
  ASSUME Inv
  PROVE  /\ MaxNow \in Nat /\ now \in Nat /\ now <= MaxNow /\ next \in Nat /\ next <= now
         /\ data \in Seq(Entries) /\ data \in Seq(Sound(now)) /\ Len(data) \in Nat
         /\ \A i \in 1 .. Len(data) : data[i] \in Sound(now) /\ data[i] \in Entries
<1>1. MaxNow \in Nat /\ now \in 0 .. MaxNow /\ next \in 0 .. now
  BY CacheAssumption DEF Inv, TimeOK
<1>2. data \in Seq(Sound(now)) /\ Sound(now) \subseteq Entries
  BY DEF Inv, Sound
<1>3. Len(data) \in Nat /\ \A i \in 1 .. Len(data) : data[i] \in Sound(now)
  BY <1>2
<1>4. data \in Seq(Entries)
  BY <1>2, <1>3, SeqOf
<1> QED
  BY <1>1, <1>2, <1>3, <1>4

(* A frame: what is written to the buffer and what goes to Static.          *)
LEMMA FrameFacts ==
  ASSUME Inv, NEW skip \in Skips, NEW n \in 1 .. MaxNow, NEW cap \in Caps,
         writeDynamic(skip, n, cap), ~closed
  PROVE  \E res :
         /\ curr' = res.buf /\ data' = staticWrite(data, res.flushed)
         /\ firstHit' = (firstHit \/ WriteHitsFirst(data, res.flushed))
         /\ res.buf \in Buffers /\ Len(res.buf.samples) \in 1 .. res.buf.cap /\ Close(res.buf, next')
         /\ Writable(res.flushed, now) /\ InOrder(res.flushed)
         /\ curr # None => \A p \in CoveredBy(curr) : Holds(res, p)
<1> DEFINE a == next + skip
           series == [alignment |-> a, samples |-> Run(a, a + n)]
           res == dynamicWrite(series, cap)
<1>1. /\ next \in Nat /\ now \in Nat /\ skip \in Nat /\ n \in Nat /\ n > 0 /\ TimeOK /\ CurrOK
  BY InvTypes, CacheAssumption DEF Inv
<1>2. a \in Nat /\ next <= a
  BY <1>1
<1>3. /\ curr' = res.buf /\ data' = staticWrite(data, res.flushed)
      /\ firstHit' = (firstHit \/ WriteHitsFirst(data, res.flushed))
      /\ next' = a + n /\ a + n <= now
  BY DEF writeDynamic
<1> HIDE DEF a
<1>4. FrameOf(series, a, n)
  BY DEF FrameOf
<1> HIDE DEF series
<1>5. /\ FillOK(res, a + n) /\ res.buf.samples # <<>>
      /\ curr # None => \A p \in CoveredBy(curr) : Holds(res, p)
  BY <1>1, <1>2, <1>4, DynamicWriteFacts
<1> HIDE DEF res
<1>6. /\ res \in [buf : Buffers, flushed : Seq(Series)] /\ Len(res.buf.samples) <= res.buf.cap
      /\ Close(res.buf, a + n)
      /\ \A j \in 1 .. Len(res.flushed) : /\ res.flushed[j].samples # <<>>
                                          /\ res.flushed[j].end = now /\ Close(res.flushed[j], a + n)
      /\ InOrder(res.flushed)
  BY <1>5 DEF FillOK, Queued
<1>7. res.buf \in Buffers /\ res.flushed \in Seq(Series)
  BY <1>6
<1>8. Len(res.buf.samples) \in 1 .. res.buf.cap
  <2>1. res.buf.samples \in Seq(Nat) /\ res.buf.cap \in Caps
    BY <1>7 DEF Buffers
  <2>2. res.buf.cap \in Nat
    BY <2>1, CacheAssumption
  <2>3. Len(res.buf.samples) \in Nat /\ Len(res.buf.samples) # 0
    BY <2>1, <1>5
  <2> QED
    BY <2>2, <2>3, <1>6
<1>9. Writable(res.flushed, now)
  <2>1. ASSUME NEW j \in 1 .. Len(res.flushed)
        PROVE  /\ res.flushed[j].samples # <<>> /\ res.flushed[j].end <= now
               /\ Close(res.flushed[j], now)
    <3>1. res.flushed[j] \in Series
      BY <1>7
    <3>2. res.flushed[j].samples \in Seq(Nat)
      BY <3>1 DEF Series
    <3>3. a + n \in Nat
      BY <1>1, <1>2
    <3>4. Close(res.flushed[j], now)
      BY <3>2, <3>3, <1>1, <1>3, <1>6, CloseLater
    <3> QED
      BY <3>4, <1>1, <1>6
  <2> QED
    BY <2>1, <1>7 DEF Writable
<1> QED
  BY <1>3, <1>5, <1>6, <1>7, <1>8, <1>9

LEMMA StaticApart ==
  ASSUME NEW m, NEW d \in Seq(Entries), NEW ss, Writable(ss, m), Apart(d), ~WriteHitsFirst(d, ss)
  PROVE  /\ Apart(staticWrite(d, ss))
         /\ \A p \in Nat : Covers(d, p) \/ (\E i \in 1 .. Len(ss) : p \in CoveredBy(ss[i]))
                            => Covers(staticWrite(d, ss), p)
<1>1. ss \in Seq(Series) /\ \A i \in 1 .. Len(ss) : ss[i].samples # <<>>
  BY DEF Writable
<1> QED
  BY <1>1, WritesKeep

LEMMA InvWriteDynamic ==
  ASSUME Inv, NEW skip \in Skips, NEW n \in 1 .. MaxNow, NEW cap \in Caps,
         writeDynamic(skip, n, cap)
  PROVE  Inv'
<1>1. /\ now' = now /\ closed' = closed /\ pending' = pending
      /\ next' = next + skip + n /\ next + skip + n <= now
  BY DEF writeDynamic
<1>2. /\ next \in Nat /\ now \in Nat /\ skip \in Nat /\ n \in Nat /\ next' \in Nat
      /\ next' \in 0 .. now' /\ next <= next'
  BY <1>1, InvTypes, CacheAssumption
<1>3. TimeOK' /\ closed' \in BOOLEAN /\ pending' \subseteq TimeRanges
  BY <1>1 DEF Inv, TimeOK
<1>4. CASE closed
  <2>1. curr' = curr /\ data' = data /\ firstHit' = firstHit
    BY <1>4 DEF writeDynamic
  <2>2. CurrOK'
    <3>1. CASE curr = None
      BY <3>1, <2>1 DEF CurrOK
    <3>2. CASE curr # None
      <4>1. curr \in Buffers /\ Len(curr.samples) \in 1 .. curr.cap /\ Close(curr, next)
        BY <3>2 DEF CurrOK, Inv
      <4>2. curr.samples \in Seq(Nat)
        BY <4>1 DEF Buffers
      <4>3. Close(curr, next')
        BY <4>1, <4>2, <1>2, CloseLater
      <4> QED
        BY <4>1, <4>3, <2>1 DEF CurrOK
    <3> QED
      BY <3>1, <3>2
  <2> QED
    BY <1>1, <1>2, <1>3, <2>1, <2>2 DEF Inv
<1>5. CASE ~closed
  <2>1. PICK res :
         /\ curr' = res.buf /\ data' = staticWrite(data, res.flushed)
         /\ firstHit' = (firstHit \/ WriteHitsFirst(data, res.flushed))
         /\ res.buf \in Buffers /\ Len(res.buf.samples) \in 1 .. res.buf.cap /\ Close(res.buf, next')
         /\ Writable(res.flushed, now)
    BY <1>5, FrameFacts
  <2>2. CurrOK'
    BY <2>1 DEF CurrOK
  <2>3. data' \in Seq(Sound(now))
    BY <2>1, <1>2, InvTypes, StaticSound
  <2>4. ~firstHit' => Apart(data')
    BY <2>1, InvTypes, StaticApart DEF Inv
  <2>5. firstHit' \in BOOLEAN
    BY <2>1
  <2> QED
    BY <1>1, <1>2, <1>3, <2>2, <2>3, <2>4, <2>5 DEF Inv
<1> QED
  BY <1>4, <1>5 DEF Inv

LEMMA InvWriteStatic ==
  ASSUME Inv, NEW tr \in pending, writeStatic(tr)
  PROVE  Inv'
<1> DEFINE ss == readRemote(tr)
<1>1. /\ now' = now /\ closed' = closed /\ pending' = pending \ {tr} /\ next' = next /\ curr' = curr
  BY DEF writeStatic
<1>2. TimeOK' /\ next' \in 0 .. now' /\ closed' \in BOOLEAN /\ pending' \subseteq TimeRanges /\ CurrOK'
  BY <1>1 DEF Inv, TimeOK, CurrOK
<1>3. CASE closed
  <2>1. data' = data /\ firstHit' = firstHit
    BY <1>3 DEF writeStatic
  <2> QED
    BY <1>1, <1>2, <2>1 DEF Inv
<1>4. CASE ~closed
  <2>1. data' = staticWrite(data, ss) /\ firstHit' = (firstHit \/ WriteHitsFirst(data, ss))
    BY <1>4 DEF writeStatic
  <2>2. Writable(ss, now)
    BY RemoteSound DEF Inv
  <2> HIDE DEF ss
  <2>3. data' \in Seq(Sound(now))
    BY <2>1, <2>2, InvTypes, StaticSound
  <2>4. ~firstHit' => Apart(data')
    BY <2>1, <2>2, InvTypes, StaticApart DEF Inv
  <2>5. firstHit' \in BOOLEAN
    BY <2>1
  <2> QED
    BY <1>1, <1>2, <2>3, <2>4, <2>5 DEF Inv
<1> QED
  BY <1>3, <1>4 DEF Inv

LEMMA InvGc ==
  ASSUME Inv, gc
  PROVE  Inv'
<1>1. /\ now' = now /\ closed' = closed /\ pending' = pending /\ next' = next /\ curr' = curr
      /\ firstHit' = firstHit /\ data' = Kept(data)[Len(data)]
  BY DEF gc
<1>2. data' \in Seq(Sound(now)) /\ (Apart(data) => Apart(data'))
  <2> DEFINE G == Sound(now)
  <2>1. G \subseteq Entries /\ data \in Seq(G)
    BY InvTypes DEF Sound
  <2> HIDE DEF G
  <2>2. data' \in Seq(G) /\ (Apart(data) => Apart(data'))
    BY <1>1, <2>1, KeptFacts
  <2> QED
    BY <2>2 DEF G
<1> QED
  BY <1>1, <1>2 DEF Inv, TimeOK, CurrOK

LEMMA InvClose ==
  ASSUME Inv, close
  PROVE  Inv'
<1>1. /\ now' = now /\ closed' = TRUE /\ pending' = pending /\ next' = next /\ curr' = None
      /\ firstHit' = firstHit /\ data' = <<>>
  BY DEF close
<1>2. data' \in Seq(Sound(now)) /\ Len(data') = 0
  BY <1>1
<1>3. Apart(data')
  BY <1>2 DEF Apart
<1> QED
  BY <1>1, <1>2, <1>3 DEF Inv, TimeOK, CurrOK

(* A buffer that is taken or given back is the same buffer otherwise.       *)
LEMMA HoldCurr ==
  ASSUME CurrOK, curr # None, NEW h \in BOOLEAN
  PROVE  LET c == [curr EXCEPT !.held = h] IN
         /\ c \in Buffers /\ Len(c.samples) \in 1 .. c.cap /\ Close(c, next)
         /\ c.alignment = curr.alignment /\ c.samples = curr.samples
<1> DEFINE c == [curr EXCEPT !.held = h]
<1>1. curr \in Buffers /\ Len(curr.samples) \in 1 .. curr.cap /\ Close(curr, next)
  BY DEF CurrOK
<1>2. c \in Buffers /\ c.alignment = curr.alignment /\ c.samples = curr.samples /\ c.cap = curr.cap
  BY <1>1 DEF Buffers
<1> HIDE DEF c
<1>3. Close(c, next)
  BY <1>1, <1>2 DEF Close
<1> QED
  BY <1>1, <1>2, <1>3 DEF c

(* So is an entry.                                                          *)
LEMMA HoldData ==
  ASSUME NEW m, NEW d \in Seq(Sound(m)), NEW i \in 1 .. Len(d), NEW h \in BOOLEAN
  PROVE  LET e == [d EXCEPT ![i].series.held = h] IN
         /\ e \in Seq(Sound(m)) /\ Len(e) = Len(d)
         /\ \A j \in 1 .. Len(d) : /\ e[j].series.alignment = d[j].series.alignment
                                   /\ e[j].series.samples = d[j].series.samples
<1> DEFINE f == [d[i] EXCEPT !.series.held = h]
           e == [d EXCEPT ![i] = f]
<1>1. e = [d EXCEPT ![i].series.held = h]
  OBVIOUS
<1>2. d[i] \in Sound(m)
  OBVIOUS
<1>3. /\ f \in Sound(m) /\ f.series.alignment = d[i].series.alignment
      /\ f.series.samples = d[i].series.samples
  BY <1>2, HoldEntry
<1> HIDE DEF f
<1>4. /\ e \in Seq(Sound(m)) /\ Len(e) = Len(d)
      /\ \A j \in 1 .. Len(d) : e[j] = IF j = i THEN f ELSE d[j]
  BY <1>3, ExceptSeq
<1> HIDE DEF e
<1>5. ASSUME NEW j \in 1 .. Len(d)
      PROVE  /\ e[j].series.alignment = d[j].series.alignment
             /\ e[j].series.samples = d[j].series.samples
  BY <1>3, <1>4
<1> QED
  BY <1>1, <1>4, <1>5

(* acquire and release change held only.                                    *)
Rehold(h) ==
  /\ \/ curr # None /\ curr' = [curr EXCEPT !.held = h] /\ data' = data
     \/ /\ \E i \in DOMAIN data : data' = [data EXCEPT ![i].series.held = h]
        /\ curr' = curr
  /\ UNCHANGED <<closed, now, next, pending, firstHit>>

LEMMA ReholdFacts ==
  ASSUME Inv, NEW h \in BOOLEAN, Rehold(h)
  PROVE  /\ CurrOK'
         /\ curr # None => /\ curr' # None /\ curr'.alignment = curr.alignment
                           /\ curr'.samples = curr.samples
         /\ data' \in Seq(Sound(now)) /\ Len(data') = Len(data)
         /\ \A j \in 1 .. Len(data) :
              /\ data'[j].series.alignment = data[j].series.alignment
              /\ data'[j].series.samples = data[j].series.samples
<1>1. data \in Seq(Sound(now)) /\ DOMAIN data = 1 .. Len(data) /\ CurrOK /\ next' = next
  BY InvTypes DEF Inv, Rehold
<1>2. CASE curr # None /\ curr' = [curr EXCEPT !.held = h] /\ data' = data
  <2>1. /\ curr' \in Buffers /\ Len(curr'.samples) \in 1 .. curr'.cap /\ Close(curr', next)
        /\ curr'.alignment = curr.alignment /\ curr'.samples = curr.samples
    BY <1>1, <1>2, HoldCurr
  <2>2. CurrOK' /\ curr' # None
    BY <2>1, <1>1, NotNone DEF CurrOK
  <2> QED
    BY <2>1, <2>2, <1>1, <1>2
<1>3. ASSUME NEW i \in DOMAIN data, data' = [data EXCEPT ![i].series.held = h], curr' = curr
      PROVE  /\ CurrOK'
             /\ curr # None => /\ curr' # None /\ curr'.alignment = curr.alignment
                               /\ curr'.samples = curr.samples
             /\ data' \in Seq(Sound(now)) /\ Len(data') = Len(data)
             /\ \A j \in 1 .. Len(data) :
                  /\ data'[j].series.alignment = data[j].series.alignment
                  /\ data'[j].series.samples = data[j].series.samples
  <2>1. i \in 1 .. Len(data)
    BY <1>1
  <2>2. /\ data' \in Seq(Sound(now)) /\ Len(data') = Len(data)
        /\ \A j \in 1 .. Len(data) : /\ data'[j].series.alignment = data[j].series.alignment
                                     /\ data'[j].series.samples = data[j].series.samples
    BY <1>1, <1>3, <2>1, HoldData, SMTT(30)
  <2>3. CurrOK'
    BY <1>1, <1>3 DEF CurrOK
  <2> QED
    BY <1>3, <2>2, <2>3
<1> QED
  BY <1>2, <1>3 DEF Rehold

LEMMA InvRehold ==
  ASSUME Inv, NEW h \in BOOLEAN, Rehold(h)
  PROVE  Inv'
<1>1. /\ now' = now /\ closed' = closed /\ pending' = pending /\ next' = next /\ firstHit' = firstHit
  BY DEF Rehold
<1>2. /\ CurrOK' /\ data' \in Seq(Sound(now)) /\ Len(data') = Len(data)
      /\ \A j \in 1 .. Len(data) : /\ data'[j].series.alignment = data[j].series.alignment
                                   /\ data'[j].series.samples = data[j].series.samples
  BY ReholdFacts
<1>3. data' \in Seq(Entries)
  <2>1. Sound(now) \subseteq Entries
    BY DEF Sound
  <2>2. \A i \in 1 .. Len(data') : data'[i] \in Entries
    BY <1>2, <2>1
  <2> QED
    BY <1>2, <2>2, SeqOf
<1>4. Apart(data) => Apart(data')
  <2>1. \A j \in 1 .. Len(data) : Lower(data'[j]) = Lower(data[j]) /\ Upper(data'[j]) = Upper(data[j])
    BY <1>2 DEF Lower, Upper
  <2> QED
    BY <1>2, <1>3, <2>1, InvTypes, SameBounds
<1> QED
  BY <1>1, <1>2, <1>4 DEF Inv, TimeOK

LEMMA InvTick ==
  ASSUME Inv, Tick
  PROVE  Inv'
<1>1. /\ now < MaxNow /\ now' = now + 1 /\ closed' = closed /\ pending' = pending /\ next' = next
      /\ firstHit' = firstHit /\ curr' = curr
      /\ data' = [i \in DOMAIN data |-> [data[i] EXCEPT !.age = Min2(@ + 1, StaleAfter)]]
  BY DEF Tick
<1>2. TimeOK' /\ next' \in 0 .. now' /\ now' \in Nat /\ now <= now'
  BY <1>1, InvTypes DEF TimeOK
<1>3. CurrOK'
  BY <1>1 DEF Inv, CurrOK
<1> DEFINE Aged(e) == [e EXCEPT !.age = Min2(@ + 1, StaleAfter)]
<1>4. ASSUME NEW e \in Sound(now')
      PROVE  Aged(e) \in Sound(now') /\ Aged(e).series = e.series
  <2>1. e \in [series : Series, age : 0 .. StaleAfter] /\ e.series.samples # <<>>
        /\ e.series.end <= now' /\ Close(e.series, now')
    BY DEF Sound, Entries
  <2> DEFINE a == Min2(e.age + 1, StaleAfter)
  <2>2. a \in 0 .. StaleAfter
    BY <2>1, CacheAssumption DEF Min2
  <2>3. Aged(e) = [e EXCEPT !.age = a]
    BY <2>1
  <2> HIDE DEF a, Aged
  <2>4. Aged(e) \in [series : Series, age : 0 .. StaleAfter] /\ Aged(e).series = e.series
    BY <2>1, <2>2, <2>3
  <2> QED
    BY <2>1, <2>4 DEF Sound, Entries
<1>5. DOMAIN data = 1 .. Len(data) /\ \A i \in 1 .. Len(data) : data[i] \in Sound(now')
  BY <1>2, InvTypes, SoundLater
<1>6. /\ data' \in Seq(Sound(now')) /\ Len(data') = Len(data)
      /\ \A i \in 1 .. Len(data) : data'[i].series = data[i].series
  <2>1. data' = [i \in 1 .. Len(data) |-> Aged(data[i])]
    BY <1>1, <1>5
  <2>2. \A i \in 1 .. Len(data) : Aged(data[i]) \in Sound(now') /\ Aged(data[i]).series = data[i].series
    BY <1>4, <1>5
  <2> HIDE DEF Aged
  <2>3. data' \in [1 .. Len(data) -> Sound(now')] /\ Len(data) \in Nat
    BY <2>1, <2>2, InvTypes
  <2>4. data' \in Seq(Sound(now')) /\ Len(data') = Len(data)
    BY <2>3
  <2> QED
    BY <2>1, <2>2, <2>4
<1>7. Apart(data) => Apart(data')
  <2>1. \A j \in 1 .. Len(data) : Lower(data'[j]) = Lower(data[j]) /\ Upper(data'[j]) = Upper(data[j])
    BY <1>6 DEF Lower, Upper
  <2>2. data' \in Seq(Entries)
    <3>1. Sound(now') \subseteq Entries
      BY DEF Sound
    <3>2. \A i \in 1 .. Len(data') : data'[i] \in Entries
      BY <1>6, <3>1
    <3> QED
      BY <1>6, <3>2, SeqOf
  <2> QED
    BY <1>6, <2>1, <2>2, InvTypes, SameBounds
<1> QED
  BY <1>1, <1>2, <1>3, <1>6, <1>7 DEF Inv

LEMMA InvRead ==
  ASSUME Inv, NEW tr \in ReadRanges, read(tr)
  PROVE  Inv'
<1>1. /\ now' = now /\ closed' = closed /\ next' = next /\ firstHit' = firstHit /\ curr' = curr
      /\ data' = data /\ pending' = pending \cup dirtyReadGaps(tr)
  BY DEF read
<1> DEFINE hits == dirtyReadHits(tr)
<1>2. tr \in TimeRanges
  BY CacheAssumption
<1>3. tr.start \in 0 .. MaxNow /\ tr.end \in 0 .. MaxNow
  BY <1>2 DEF TimeRanges
<1>4. ASSUME NEW i \in hits
      PROVE  data[i].series.start \in 0 .. MaxNow /\ data[i].series.end \in 0 .. MaxNow
  <2>1. i \in 1 .. Len(data)
    BY InvTypes DEF dirtyReadHits
  <2>2. data[i] \in Entries /\ data[i].series.end <= now
    BY <2>1, InvTypes DEF Sound
  <2>3. data[i].series.start \in 0 .. MaxNow /\ data[i].series.end \in 0 .. MaxNow + 1
    BY <2>2, EntryType
  <2> QED
    BY <2>2, <2>3, InvTypes
<1>5. ASSUME NEW g \in dirtyReadGaps(tr) PROVE g \in TimeRanges
  <2>1. CASE hits = {}
    BY <2>1, <1>2, <1>5 DEF dirtyReadGaps
  <2>2. CASE hits # {}
    <3>1. g \in InnerGaps(hits) \cup LeadingGap(hits, tr) \cup TrailingGap(hits, tr) /\ g.start < g.end
      BY <2>2, <1>5 DEF dirtyReadGaps
    <3> HIDE DEF hits
    <3>2. \E s, t \in 0 .. MaxNow : g = [start |-> s, end |-> t]
      <4>1. CASE g \in InnerGaps(hits)
        <5>1. PICK q \in hits \X hits : g = GapBetween(data[q[1]].series.end, data[q[2]].series.start)
          BY <4>1 DEF InnerGaps
        <5>2. q[1] \in hits /\ q[2] \in hits
          BY <5>1
        <5> QED
          BY <5>1, <5>2, <1>4 DEF GapBetween
      <4>2. CASE g \in LeadingGap(hits, tr)
        BY <4>2, <1>3, <1>4 DEF LeadingGap, GapBetween
      <4>3. CASE g \in TrailingGap(hits, tr)
        BY <4>3, <1>3, <1>4 DEF TrailingGap, GapBetween
      <4> QED
        BY <3>1, <4>1, <4>2, <4>3
    <3> QED
      BY <3>1, <3>2 DEF TimeRanges
  <2> QED
    BY <2>1, <2>2
<1> QED
  BY <1>1, <1>5 DEF Inv, TimeOK, CurrOK

LEMMA InvInit ==
  ASSUME Init
  PROVE  Inv
<1>1. MaxNow \in Nat /\ 0 \in 0 .. MaxNow /\ 0 \in 0 .. 0
  BY CacheAssumption
<1>2. data \in Seq(Sound(now)) /\ Len(data) = 0 /\ Apart(data)
  BY DEF Init, Apart
<1> QED
  BY <1>1, <1>2 DEF Init, Inv, TimeOK, CurrOK

LEMMA InvNext ==
  ASSUME Inv, [Next]_vars
  PROVE  Inv'
<1>1. ASSUME NEW skip \in Skips, NEW n \in 1 .. MaxNow, NEW cap \in Caps,
             writeDynamic(skip, n, cap)
      PROVE  Inv'
  BY <1>1, InvWriteDynamic
<1>2. ASSUME NEW tr \in ReadRanges, read(tr) PROVE Inv'
  BY <1>2, InvRead
<1>3. ASSUME NEW tr \in pending, writeStatic(tr) PROVE Inv'
  BY <1>3, InvWriteStatic
<1>4. CASE gc
  BY <1>4, InvGc
<1>5. CASE close
  BY <1>5, InvClose
<1>6. CASE acquire
  <2>1. Rehold(TRUE)
    BY <1>6 DEF acquire, Rehold
  <2> QED
    BY <2>1, InvRehold
<1>7. CASE release
  <2>1. Rehold(FALSE)
    BY <1>7 DEF release, Rehold
  <2> QED
    BY <2>1, InvRehold
<1>8. CASE Tick
  BY <1>8, InvTick
<1>9. CASE UNCHANGED vars
  BY <1>9 DEF vars, Inv, TimeOK, CurrOK
<1> QED
  BY <1>1, <1>2, <1>3, <1>4, <1>5, <1>6, <1>7, <1>8, <1>9 DEF Next

LEMMA Invariance == Spec => []Inv
<1>1. Init => Inv
  BY InvInit
<1>2. Inv /\ [Next]_vars => Inv'
  BY InvNext
<1> QED
  BY <1>1, <1>2, PTL DEF Spec

-----------------------------------------------------------------------------
(* The invariants of the runs.                                             *)

LEMMA SamplesInRange ==
  ASSUME NEW s, s.alignment \in Nat, s.samples \in Seq(Nat), s.samples # <<>>,
         NEW m \in Nat, m <= MaxNow, Close(s, m)
  PROVE  s.alignment \in 0 .. MaxNow /\ s.samples \in Seq(0 .. MaxNow)
<1>1. MaxNow \in Nat
  BY CacheAssumption
<1>2. \A k \in 1 .. Len(s.samples) : s.samples[k] \in 0 .. MaxNow
  <2> SUFFICES ASSUME NEW k \in 1 .. Len(s.samples) PROVE s.samples[k] \in 0 .. MaxNow
    OBVIOUS
  <2>1. s.samples[k] \in Nat /\ s.samples[k] < m
    BY DEF Close
  <2> QED
    BY <2>1, <1>1
<1>3. s.alignment \in 0 .. MaxNow
  <2>1. 1 \in 1 .. Len(s.samples)
    OBVIOUS
  <2>2. s.samples[1] - (s.alignment + 1 - 1) \in {0, 1} /\ s.samples[1] < m /\ s.samples[1] \in Nat
    BY <2>1 DEF Close
  <2> QED
    BY <2>2, <1>1
<1> QED
  BY <1>2, <1>3, SeqOf

LEMMA InvTypeOK ==
  ASSUME Inv
  PROVE  TypeOK
<1>1. curr = None \/ (curr \in BufferType /\ Len(curr.samples) \in 1 .. curr.cap)
  <2> SUFFICES ASSUME curr # None PROVE curr \in BufferType /\ Len(curr.samples) \in 1 .. curr.cap
    OBVIOUS
  <2>1. curr \in Buffers /\ Len(curr.samples) \in 1 .. curr.cap /\ Close(curr, next)
    BY DEF Inv, CurrOK
  <2>2. curr.alignment \in Nat /\ curr.samples \in Seq(Nat)
    BY <2>1 DEF Buffers
  <2>3. curr.samples # <<>>
    BY <2>1, <2>2
  <2>4. next \in Nat /\ next <= MaxNow
    BY InvTypes
  <2>5. curr.alignment \in 0 .. MaxNow /\ curr.samples \in Seq(0 .. MaxNow)
    BY <2>1, <2>2, <2>3, <2>4, SamplesInRange
  <2> QED
    BY <2>1, <2>5 DEF Buffers, BufferType
<1>2. ASSUME NEW i \in DOMAIN data
      PROVE  /\ data[i].series \in SeriesType /\ data[i].series.end <= now
             /\ data[i].series.samples # <<>> /\ data[i].age \in 0 .. StaleAfter
  <2> DEFINE s == data[i].series
  <2>1. data[i] \in Sound(now) /\ data[i] \in Entries /\ now \in Nat /\ now <= MaxNow
    BY InvTypes
  <2>2. s.end <= now /\ Close(s, now)
    BY <2>1 DEF Sound
  <2>3. /\ s \in Series /\ s.samples # <<>> /\ data[i].age \in 0 .. StaleAfter
        /\ s.alignment \in Nat /\ s.samples \in Seq(Nat)
    BY <2>1, EntryType
  <2> HIDE DEF s
  <2>4. s.alignment \in 0 .. MaxNow /\ s.samples \in Seq(0 .. MaxNow)
    BY <2>1, <2>2, <2>3, SamplesInRange
  <2>5. s \in SeriesType
    BY <2>3, <2>4 DEF Series, SeriesType
  <2> QED
    BY <2>2, <2>3, <2>5 DEF s
<1> QED
  BY <1>1, <1>2 DEF TypeOK, Inv, TimeOK

LEMMA ApartIntegrity ==
  ASSUME NEW d \in Seq(Entries), Apart(d)
  PROVE  ~IntegrityFails(d)
<1> DEFINE b == BoundsOf(d)
<1>1. DOMAIN d = 1 .. Len(d) /\ Len(d) \in Nat
  OBVIOUS
<1>2. \A i \in 1 .. Len(d) : /\ b[i].lower \in Nat /\ b[i].upper \in Nat /\ b[i].lower < b[i].upper
                             /\ b[i].lower = Lower(d[i]) /\ b[i].upper = Upper(d[i])
  BY BoundsFacts, EntryFacts
<1> HIDE DEF b
<1>3. ASSUME NEW i \in 1 .. Len(d), NEW j \in 1 .. Len(d), i < j
      PROVE  ~overlapsWith(b[i], b[j]) /\ ~overlapsWith(b[j], b[i])
  <2>1. b[i].upper <= b[j].lower
    BY <1>2, <1>3 DEF Apart
  <2> QED
    BY <1>2, <2>1 DEF overlapsWith, contains
<1>4. ASSUME NEW i \in 1 .. Len(d), NEW j \in 1 .. Len(d), i # j PROVE ~overlapsWith(b[i], b[j])
  <2>1. i < j \/ j < i
    BY <1>4
  <2> QED
    BY <2>1, <1>3
<1> QED
  BY <1>1, <1>4 DEF IntegrityFails, b

(* Static.data is ordered and free of overlaps in every state that no write*)
(* inside the first entry comes before, and all state has its type: what   *)
(* checkIntegrity demands after every write of static.ts, for any number   *)
(* of samples, lost frames, buffer sizes and reads.                        *)
THEOREM StaticOrderedHolds == Spec => []StaticOrdered
<1>1. Inv => StaticOrdered
  <2> SUFFICES ASSUME Inv PROVE StaticOrdered
    OBVIOUS
  <2>1. TypeOK
    BY InvTypeOK
  <2>2. ASSUME ~firstHit PROVE ~IntegrityFails(data)
    BY <2>2, InvTypes, ApartIntegrity DEF Inv
  <2>3. ASSUME ~firstHit, NEW i \in DOMAIN data, NEW j \in DOMAIN data, i < j
        PROVE  alignmentBounds(data[i].series).upper <= data[j].series.alignment
    <3>1. i \in 1 .. Len(data) /\ j \in 1 .. Len(data) /\ Apart(data)
      BY <2>3, InvTypes DEF Inv
    <3>2. Upper(data[i]) <= Lower(data[j])
      BY <2>3, <3>1 DEF Apart
    <3> QED
      BY <3>2 DEF Upper, Lower, alignmentBounds
  <2> QED
    BY <2>1, <2>2, <2>3 DEF StaticOrdered
<1> QED
  BY <1>1, Invariance, PTL

(* Every sample in the buffer and in the cached series is at its alignment *)
(* or one behind it, however many frames of Dynamic._write lose a sample.  *)
THEOREM OffByAtMostOneHolds == Spec => []OffByAtMostOne
<1>1. Inv => OffByAtMostOne
  <2> SUFFICES ASSUME Inv, NEW s \in {data[i].series : i \in DOMAIN data} \cup ({curr} \ {None}),
                      NEW k \in DOMAIN s.samples
               PROVE  s.samples[k] - (s.alignment + k - 1) \in {0, 1}
    BY DEF OffByAtMostOne
  <2>1. CASE s \in {data[i].series : i \in DOMAIN data}
    <3>1. PICK i \in DOMAIN data : s = data[i].series
      BY <2>1
    <3>2. data[i] \in Entries /\ data[i] \in Sound(now)
      BY <3>1, InvTypes
    <3>3. s.samples \in Seq(Nat) /\ Close(s, now)
      BY <3>1, <3>2, EntryType DEF Sound
    <3>4. k \in 1 .. Len(s.samples)
      BY <3>3
    <3> QED
      BY <3>3, <3>4 DEF Close
  <2>2. CASE s \in {curr} \ {None}
    <3>1. s \in Buffers /\ Close(s, next)
      BY <2>2 DEF Inv, CurrOK
    <3>2. s.samples \in Seq(Nat)
      BY <3>1 DEF Buffers
    <3>3. k \in 1 .. Len(s.samples)
      BY <3>2
    <3> QED
      BY <3>1, <3>3 DEF Close
  <2> QED
    BY <2>1, <2>2
<1> QED
  BY <1>1, Invariance, PTL

LEMMA Greatest ==
  ASSUME NEW n \in Nat, NEW T, T \subseteq 1 .. n, T # {}
  PROVE  \E m \in T : \A k \in T : k <= m
<1> DEFINE B == {m \in 0 .. n : \A k \in T : k <= m}
<1>1. n \in B /\ B \subseteq Nat
  OBVIOUS
<1>2. PICK m \in B : \A b \in B : m <= b
  <2> HIDE DEF B
  <2> QED
    BY <1>1, Least
<1>3. m \in T
  <2> SUFFICES ASSUME m \notin T PROVE FALSE
    OBVIOUS
  <2>1. \A k \in T : k <= m - 1
    BY <1>2
  <2>3. PICK j \in T : TRUE
    OBVIOUS
  <2>4. j \in Nat /\ j >= 1 /\ j <= m - 1 /\ m \in 0 .. n
    BY <2>1, <2>3, <1>2
  <2>5. m - 1 \in 0 .. n
    BY <2>4
  <2>2. m - 1 \in B
    BY <2>1, <2>5
  <2> QED
    BY <2>2, <1>2
<1> QED
  BY <1>2, <1>3

(* The first hit that ends after t leaves t in the gap before it, and when *)
(* there is none t is in the gap after the last hit.                       *)
LEMMA GapsFound ==
  ASSUME Inv, NEW tr \in TimeRanges, NEW t \in tr.start .. tr.end - 1,
         ~ \E i \in DOMAIN data : data[i].series.start <= t /\ t < data[i].series.end
  PROVE  \E g \in dirtyReadGaps(tr) : g.start <= t /\ t < g.end
<1> DEFINE hits == dirtyReadHits(tr)
           n == Len(data)
           S(i) == data[i].series.start
           E(i) == data[i].series.end
<1>1. tr.start \in Nat /\ tr.end \in Nat /\ t \in Nat /\ tr.start <= t /\ t < tr.end /\ n \in Nat
  BY CacheAssumption, InvTypes DEF TimeRanges
<1>2. hits \subseteq 1 .. n /\ DOMAIN data = 1 .. n
  BY InvTypes DEF dirtyReadHits
<1>3. ASSUME NEW i \in 1 .. n PROVE S(i) \in Nat /\ E(i) \in Nat /\ (t < S(i) \/ E(i) <= t)
  <2>1. data[i] \in Entries
    BY InvTypes
  <2>2. S(i) \in Nat /\ E(i) \in Nat
    BY <2>1, EntryType, CacheAssumption
  <2> QED
    BY <2>2, <1>1, <1>2
<1>4. CASE hits = {}
  <2>1. tr \in dirtyReadGaps(tr)
    BY <1>4 DEF dirtyReadGaps
  <2> QED
    BY <2>1, <1>1
<1>5. CASE hits # {}
  <2> DEFINE all == InnerGaps(hits) \cup LeadingGap(hits, tr) \cup TrailingGap(hits, tr)
  <2>1. dirtyReadGaps(tr) = {g \in all : g.start < g.end}
    BY <1>5 DEF dirtyReadGaps
  <2> HIDE DEF hits
  <2>2. SUFFICES ASSUME NEW s \in Nat, NEW e \in Nat, s <= t, t < e
                 PROVE  GapBetween(s, e) \in all => GapBetween(s, e) \in dirtyReadGaps(tr)
                        /\ GapBetween(s, e).start <= t /\ t < GapBetween(s, e).end
    <3> DEFINE F == {i \in hits : t < E(i)}
    <3>1. ASSUME NEW s \in Nat, NEW e \in Nat, s <= t, t < e, GapBetween(s, e) \in all
          PROVE  \E g \in dirtyReadGaps(tr) : g.start <= t /\ t < g.end
      BY <2>2, <3>1
    <3> HIDE DEF all
    <3>2. CASE F = {}
      <4>1. PICK m \in hits : \A k \in hits : k <= m
        BY <1>1, <1>2, <1>5, Greatest
      <4>2. E(m) \in Nat /\ E(m) <= t
        BY <3>2, <4>1, <1>1, <1>2, <1>3
      <4>3. GapBetween(E(m), tr.end) \in TrailingGap(hits, tr)
        BY <4>1 DEF TrailingGap
      <4> QED
        BY <4>2, <4>3, <3>1, <1>1 DEF all
    <3>3. CASE F # {}
      <4>1. PICK i \in F : \A k \in F : i <= k
        <5>2. F \subseteq hits
          OBVIOUS
        <5>1. F \subseteq Nat
          <6> HIDE DEF F
          <6> QED
            BY <5>2, <1>2
        <5> HIDE DEF F
        <5> QED
          BY <5>1, <3>3, Least
      <4>2. i \in hits /\ i \in 1 .. n /\ t < E(i)
        BY <4>1, <1>2
      <4>3. S(i) \in Nat /\ t < S(i)
        BY <4>2, <1>1, <1>3
      <4> DEFINE P == {k \in hits : k < i}
      <4>4. CASE P = {}
        <5>1. \A k \in hits : i <= k
          BY <4>2, <4>4, <1>2
        <5>2. GapBetween(tr.start, S(i)) \in LeadingGap(hits, tr)
          BY <4>2, <5>1 DEF LeadingGap
        <5> QED
          BY <4>3, <5>2, <3>1, <1>1 DEF all
      <4>5. CASE P # {}
        <5>1. PICK h \in P : \A k \in P : k <= h
          <6>1. P \subseteq 1 .. n
            BY <1>2
          <6> HIDE DEF P
          <6> QED
            BY <6>1, <4>5, <1>1, Greatest
        <5>2. h \in hits /\ h < i /\ h \in 1 .. n /\ h \notin F
          BY <5>1, <4>1, <4>2, <1>2
        <5>3. E(h) \in Nat /\ E(h) <= t
          BY <5>2, <1>1, <1>3
        <5>4. \A k \in hits : k <= h \/ i <= k
          BY <5>1, <4>2, <1>2
        <5>5. GapBetween(E(h), S(i)) \in InnerGaps(hits)
          <6> DEFINE q == <<h, i>>
          <6>1. q \in hits \X hits /\ q[1] = h /\ q[2] = i
            BY <4>2, <5>2
          <6> HIDE DEF q
          <6>2. q[1] < q[2] /\ \A k \in hits : k <= q[1] \/ q[2] <= k
            BY <6>1, <5>2, <5>4
          <6>3. GapBetween(data[q[1]].series.end, data[q[2]].series.start) \in InnerGaps(hits)
            BY <6>1, <6>2 DEF InnerGaps
          <6> QED
            BY <6>1, <6>3
        <5> QED
          BY <4>3, <5>3, <5>5, <3>1 DEF all
      <4> QED
        BY <4>4, <4>5
    <3> QED
      BY <3>2, <3>3
  <2>3. GapBetween(s, e).start = s /\ GapBetween(s, e).end = e
    BY DEF GapBetween
  <2> HIDE DEF all
  <2> QED
    BY <2>1, <2>2, <2>3, <1>1
<1> QED
  BY <1>4, <1>5

(* dirtyRead reports all that is missing: every moment of a range that is  *)
(* in no cached series is in a gap, though the time ranges of the entries, *)
(* which are ordered by alignment, may nest or cross.                      *)
THEOREM GapsCoverMissingHolds == Spec => []GapsCoverMissing
<1>1. Inv => GapsCoverMissing
  BY GapsFound DEF GapsCoverMissing
<1> QED
  BY <1>1, Invariance, PTL

-----------------------------------------------------------------------------
(* The action properties of the runs.                                      *)

LEMMA CoveredFacts ==
  ASSUME NEW c, NEW d \in Seq(Entries), NEW p \in Nat,
         NEW all, all = UNION {CoveredBy(s) : s \in {d[i].series : i \in DOMAIN d} \cup ({c} \ {None})}
  PROVE  /\ Covers(d, p) => p \in all
         /\ c # None /\ p \in CoveredBy(c) => p \in all
<1>1. ASSUME Covers(d, p) PROVE p \in all
  <2>1. PICK k \in 1 .. Len(d) : In(p, d[k])
    BY <1>1 DEF Covers
  <2>2. d[k] \in Entries
    OBVIOUS
  <2>3. d[k].series.alignment \in Nat /\ Len(d[k].series.samples) \in Nat
    BY <2>2, EntryType
  <2>4. p \in CoveredBy(d[k].series)
    BY <2>1, <2>3 DEF In, Lower, Upper, CoveredBy
  <2> QED
    BY <2>4
<1> QED
  BY <1>1

(* A fetch fills its gap: each sample of it that exists when the answer of *)
(* readRemote arrives is in the cache after writeStatic, whatever the      *)
(* entries were by then, overlapping ones included.                        *)
THEOREM FetchFillsHolds == Spec => FetchFills
<1>1. ASSUME Inv, Inv', [Next]_vars, ~closed, NEW tr \in pending \ pending',
             NEW p \in tr.start .. Min2(tr.end, now) - 1
      PROVE  p \in Covered'
  <2>1. writeStatic(tr)
    <3>1. ~UNCHANGED vars
      BY <1>1 DEF vars
    <3>2. ASSUME NEW o \in pending, writeStatic(o) PROVE o = tr
      BY <3>2, <1>1 DEF writeStatic
    <3> QED
      BY <1>1, <3>1, <3>2 DEF Next, writeDynamic, read, gc, close, acquire, release, Tick
  <2>2. data' = staticWrite(data, readRemote(tr))
    BY <2>1, <1>1 DEF writeStatic
  <2>3. tr \in TimeRanges /\ TimeOK /\ data \in Seq(Entries)
    BY <1>1, InvTypes DEF Inv
  <2>4. Covers(data', p)
    BY <2>2, <2>3, RemoteLands
  <2>5. data' \in Seq(Entries)
    <3>1. data' \in Seq(Sound(now')) /\ Sound(now') \subseteq Entries
      BY <1>1 DEF Inv, Sound
    <3>2. \A i \in 1 .. Len(data') : data'[i] \in Entries
      BY <3>1
    <3> QED
      BY <3>1, <3>2, SeqOf
  <2>6. p \in Nat
    <3>1. tr.start \in Nat
      BY <2>3, CacheAssumption DEF TimeRanges
    <3>2. tr.end \in Nat /\ now \in Nat
      BY <2>3, CacheAssumption DEF TimeRanges, TimeOK
    <3> QED
      BY <3>1, <3>2 DEF Min2
  <2>7. Covered' = UNION {CoveredBy(s) : s \in {data'[i].series : i \in DOMAIN data'} \cup ({curr'} \ {None})}
    BY DEF Covered, CoveredBy, None
  <2> QED
    BY <2>4, <2>5, <2>6, <2>7, CoveredFacts
<1>2. Inv /\ Inv' /\ [Next]_vars =>
        [~closed => \A tr \in pending \ pending' :
            tr.start .. Min2(tr.end, now) - 1 \subseteq Covered']_vars
  BY <1>1
<1> QED
  BY <1>2, Invariance, PTL DEF Spec, FetchFills

(* p is in the cache after a step.                                          *)
Stays(p) == Covers(data', p) \/ (curr' # None /\ p \in CoveredBy(curr'))

KeepsAll ==
  /\ curr # None => \A p \in CoveredBy(curr) : Stays(p)
  /\ ~firstHit' =>
       \A i \in 1 .. Len(data) : shouldKeep(data[i]) => \A p \in CoveredBy(data[i].series) : Stays(p)

LEMMA CoveredIn ==
  ASSUME NEW e \in Entries, NEW p
  PROVE  p \in CoveredBy(e.series) <=> p \in Nat /\ In(p, e)
<1>1. e.series.alignment \in Nat /\ Len(e.series.samples) \in Nat
  BY EntryType
<1> DEFINE a == e.series.alignment
           n == Len(e.series.samples)
<1>2. p \in a .. a + n - 1 <=> p \in Nat /\ a <= p /\ p < a + n
  <2> HIDE DEF a, n
  <2> QED
    BY <1>1 DEF a, n
<1> QED
  BY <1>2 DEF In, Lower, Upper, CoveredBy

LEMMA CoveredCovers ==
  ASSUME Inv, NEW i \in 1 .. Len(data), NEW p \in CoveredBy(data[i].series)
  PROVE  p \in Nat /\ Covers(data, p)
<1>1. data[i] \in Entries
  BY InvTypes
<1> QED
  BY <1>1, CoveredIn DEF Covers

LEMMA KeepWriteDynamic ==
  ASSUME Inv, NEW skip \in Skips, NEW n \in 1 .. MaxNow, NEW cap \in Caps,
         writeDynamic(skip, n, cap), ~closed'
  PROVE  KeepsAll
<1>1. ~closed
  BY DEF writeDynamic
<1>2. PICK res :
       /\ curr' = res.buf /\ data' = staticWrite(data, res.flushed)
       /\ firstHit' = (firstHit \/ WriteHitsFirst(data, res.flushed))
       /\ res.buf \in Buffers
       /\ Writable(res.flushed, now) /\ InOrder(res.flushed)
       /\ curr # None => \A p \in CoveredBy(curr) : Holds(res, p)
  BY <1>1, FrameFacts
<1>3. \A i \in 1 .. Len(res.flushed) : \A p \in CoveredBy(res.flushed[i]) : Covers(data', p)
  <2> DEFINE ss == res.flushed
  <2>1. ss \in Seq(Series) /\ (\A i \in 1 .. Len(ss) : ss[i].samples # <<>>) /\ InOrder(ss)
    BY <1>2 DEF Writable
  <2>2. data' = staticWrite(data, ss) /\ data \in Seq(Entries)
    BY <1>2, InvTypes
  <2> HIDE DEF ss
  <2>3. \A i \in 1 .. Len(ss) : \A p \in CoveredBy(ss[i]) : Covers(data', p)
    BY <2>1, <2>2, WritesLand
  <2> QED
    BY <2>3 DEF ss
<1>4. curr' # None
  BY <1>2, NotNone
<1>5. ASSUME curr # None, NEW p \in CoveredBy(curr) PROVE Stays(p)
  BY <1>2, <1>3, <1>4, <1>5 DEF Holds, Stays
<1>6. ASSUME ~firstHit', NEW i \in 1 .. Len(data), NEW p \in CoveredBy(data[i].series) PROVE Stays(p)
  <2>1. \A q \in Nat : Covers(data, q) => Covers(data', q)
    BY <1>2, <1>6, InvTypes, StaticApart DEF Inv
  <2> QED
    BY <2>1, CoveredCovers DEF Stays
<1> QED
  BY <1>5, <1>6 DEF KeepsAll

LEMMA KeepWriteStatic ==
  ASSUME Inv, NEW tr \in pending, writeStatic(tr), ~closed'
  PROVE  KeepsAll
<1> DEFINE ss == readRemote(tr)
<1>1. ~closed /\ curr' = curr
  BY DEF writeStatic
<1>2. data' = staticWrite(data, ss) /\ firstHit' = (firstHit \/ WriteHitsFirst(data, ss))
  BY <1>1 DEF writeStatic
<1>3. Writable(ss, now)
  BY RemoteSound DEF Inv
<1> HIDE DEF ss
<1>5. ASSUME ~firstHit', NEW i \in 1 .. Len(data), NEW p \in CoveredBy(data[i].series) PROVE Stays(p)
  <2>1. \A q \in Nat : Covers(data, q) => Covers(data', q)
    BY <1>2, <1>3, <1>5, InvTypes, StaticApart DEF Inv
  <2> QED
    BY <2>1, CoveredCovers DEF Stays
<1> QED
  BY <1>1, <1>5 DEF KeepsAll, Stays

LEMMA KeepGc ==
  ASSUME Inv, gc
  PROVE  KeepsAll
<1>1. curr' = curr /\ data' = Kept(data)[Len(data)]
  BY DEF gc
<1>2. \A j \in 1 .. Len(data) : shouldKeep(data[j]) => \E k \in 1 .. Len(data') : data'[k] = data[j]
  <2> DEFINE G == Sound(now)
  <2>1. G \subseteq Entries /\ data \in Seq(G)
    BY InvTypes DEF Sound
  <2> HIDE DEF G
  <2> QED
    BY <1>1, <2>1, KeptFacts
<1>3. ASSUME NEW i \in 1 .. Len(data), shouldKeep(data[i]), NEW p \in CoveredBy(data[i].series)
      PROVE  Stays(p)
  <2>1. PICK k \in 1 .. Len(data') : data'[k] = data[i]
    BY <1>2, <1>3
  <2>2. In(p, data[i])
    BY InvTypes, CoveredIn
  <2> QED
    BY <2>1, <2>2 DEF Stays, Covers
<1> QED
  BY <1>1, <1>3 DEF KeepsAll, Stays

(* A step that leaves every series its samples and its place.               *)
LEMMA KeepSame ==
  ASSUME Inv, Inv', Len(data') = Len(data),
         \A j \in 1 .. Len(data) : /\ data'[j].series.alignment = data[j].series.alignment
                                   /\ data'[j].series.samples = data[j].series.samples,
         curr # None => /\ curr' # None /\ curr'.alignment = curr.alignment
                        /\ curr'.samples = curr.samples
  PROVE  KeepsAll
<1>1. ASSUME NEW i \in 1 .. Len(data), NEW p \in CoveredBy(data[i].series) PROVE Stays(p)
  <2>1. data[i] \in Entries
    BY InvTypes
  <2>2. In(p, data'[i])
    BY <2>1, CoveredIn DEF In, Lower, Upper
  <2> QED
    BY <2>2 DEF Stays, Covers
<1>2. curr # None => \A p \in CoveredBy(curr) : Stays(p)
  BY DEF Stays, CoveredBy
<1> QED
  BY <1>1, <1>2 DEF KeepsAll

LEMMA KeepNext ==
  ASSUME Inv, Inv', [Next]_vars, ~closed'
  PROVE  KeepsAll
<1>1. ASSUME NEW skip \in Skips, NEW n \in 1 .. MaxNow, NEW cap \in Caps,
             writeDynamic(skip, n, cap)
      PROVE  KeepsAll
  BY <1>1, KeepWriteDynamic
<1>2. ASSUME NEW tr \in ReadRanges, read(tr) PROVE KeepsAll
  <2>1. curr' = curr /\ data' = data
    BY <1>2 DEF read
  <2> QED
    BY <2>1, KeepSame
<1>3. ASSUME NEW tr \in pending, writeStatic(tr) PROVE KeepsAll
  BY <1>3, KeepWriteStatic
<1>4. CASE gc
  BY <1>4, KeepGc
<1>5. CASE close
  BY <1>5 DEF close
<1>6. CASE acquire \/ release
  <2>1. \E h \in BOOLEAN : Rehold(h)
    BY <1>6 DEF acquire, release, Rehold
  <2>2. PICK h \in BOOLEAN : Rehold(h)
    BY <2>1
  <2> QED
    BY <2>2, ReholdFacts, KeepSame
<1>7. CASE Tick
  <2>1. /\ curr' = curr
        /\ data' = [i \in DOMAIN data |-> [data[i] EXCEPT !.age = Min2(@ + 1, StaleAfter)]]
    BY <1>7 DEF Tick
  <2>2. DOMAIN data = 1 .. Len(data) /\ Len(data) \in Nat
    BY InvTypes
  <2>3. Len(data') = Len(data)
    BY <2>1, <2>2
  <2>4. ASSUME NEW j \in 1 .. Len(data) PROVE data'[j].series = data[j].series
    <3>1. data[j] \in [series : Series, age : 0 .. StaleAfter]
      BY InvTypes DEF Entries
    <3>2. data'[j] = [data[j] EXCEPT !.age = Min2(@ + 1, StaleAfter)]
      BY <2>1, <2>2
    <3> QED
      BY <3>1, <3>2
  <2> QED
    BY <2>1, <2>3, <2>4, KeepSame
<1>8. CASE UNCHANGED vars
  BY <1>8, KeepSame DEF vars
<1> QED
  BY <1>1, <1>2, <1>3, <1>4, <1>5, <1>6, <1>7, <1>8 DEF Next

(* No frame, fetch or collection takes a position out of the cache that is *)
(* in the buffer, nor, as long as no series inside the first entry has been*)
(* written, one in a series somebody holds or in one that is not stale.    *)
THEOREM KeptUntilStaleHolds == Spec => KeptUntilStale
<1>1. ASSUME Inv, Inv', [Next]_vars, ~closed'
      PROVE  /\ curr # None => CoveredBy(curr) \subseteq Covered'
             /\ \A i \in DOMAIN data :
                  ~firstHit' /\ (data[i].series.held \/ data[i].age < StaleAfter)
                      => CoveredBy(data[i].series) \subseteq Covered'
  <2>1. KeepsAll
    BY <1>1, KeepNext
  <2>2. data' \in Seq(Entries)
    <3>1. data' \in Seq(Sound(now')) /\ Sound(now') \subseteq Entries
      BY <1>1 DEF Inv, Sound
    <3>2. \A i \in 1 .. Len(data') : data'[i] \in Entries
      BY <3>1
    <3> QED
      BY <3>1, <3>2, SeqOf
  <2>3. Covered' = UNION {CoveredBy(s) : s \in {data'[i].series : i \in DOMAIN data'} \cup ({curr'} \ {None})}
    BY DEF Covered, CoveredBy, None
  <2>4. ASSUME NEW p \in Nat, Stays(p) PROVE p \in Covered'
    BY <2>2, <2>3, <2>4, CoveredFacts DEF Stays
  <2>5. ASSUME curr # None, NEW p \in CoveredBy(curr) PROVE p \in Covered'
    <3>1. curr.alignment \in Nat /\ Len(curr.samples) \in Nat
      BY <1>1, <2>5 DEF Inv, CurrOK, Buffers
    <3>2. p \in Nat
      BY <3>1 DEF CoveredBy
    <3> QED
      BY <2>1, <2>4, <2>5, <3>2 DEF KeepsAll
  <2>6. ASSUME NEW i \in DOMAIN data, ~firstHit', data[i].series.held \/ data[i].age < StaleAfter,
               NEW p \in CoveredBy(data[i].series)
        PROVE  p \in Covered'
    <3>1. i \in 1 .. Len(data)
      BY <1>1, InvTypes
    <3>2. shouldKeep(data[i])
      BY <2>6 DEF shouldKeep
    <3>3. p \in Nat
      BY <1>1, <3>1, CoveredCovers
    <3> QED
      BY <2>1, <2>4, <2>6, <3>1, <3>2, <3>3 DEF KeepsAll
  <2> QED
    BY <2>5, <2>6
<1>2. Inv /\ Inv' /\ [Next]_vars =>
        [~closed' =>
           /\ curr # None => CoveredBy(curr) \subseteq Covered'
           /\ \A i \in DOMAIN data :
                ~firstHit' /\ (data[i].series.held \/ data[i].age < StaleAfter)
                    => CoveredBy(data[i].series) \subseteq Covered']_vars
  BY <1>1
<1> QED
  BY <1>2, Invariance, PTL DEF Spec, KeptUntilStale
=============================================================================
