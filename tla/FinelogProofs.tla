--------------------------- MODULE FinelogProofs ---------------------------
(***************************************************************************)
(* The files of a Finelog namespace: whatever fails, dies or is lost, the  *)
(* deque stays in order, and a query can open every file it has taken.     *)
(***************************************************************************)
EXTENDS FinelogStore, FiniteSetTheorems, FunctionTheorems, WellFoundedInduction, TLAPS

-----------------------------------------------------------------------------
(* Least and greatest elements, and linear orders on finite sets.          *)

\* A set of integers with a lower bound has a least element.
LEMMA MinOfInts ==
  ASSUME NEW S \in SUBSET Int, S # {}, NEW b \in Int, \A x \in S : b <= x
  PROVE  Min(S) \in S /\ \A x \in S : Min(S) <= x
<1> DEFINE T == {y \in Nat : y + b \in S}
<1>1. T \subseteq Nat /\ T # {}
  <2>1. PICK x \in S : TRUE
    OBVIOUS
  <2>2. x - b \in Nat /\ (x - b) + b = x
    OBVIOUS
  <2> QED  BY <2>1, <2>2
<1>2. PICK t \in T : \A y \in T : <<y, t>> \notin OpToRel(<, Nat)
  BY <1>1, NatLessThanWellFounded, WFMin
<1>3. \A y \in T : t <= y
  <2>1. \A y \in T : ~(y < t)
    BY <1>2 DEF OpToRel
  <2> QED  BY <2>1
<1>4. ASSUME NEW x \in S
      PROVE  t + b <= x
  <2>1. x - b \in Nat /\ (x - b) + b = x
    OBVIOUS
  <2>2. t <= x - b
    BY <1>3, <2>1
  <2> QED  BY <2>2
<1>5. t + b \in S
  OBVIOUS
<1>6. \E m \in S : \A x \in S : m <= x
  BY <1>4, <1>5
<1> QED  BY <1>6 DEF Min

LEMMA MinOfNats ==
  ASSUME NEW S \in SUBSET Nat, S # {}
  PROVE  Min(S) \in S /\ \A x \in S : Min(S) <= x
<1>1. S \in SUBSET Int /\ 0 \in Int /\ \A x \in S : 0 <= x
  OBVIOUS
<1> QED  BY <1>1, MinOfInts

\* A set of integers with an upper bound has a greatest element.
LEMMA MaxOfInts ==
  ASSUME NEW S \in SUBSET Int, S # {}, NEW b \in Int, \A x \in S : x <= b
  PROVE  Max(S) \in S /\ \A x \in S : x <= Max(S)
<1> DEFINE T == {y \in Int : -y \in S}
<1>1. T \in SUBSET Int /\ T # {}
  <2>1. PICK x \in S : TRUE
    OBVIOUS
  <2>2. -x \in Int /\ -(-x) = x
    OBVIOUS
  <2> QED  BY <2>1, <2>2
<1>2. ASSUME NEW y \in T
      PROVE  -b <= y
  <2>1. -y <= b
    OBVIOUS
  <2> QED  BY <2>1
<1>3. Min(T) \in T /\ \A y \in T : Min(T) <= y
  <2> HIDE DEF T
  <2>1. -b \in Int
    OBVIOUS
  <2> QED  BY <1>1, <1>2, <2>1, MinOfInts
<1>4. ASSUME NEW x \in S
      PROVE  x <= -Min(T)
  <2>1. -x \in T
    <3>1. -x \in Int /\ -(-x) = x
      OBVIOUS
    <3> QED  BY <3>1
  <2>2. Min(T) <= -x
    BY <1>3, <2>1
  <2> QED  BY <1>3, <2>2
<1>5. \E m \in S : \A x \in S : m >= x
  <2>1. -Min(T) \in S
    BY <1>3
  <2> QED  BY <1>3, <1>4, <2>1
<1> QED  BY <1>5 DEF Max

\* Every rank from 1 to the size of a finite set is taken by exactly one of its
\* elements, and the ranks follow the order.
LEMMA RanksTaken ==
  ASSUME NEW S, IsFiniteSet(S), NEW R,
         \A m, n \in S : <<m, n>> \in R \/ <<n, m>> \in R,
         \A m, n \in S : <<m, n>> \in R /\ <<n, m>> \in R => m = n,
         \A l, m, n \in S : <<l, m>> \in R /\ <<m, n>> \in R => <<l, n>> \in R
  PROVE  \E at \in [1..Cardinality(S) -> S] :
           /\ \A i \in 1..Cardinality(S), n \in S :
                Cardinality({m \in S : <<m, n>> \in R}) = i <=> n = at[i]
           /\ \A n \in S : \E i \in 1..Cardinality(S) : at[i] = n
           /\ \A i, k \in 1..Cardinality(S) : i <= k <=> <<at[i], at[k]>> \in R
<1> DEFINE Upto(n) == {m \in S : <<m, n>> \in R}
           rank == [n \in S |-> Cardinality(Upto(n))]
           N == Cardinality(S)
<1>1. N \in Nat
  BY FS_CardinalityType
<1>2. ASSUME NEW n \in S
      PROVE  IsFiniteSet(Upto(n)) /\ Cardinality(Upto(n)) \in 1..N
  <2>1. Upto(n) \in SUBSET S /\ n \in Upto(n)
    OBVIOUS
  <2>2. IsFiniteSet(Upto(n)) /\ Cardinality(Upto(n)) <= N
    BY <2>1, FS_Subset
  <2>3. Cardinality(Upto(n)) \in Nat /\ Cardinality(Upto(n)) # 0
    BY <2>1, <2>2, FS_CardinalityType, FS_EmptySet
  <2> QED  BY <1>1, <2>2, <2>3
<1>3. ASSUME NEW m \in S, NEW n \in S, <<m, n>> \in R, m # n
      PROVE  rank[m] < rank[n]
  <2>1. Upto(m) \in SUBSET Upto(n) /\ n \in Upto(n) /\ n \notin Upto(m)
    BY <1>3
  <2>2. Cardinality(Upto(m)) <= Cardinality(Upto(n)) /\ Cardinality(Upto(m)) # Cardinality(Upto(n))
    BY <1>2, <2>1, FS_Subset
  <2> QED  BY <1>2, <2>2, SMTT(30)
<1>4. rank \in [S -> 1..N]
  BY <1>2
<1>5. ASSUME NEW m \in S, NEW n \in S, rank[m] = rank[n]
      PROVE  m = n
  <2>1. rank[m] \in Nat /\ rank[n] \in Nat
    BY <1>1, <1>4
  <2>2. m # n => rank[m] < rank[n] \/ rank[n] < rank[m]
    BY <1>3
  <2> HIDE DEF rank
  <2> QED  BY <1>5, <2>1, <2>2
<1>6. rank \in Injection(S, 1..N)
  BY <1>4, <1>5, Fun_IsInj
<1>7. IsFiniteSet(1..N) /\ Cardinality(1..N) = N
  BY <1>1, FS_Interval
<1>8. rank \in Surjection(S, 1..N)
  BY <1>6, <1>7, FS_Injection
<1>9. \A i \in 1..N : \E n \in S : rank[n] = i
  BY <1>8 DEF Surjection
<1> DEFINE at == [i \in 1..N |-> CHOOSE n \in S : rank[n] = i]
<1>10. \A i \in 1..N : at[i] \in S /\ rank[at[i]] = i
  BY <1>9
<1>11. \A i \in 1..N, n \in S : rank[n] = i <=> n = at[i]
  <2> HIDE DEF at, rank
  <2> QED  BY <1>5, <1>10
<1>12. \A n \in S : rank[n] \in 1..N /\ at[rank[n]] = n
  BY <1>4, <1>11
<1>13. ASSUME NEW i \in 1..N, NEW k \in 1..N
       PROVE  i <= k <=> <<at[i], at[k]>> \in R
  <2>1. at[i] \in S /\ at[k] \in S /\ rank[at[i]] = i /\ rank[at[k]] = k
    BY <1>10
  <2> HIDE DEF at, rank
  <2>2. CASE at[i] = at[k]
    BY <2>1, <2>2
  <2>3. CASE at[i] # at[k] /\ <<at[i], at[k]>> \in R
    <3>1. i < k
      BY <1>3, <2>1, <2>3
    <3> QED  BY <1>1, <2>3, <3>1
  <2>4. CASE at[i] # at[k] /\ <<at[i], at[k]>> \notin R
    <3>1. <<at[k], at[i]>> \in R
      BY <2>1, <2>4
    <3>2. k < i
      BY <1>3, <2>1, <2>4, <3>1
    <3> QED  BY <1>1, <2>4, <3>2
  <2> QED  BY <2>2, <2>3, <2>4
<1>14. \A n \in S : rank[n] = Cardinality({m \in S : <<m, n>> \in R})
  OBVIOUS
<1>15. at \in [1..N -> S]
  BY <1>10
<1>16. \A i \in 1..N, n \in S : Cardinality({m \in S : <<m, n>> \in R}) = i <=> n = at[i]
  BY <1>11, <1>14
<1>17. \A n \in S : \E i \in 1..N : at[i] = n
  BY <1>12
<1> HIDE DEF at, rank
<1> QED  BY <1>13, <1>15, <1>16, <1>17

-----------------------------------------------------------------------------
(* The entries of the deque. *)

Segs == [name : Names, hi : Seqs, loc : {"LOCAL", "BOTH"}]
NamesOf(q) == {q[i].name : i \in DOMAIN q}

LEMMA NameTypes ==
  ASSUME NEW n \in Names
  PROVE  /\ Level(n) \in 0..Terminal /\ Terminal \in Nat
         /\ MinSeq(n) \in Seqs /\ MinSeq(n) \in Nat /\ MinSeq(n) > 0 /\ MinSeq(n) <= MaxSeq
  BY PlannerAssumption, StoreAssumption DEF Names, Level, MinSeq, Seqs, Terminal

LEMMA EntryTypes ==
  ASSUME NEW q \in Seq(Segs), NEW k \in DOMAIN q
  PROVE  /\ q[k] \in Segs /\ q[k].name \in Names /\ q[k].hi \in Seqs
         /\ MinSeq(q[k].name) \in Seqs /\ MinSeq(q[k].name) \in Nat
<1>1. q[k] \in Segs
  OBVIOUS
<1>2. q[k].name \in Names /\ q[k].hi \in Seqs
  BY <1>1 DEF Segs
<1> QED  BY <1>1, <1>2, NameTypes

-----------------------------------------------------------------------------
(* What the operators of the model return.                                 *)

\* A picked subsequence has the elements at the given places, in their order.
LEMMA PickedElements ==
  ASSUME NEW S, NEW q \in Seq(S), NEW places \in SUBSET DOMAIN q
  PROVE  /\ Picked(q, places) \in Seq(S)
         /\ \E at \in [1..Len(Picked(q, places)) -> places] :
              /\ \A i \in 1..Len(Picked(q, places)) : Picked(q, places)[i] = q[at[i]]
              /\ \A k \in places : \E i \in 1..Len(Picked(q, places)) : at[i] = k
              /\ \A i, k \in 1..Len(Picked(q, places)) : i <= k <=> at[i] <= at[k]
<1> DEFINE R == {p \in places \X places : p[1] <= p[2]}
           N == Cardinality(places)
<1>1. places \subseteq Int /\ IsFiniteSet(places)
  <2>1. DOMAIN q = 1..Len(q) /\ Len(q) \in Nat
    OBVIOUS
  <2>2. IsFiniteSet(1..Len(q))
    BY <2>1, FS_Interval
  <2> QED  BY <2>1, <2>2, FS_Subset
<1>2. \A l, k \in places : <<l, k>> \in R <=> l <= k
  OBVIOUS
<1>3. /\ \A m, n \in places : <<m, n>> \in R \/ <<n, m>> \in R
      /\ \A m, n \in places : <<m, n>> \in R /\ <<n, m>> \in R => m = n
      /\ \A l, m, n \in places : <<l, m>> \in R /\ <<m, n>> \in R => <<l, n>> \in R
  BY <1>1, <1>2
<1>4. \A k \in places : {l \in places : <<l, k>> \in R} = {l \in places : l <= k}
  BY <1>2
<1> HIDE DEF R
<1>5. PICK at \in [1..N -> places] :
        /\ \A i \in 1..N, n \in places :
             Cardinality({m \in places : <<m, n>> \in R}) = i <=> n = at[i]
        /\ \A n \in places : \E i \in 1..N : at[i] = n
        /\ \A i, k \in 1..N : i <= k <=> <<at[i], at[k]>> \in R
  BY <1>1, <1>3, RanksTaken
<1>6. \A i \in 1..N, k \in places : Cardinality({l \in places : l <= k}) = i <=> k = at[i]
  BY <1>4, <1>5
<1> DEFINE place(i) == CHOOSE k \in places : Cardinality({l \in places : l <= k}) = i
<1>7. \A i \in 1..N : place(i) = at[i]
  BY <1>5, <1>6
<1>8. N \in Nat
  BY <1>1, FS_CardinalityType
<1>9. Picked(q, places) = [i \in 1..N |-> q[place(i)]]
  BY DEF Picked
<1> HIDE DEF place, N
<1>10. \A i \in 1..N : q[place(i)] = q[at[i]] /\ q[place(i)] \in S
  BY <1>5, <1>7
<1>11. Picked(q, places) \in Seq(S) /\ Len(Picked(q, places)) = N
  BY <1>8, <1>9, <1>10
<1>12. \A i \in 1..N : Picked(q, places)[i] = q[at[i]]
  BY <1>9, <1>10
<1> QED  BY <1>2, <1>5, <1>11, <1>12

\* The footer's max_seq of a file lies between its min_seq and the last seq.
LEMMA FooterInRange ==
  ASSUME NEW n \in Names, NEW rows \in SUBSET (MinSeq(n)..MaxSeq), rows # {}
  PROVE  FooterMax(n, rows) \in Seqs /\ MinSeq(n) <= FooterMax(n, rows)
<1>1. MinSeq(n) \in 1..MaxSeq /\ MaxSeq \in Nat
  BY StoreAssumption DEF Names, Seqs, MinSeq
<1>2. /\ IsFiniteSet(MinSeq(n)..MaxSeq)
      /\ Cardinality(MinSeq(n)..MaxSeq) = MaxSeq - MinSeq(n) + 1
  BY <1>1, FS_Interval
<1>3. IsFiniteSet(rows) /\ Cardinality(rows) <= MaxSeq - MinSeq(n) + 1
  <2> DEFINE all == MinSeq(n)..MaxSeq
  <2>1. IsFiniteSet(all) /\ rows \in SUBSET all
    BY <1>2
  <2> HIDE DEF all
  <2>2. IsFiniteSet(rows) /\ Cardinality(rows) <= Cardinality(all)
    BY <2>1, FS_Subset
  <2> QED  BY <1>2, <2>2 DEF all
<1>4. Cardinality(rows) \in Nat /\ Cardinality(rows) # 0
  BY <1>3, FS_CardinalityType, FS_EmptySet
<1> QED  BY <1>1, <1>3, <1>4, SMTT(30) DEF FooterMax, Seqs

LEMMA FirstOfNames ==
  ASSUME NEW S \in SUBSET Names, S # {}
  PROVE  First(S) \in S /\ \A m \in S : MinSeq(First(S)) <= MinSeq(m)
<1> DEFINE T == {i \in Seqs : \E n \in S : MinSeq(n) = i}
<1>1. \A n \in S : MinSeq(n) \in Seqs /\ MinSeq(n) \in T
  BY DEF Names, MinSeq
<1>2. T \in SUBSET Int /\ T # {} /\ \A i \in T : 1 <= i
  BY <1>1, StoreAssumption DEF Seqs
<1>3. Min(T) \in T /\ \A i \in T : Min(T) <= i
  <2> HIDE DEF T
  <2> QED  BY <1>2, MinOfInts
<1>4. \E n \in S : \A m \in S : MinSeq(n) <= MinSeq(m)
  BY <1>1, <1>3
<1> QED  BY <1>4 DEF First

\* A job merges a non-empty part of one level.
LEMMA PlannedFromLevel ==
  ASSUME NEW q \in Seq(Segs), NEW planned \in plan(q)
  PROVE  \E n \in 0..(Terminal - 1), run \in SUBSET DOMAIN q :
           /\ run # {} /\ \A k \in run : Level(q[k].name) = n
           /\ planned = build_job(q, run, n + 1)
<1>1. PICK d \in due_runs(q) : planned = build_job(q, take_until_target(q, d[1], d[2]), d[1] + 1)
  BY DEF plan
<1>2. PICK n \in 0..(Terminal - 1) : d \in {n} \X {r \in contiguous_runs(q, n) : Due(q, n, r)}
  BY DEF due_runs
<1> DEFINE r == d[2]
<1>3. PICK i \in AtLevel(q, n), k \in AtLevel(q, n) : i <= k /\ r = Stretch(q, n, i, k)
  BY <1>2 DEF contiguous_runs
<1>4. AtLevel(q, n) \subseteq DOMAIN q /\ \A l \in AtLevel(q, n) : Level(q[l].name) = n
  BY DEF AtLevel
<1>5. DOMAIN q = 1..Len(q) /\ Len(q) \in Nat
  OBVIOUS
<1>6. r \subseteq AtLevel(q, n) /\ i \in r
  BY <1>3, <1>4, <1>5 DEF Stretch
<1>7. Min(r) \in r /\ \A l \in r : Min(r) <= l
  <2>1. r \in SUBSET Int /\ r # {} /\ \A l \in r : 1 <= l
    BY <1>4, <1>5, <1>6
  <2> HIDE DEF r
  <2> QED  BY <2>1, MinOfInts
<1>8. {l \in r : l < Min(r)} = {}
  BY <1>4, <1>5, <1>6, <1>7
<1>9. run_bytes(q, {}) = 0
  <2>1. UNION {MinSeq(q[l].name)..q[l].hi : l \in {}} = {}
    OBVIOUS
  <2> QED  BY <2>1, FS_EmptySet DEF run_bytes
<1>10. LevelTargets[n + 1] > 0
  BY PlannerAssumption DEF Terminal
<1>11. Min(r) \in take_until_target(q, n, r) /\ take_until_target(q, n, r) \subseteq r
  BY <1>7, <1>8, <1>9, <1>10 DEF take_until_target
<1> QED  BY <1>1, <1>2, <1>4, <1>6, <1>11

\* The output has the least min_seq of the inputs, one level above them.
LEMMA PlannedJob ==
  ASSUME NEW q \in Seq(Segs), NEW planned \in plan(q)
  PROVE  /\ planned \in [inputs : SUBSET Names, out : Names, hi : Seqs]
         /\ planned.inputs \subseteq NamesOf(q)
         /\ \A m \in planned.inputs : Level(m) + 1 = Level(planned.out)
         /\ \A m \in planned.inputs : MinSeq(planned.out) <= MinSeq(m)
         /\ \E m \in planned.inputs : MinSeq(planned.out) = MinSeq(m)
<1>1. PICK n \in 0..(Terminal - 1), run \in SUBSET DOMAIN q :
        /\ run # {} /\ \A k \in run : Level(q[k].name) = n
        /\ planned = build_job(q, run, n + 1)
  BY PlannedFromLevel
<1> DEFINE mins == {MinSeq(q[k].name) : k \in run}
           his == {q[k].hi : k \in run}
<1>2. \A k \in run : q[k] \in Segs
  OBVIOUS
<1>3. \A k \in run : q[k].name \in Names /\ MinSeq(q[k].name) \in Seqs /\ q[k].hi \in Seqs
  BY <1>2 DEF Segs, Names, MinSeq
<1>4. Min(mins) \in mins /\ \A x \in mins : Min(mins) <= x
  <2>1. mins \subseteq Seqs /\ mins # {}
    BY <1>1, <1>3
  <2>2. mins \in SUBSET Int /\ \A x \in mins : 1 <= x
    BY <2>1, StoreAssumption DEF Seqs
  <2> HIDE DEF mins
  <2> QED  BY <2>1, <2>2, MinOfInts
<1>5. Max(his) \in his
  <2>1. his \subseteq Seqs /\ his # {}
    BY <1>1, <1>3
  <2>2. his \in SUBSET Int /\ MaxSeq \in Int /\ \A x \in his : x <= MaxSeq
    BY <2>1, StoreAssumption DEF Seqs
  <2> HIDE DEF his
  <2> QED  BY <2>1, <2>2, MaxOfInts
<1>6. /\ planned.inputs = {q[k].name : k \in run}
      /\ planned.out = <<n + 1, Min(mins)>> /\ planned.hi = Max(his)
      /\ planned = [inputs |-> planned.inputs, out |-> planned.out, hi |-> planned.hi]
  BY <1>1 DEF build_job
<1>7. planned.out \in Names /\ Level(planned.out) = n + 1 /\ MinSeq(planned.out) = Min(mins)
  <2>1. n + 1 \in 0..Terminal /\ Min(mins) \in Seqs
    BY <1>3, <1>4, PlannerAssumption DEF Terminal
  <2> QED  BY <1>6, <2>1 DEF Names, Level, MinSeq
<1>8. planned.hi \in Seqs
  BY <1>3, <1>5, <1>6
<1>9. planned.inputs \subseteq NamesOf(q) /\ planned.inputs \in SUBSET Names
  BY <1>3, <1>6 DEF NamesOf
<1> HIDE DEF mins, his
<1>10. planned \in [inputs : SUBSET Names, out : Names, hi : Seqs]
  BY <1>6, <1>7, <1>8, <1>9
<1>11. \A m \in planned.inputs : Level(m) = n /\ MinSeq(planned.out) <= MinSeq(m)
  BY <1>1, <1>4, <1>6, <1>7 DEF mins
<1>12. \E m \in planned.inputs : MinSeq(planned.out) = MinSeq(m)
  BY <1>4, <1>6, <1>7 DEF mins
<1> QED  BY <1>7, <1>9, <1>10, <1>11, <1>12

-----------------------------------------------------------------------------
(* What flushes, splices, evictions and boots leave of the deque. *)

\* The deque is oldest first.
Ordered(q) == \A i, k \in DOMAIN q : i <= k => MinSeq(q[i].name) <= MinSeq(q[k].name)

LEMMA PickedDeque ==
  ASSUME NEW q \in Seq(Segs), NEW places \in SUBSET DOMAIN q,
         \A i, k \in places : i <= k => MinSeq(q[i].name) <= MinSeq(q[k].name)
  PROVE  /\ Picked(q, places) \in Seq(Segs)
         /\ Ordered(Picked(q, places))
         /\ NamesOf(Picked(q, places)) = {q[k].name : k \in places}
<1> DEFINE p == Picked(q, places)
<1>1. p \in Seq(Segs)
  BY PickedElements
<1>2. PICK at \in [1..Len(p) -> places] :
        /\ \A i \in 1..Len(p) : p[i] = q[at[i]]
        /\ \A k \in places : \E i \in 1..Len(p) : at[i] = k
        /\ \A i, k \in 1..Len(p) : i <= k <=> at[i] <= at[k]
  BY PickedElements
<1> HIDE DEF p
<1>3. DOMAIN p = 1..Len(p)
  BY <1>1
<1>4. Ordered(p)
  BY <1>2, <1>3 DEF Ordered
<1>5. NamesOf(p) = {q[k].name : k \in places}
  <2>1. \A i \in 1..Len(p) : p[i].name \in {q[k].name : k \in places}
    BY <1>2
  <2>2. \A k \in places : \E i \in 1..Len(p) : p[i].name = q[k].name
    BY <1>2
  <2> QED  BY <1>3, <2>1, <2>2 DEF NamesOf
<1> QED  BY <1>1, <1>4, <1>5 DEF p

\* An evicted segment leaves, all of its entries do.
LEMMA EvictedDeque ==
  ASSUME local_segments \in Seq(Segs), Ordered(local_segments), NEW n
  PROVE  LET left == Picked(local_segments, DOMAIN local_segments \ Places({n}))
         IN  /\ left \in Seq(Segs) /\ Ordered(left)
             /\ NamesOf(left) = SegmentNames \ {n}
<1> DEFINE places == DOMAIN local_segments \ Places({n})
<1>1. /\ Picked(local_segments, places) \in Seq(Segs)
      /\ Ordered(Picked(local_segments, places))
      /\ NamesOf(Picked(local_segments, places)) = {local_segments[k].name : k \in places}
  BY PickedDeque DEF Ordered
<1>2. {local_segments[k].name : k \in places} = SegmentNames \ {n}
  BY DEF SegmentNames, Places
<1> QED  BY <1>1, <1>2

LEMMA AppendedDeque ==
  ASSUME NEW q \in Seq(Segs), Ordered(q), NEW s \in Segs,
         \A n \in NamesOf(q) : MinSeq(n) <= MinSeq(s.name)
  PROVE  /\ Append(q, s) \in Seq(Segs) /\ Ordered(Append(q, s))
         /\ NamesOf(Append(q, s)) = NamesOf(q) \cup {s.name}
<1>1. /\ Append(q, s) \in Seq(Segs) /\ DOMAIN Append(q, s) = 1..(Len(q) + 1)
      /\ Append(q, s)[Len(q) + 1] = s /\ DOMAIN q = 1..Len(q) /\ Len(q) \in Nat
      /\ \A i \in 1..Len(q) : Append(q, s)[i] = q[i]
  OBVIOUS
<1>2. \A i \in 1..Len(q) : MinSeq(q[i].name) \in Nat /\ MinSeq(q[i].name) <= MinSeq(s.name)
  BY <1>1, EntryTypes DEF NamesOf
<1>3. MinSeq(s.name) \in Nat
  BY NameTypes DEF Segs
<1>4. Ordered(Append(q, s))
  <2> SUFFICES ASSUME NEW i \in 1..(Len(q) + 1), NEW k \in 1..(Len(q) + 1), i <= k
               PROVE  MinSeq(Append(q, s)[i].name) <= MinSeq(Append(q, s)[k].name)
    BY <1>1 DEF Ordered
  <2>1. CASE k \in 1..Len(q)
    BY <1>1, <2>1 DEF Ordered
  <2>2. CASE k = Len(q) + 1 /\ i \in 1..Len(q)
    BY <1>1, <1>2, <2>2
  <2>3. CASE k = Len(q) + 1 /\ i = k
    BY <1>1, <1>3, <2>3
  <2> QED  BY <1>1, <2>1, <2>2, <2>3
<1>5. NamesOf(Append(q, s)) = NamesOf(q) \cup {s.name}
  <2>1. \A i \in 1..(Len(q) + 1) : i \in 1..Len(q) \/ i = Len(q) + 1
    BY <1>1
  <2>2. Len(q) + 1 \in 1..(Len(q) + 1) /\ 1..Len(q) \subseteq 1..(Len(q) + 1)
    BY <1>1
  <2> QED  BY <1>1, <2>1, <2>2 DEF NamesOf
<1> QED  BY <1>1, <1>4, <1>5

\* The output takes the place of the first input, whose min_seq it has.
LEMMA SplicedDeque ==
  ASSUME local_segments \in Seq(Segs), Ordered(local_segments),
         job \in [inputs : SUBSET Names, out : Names, hi : Seqs],
         job.inputs \subseteq SegmentNames,
         \A m \in job.inputs : MinSeq(job.out) <= MinSeq(m),
         \E m \in job.inputs : MinSeq(job.out) = MinSeq(m)
  PROVE  /\ Spliced \in Seq(Segs) /\ Ordered(Spliced)
         /\ NamesOf(Spliced) = (SegmentNames \ job.inputs) \cup {job.out}
<1> DEFINE added == Segment(job.out, job.hi, "LOCAL")
           hit == Places(job.inputs)
           f == Min(hit)
           q == [local_segments EXCEPT ![f] = added]
           places == (DOMAIN local_segments \ hit) \cup {f}
<1>1. DOMAIN local_segments = 1..Len(local_segments) /\ Len(local_segments) \in Nat
  OBVIOUS
<1>2. added \in Segs /\ added.name = job.out
  BY DEF Segment, Segs
<1>3. /\ hit \subseteq DOMAIN local_segments
      /\ \A k \in DOMAIN local_segments : k \in hit <=> local_segments[k].name \in job.inputs
      /\ \A m \in job.inputs : \E k \in hit : local_segments[k].name = m
  BY DEF Places, SegmentNames
<1>4. f \in hit /\ \A k \in hit : f <= k
  <2>1. hit \in SUBSET Nat /\ hit # {}
    BY <1>1, <1>3
  <2> HIDE DEF hit
  <2> QED  BY <2>1, MinOfNats
<1>5. Spliced = Picked(q, places)
  BY <1>4 DEF Spliced
<1> HIDE DEF hit, f
<1>6. q \in Seq(Segs) /\ DOMAIN q = DOMAIN local_segments
  <2>1. q = [k \in 1..Len(local_segments) |-> IF k = f THEN added ELSE local_segments[k]]
    BY <1>1
  <2>2. q \in [1..Len(local_segments) -> Segs]
    BY <1>2, <2>1, EntryTypes, <1>1
  <2> QED  BY <1>1, <2>2
<1>7. q[f] = added /\ \A k \in DOMAIN q : k # f => q[k] = local_segments[k]
  BY <1>3, <1>4, <1>6
<1>8. \A k \in DOMAIN local_segments :
        local_segments[k].name \in Names /\ MinSeq(local_segments[k].name) \in Nat
  BY EntryTypes
<1>9. MinSeq(job.out) = MinSeq(local_segments[f].name)
  <2>1. PICK k \in hit : MinSeq(job.out) = MinSeq(local_segments[k].name)
    BY <1>3
  <2>2. MinSeq(local_segments[f].name) <= MinSeq(local_segments[k].name)
    BY <1>3, <1>4, <2>1 DEF Ordered
  <2>3. MinSeq(job.out) <= MinSeq(local_segments[f].name)
    BY <1>3, <1>4
  <2> QED  BY <1>3, <1>4, <1>8, <2>1, <2>2, <2>3
<1>10. \A k \in DOMAIN q : MinSeq(q[k].name) = MinSeq(local_segments[k].name)
  BY <1>2, <1>6, <1>7, <1>9
<1>11. places \in SUBSET DOMAIN q
  BY <1>3, <1>4, <1>6
<1>12. \A i, k \in places : i <= k => MinSeq(q[i].name) <= MinSeq(q[k].name)
  BY <1>6, <1>10, <1>11 DEF Ordered
<1>13. {q[k].name : k \in places} = (SegmentNames \ job.inputs) \cup {job.out}
  BY <1>2, <1>3, <1>4, <1>6, <1>7 DEF SegmentNames
<1> HIDE DEF q, places
<1> QED  BY <1>5, <1>6, <1>11, <1>12, <1>13, PickedDeque

-----------------------------------------------------------------------------
(* The inductive invariant. *)

\* A file has rows, none of them before the min_seq of its name.
InRange(files) ==
  /\ DOMAIN files \subseteq Names
  /\ \A n \in DOMAIN files : files[n] \subseteq MinSeq(n)..MaxSeq /\ files[n] # {}

Data ==
  /\ InRange(disk) /\ InRange(bucket)
  /\ DOMAIN cat \subseteq Names /\ \A n \in DOMAIN cat : cat[n] \in [hi : Seqs, loc : Loc]
  /\ local_segments \in Seq(Segs) /\ Ordered(local_segments)
  /\ persisted_seq \in Seqs \cup {-1} /\ acked \subseteq Seqs
  /\ up \in BOOLEAN /\ mode \in {"cycle", "stop", "boot", "register"}

LEMMA AdoptedRows ==
  ASSUME Data
  PROVE  /\ \A n \in KeptRows \cup DOMAIN disk :
              n \in Names /\ AdoptedRow(n) \in [hi : Seqs, loc : Loc]
         /\ \A n \in DOMAIN disk : Segment(n, AdoptedRow(n).hi, AdoptedRow(n).loc) \in Segs
<1>1. ASSUME NEW n \in DOMAIN disk
      PROVE  /\ n \in Names /\ AdoptedRow(n) \in [hi : Seqs, loc : {"LOCAL", "BOTH"}]
             /\ Segment(n, AdoptedRow(n).hi, AdoptedRow(n).loc) \in Segs
  <2>1. n \in Names /\ FooterMax(n, disk[n]) \in Seqs
    BY FooterInRange DEF Data, InRange
  <2>2. n \in DOMAIN cat => cat[n].loc \in Loc
    BY DEF Data
  <2>3. AdoptedRow(n) \in [hi : Seqs, loc : {"LOCAL", "BOTH"}]
    BY <2>1, <2>2 DEF AdoptedRow, Loc
  <2> QED  BY <2>1, <2>3 DEF Segment, Segs
<1>2. ASSUME NEW n \in KeptRows \ DOMAIN disk
      PROVE  n \in Names /\ AdoptedRow(n) \in [hi : Seqs, loc : Loc]
  <2>1. n \in DOMAIN cat /\ n \in Names /\ cat[n] \in [hi : Seqs, loc : Loc]
    BY DEF KeptRows, Data
  <2> QED  BY <2>1 DEF AdoptedRow, Loc
<1>3. \A n \in DOMAIN disk : AdoptedRow(n) \in [hi : Seqs, loc : Loc]
  BY <1>1 DEF Loc
<1> QED  BY <1>1, <1>2, <1>3

\* The deque that Open builds has one entry per file.
LEMMA OpenedDeque ==
  ASSUME Data, Open
  PROVE  /\ local_segments' \in Seq(Segs) /\ Ordered(local_segments')
         /\ NamesOf(local_segments') = DOMAIN disk
         /\ \A i, k \in DOMAIN local_segments' :
              local_segments'[i].name = local_segments'[k].name => i = k
         /\ \A i \in DOMAIN local_segments' : LET n == local_segments'[i].name IN
              local_segments'[i] = Segment(n, AdoptedRow(n).hi, AdoptedRow(n).loc)
<1> DEFINE S == DOMAIN disk
           R == {p \in S \X S : Before(p[1], p[2])}
           N == Cardinality(S)
           at(i) == CHOOSE n \in S : Cardinality({m \in S : Before(m, n)}) = i
           seg(n) == Segment(n, AdoptedRow(n).hi, AdoptedRow(n).loc)
<1>1. local_segments' = [i \in 1..N |-> seg(at(i))]
  BY DEF Open
<1>2. IsFiniteSet(S) /\ S \subseteq Names
  <2>1. IsFiniteSet(0..Terminal) /\ IsFiniteSet(Seqs)
    BY FS_Interval, PlannerAssumption, StoreAssumption DEF Terminal, Seqs
  <2>2. IsFiniteSet(Names)
    BY <2>1, FS_Product DEF Names
  <2> QED  BY <2>2, FS_Subset DEF Data, InRange
<1>3. \A m, n \in S : <<m, n>> \in R <=> Before(m, n)
  OBVIOUS
<1>4. \A n \in S : MinSeq(n) \in Nat /\ Level(n) \in Nat
  BY <1>2, NameTypes
<1>5. \A m, n \in S : MinSeq(m) = MinSeq(n) /\ Level(m) = Level(n) => m = n
  BY <1>2 DEF Names, MinSeq, Level
<1> HIDE DEF R, S
<1>6. ASSUME NEW m \in S, NEW n \in S
      PROVE  <<m, n>> \in R \/ <<n, m>> \in R
  <2>1. CASE MinSeq(m) < MinSeq(n) \/ MinSeq(n) < MinSeq(m)
    BY <1>3, <2>1 DEF Before
  <2>2. CASE MinSeq(m) = MinSeq(n) /\ (m \in DOMAIN cat <=> n \in DOMAIN cat)
    <3>1. (m \in DOMAIN cat) = (n \in DOMAIN cat)
      BY <2>2
    <3> QED  BY <1>3, <1>4, <2>2, <3>1 DEF Before
  <2>3. CASE MinSeq(m) = MinSeq(n) /\ m \in DOMAIN cat /\ n \notin DOMAIN cat
    BY <1>3, <2>3 DEF Before
  <2>4. CASE MinSeq(m) = MinSeq(n) /\ m \notin DOMAIN cat /\ n \in DOMAIN cat
    BY <1>3, <2>4 DEF Before
  <2> QED  BY <1>4, <2>1, <2>2, <2>3, <2>4
<1>7. \A m, n \in S : <<m, n>> \in R /\ <<n, m>> \in R => m = n
  BY <1>3, <1>4, <1>5 DEF Before
<1>8. \A l, m, n \in S : <<l, m>> \in R /\ <<m, n>> \in R => <<l, n>> \in R
  BY <1>3, <1>4 DEF Before
<1>9. PICK a \in [1..N -> S] :
        /\ \A i \in 1..N, n \in S : Cardinality({m \in S : <<m, n>> \in R}) = i <=> n = a[i]
        /\ \A n \in S : \E i \in 1..N : a[i] = n
        /\ \A i, k \in 1..N : i <= k <=> <<a[i], a[k]>> \in R
  BY <1>2, <1>6, <1>7, <1>8, RanksTaken
<1>10. \A n \in S : {m \in S : <<m, n>> \in R} = {m \in S : Before(m, n)}
  BY <1>3
<1>11. \A i \in 1..N : at(i) = a[i]
  BY <1>9, <1>10
<1>12. N \in Nat
  BY <1>2, FS_CardinalityType
<1>13. \A n \in S : seg(n) \in Segs /\ seg(n).name = n
  BY AdoptedRows DEF Segment, S
<1> HIDE DEF at, seg, N
<1>14. local_segments' = [i \in 1..N |-> seg(a[i])]
  BY <1>1, <1>11
<1>15. local_segments' \in Seq(Segs)
  BY <1>9, <1>12, <1>13, <1>14
<1>16. DOMAIN local_segments' = 1..N
  BY <1>14
<1>17. \A i \in 1..N : local_segments'[i] = seg(a[i]) /\ local_segments'[i].name = a[i]
  BY <1>9, <1>13, <1>14
<1>18. Ordered(local_segments')
  <2>1. \A m, n \in S : <<m, n>> \in R => MinSeq(m) <= MinSeq(n)
    BY <1>3, <1>4 DEF Before
  <2>2. \A i, k \in 1..N : i <= k => MinSeq(a[i]) <= MinSeq(a[k])
    BY <1>9, <2>1
  <2> QED  BY <1>16, <1>17, <2>2 DEF Ordered
<1>19. NamesOf(local_segments') = S
  BY <1>9, <1>16, <1>17 DEF NamesOf
<1>20. \A i, k \in 1..N : a[i] = a[k] => i = k
  <2>1. \A i, k \in 1..N : a[i] = a[k] => i <= k /\ k <= i
    BY <1>9, <1>6
  <2> QED  BY <1>12, <2>1
<1> QED  BY <1>15, <1>16, <1>17, <1>18, <1>19, <1>20 DEF S, seg

Later(names, r) == \A n \in names : MinSeq(n) < r

\* Rows go through the buffer and the sealed rows in the order of their seqs, and no
\* name the store works with is taken from rows still there.
Buffered ==
  /\ next_seq \in 1..(MaxSeq + 1) /\ ram \subseteq 1..(next_seq - 1)
  /\ sealed \subseteq 1..(next_seq - 1)
  /\ fpc \in {"idle", "sealed", "written", "cataloged", "committed"}
  /\ fpc = "idle" <=> sealed = {}
  /\ \A r \in sealed, q \in ram : r < q
  /\ Later(SegmentNames \cup job.inputs, next_seq)
  /\ \A r \in ram : Later(SegmentNames \cup job.inputs, r)
  /\ fpc # "committed" => \A r \in sealed : Later(SegmentNames \cup job.inputs, r)

JobOK ==
  /\ job \in [inputs : SUBSET Names, out : Names, hi : Seqs]
  /\ \A m \in job.inputs : Level(m) + 1 = Level(job.out)
  /\ \A m \in job.inputs : MinSeq(job.out) <= MinSeq(m)
  /\ \E m \in job.inputs : MinSeq(job.out) = MinSeq(m)

\* What the maintenance task has in its hands at each of its steps.
Tasks ==
  /\ job = NoJob \/ JobOK
  /\ todo \subseteq Names /\ listed \subseteq Names
  /\ fby = "task" \/ (fby = "maintenance" /\ mpc = "flush" /\ fpc # "idle")
  /\ mpc \in {"merge", "bump", "swap", "splice"} => JobOK /\ job.inputs \subseteq SegmentNames
  /\ mpc = "unlink" => todo \subseteq job.inputs
  /\ mpc = "drop" => listed \subseteq DOMAIN bucket \ todo
  /\ mpc \in {"unlink", "orphans", "mark"} => todo # {}
  /\ mpc \in {"evwait", "evunlink"} => \E n \in Names : todo = {n} /\ Level(n) >= 1
  /\ ~up => /\ fpc = "idle" /\ mpc = "idle" /\ ram = {} /\ local_segments = <<>>
            /\ job = NoJob /\ snap = NoSnap

\* Every file the deque names is there.  Where a level bump has renamed one under the
\* write lock the deque follows before the lock is given back.
Files ==
  /\ mpc # "splice" => SegmentNames \subseteq DOMAIN disk
  /\ mpc = "splice" => SegmentNames \ job.inputs \subseteq DOMAIN disk
  /\ mpc \in {"swap", "splice"} => job.out \in DOMAIN disk
  /\ fpc \in {"written", "cataloged"} => <<0, Min(sealed)>> \in DOMAIN disk
  /\ mpc \in {"unlink", "evunlink"} => todo \cap SegmentNames = {}
  /\ mpc \in Holding => snap = NoSnap
  /\ ReadSafe

StoreInv == Data /\ Buffered /\ Tasks /\ Files

-----------------------------------------------------------------------------
(* Files come and go. *)

LEMMA PutFile ==
  ASSUME NEW files, InRange(files), NEW n \in Names,
         NEW rows \in SUBSET (MinSeq(n)..MaxSeq), rows # {}
  PROVE  InRange(Put(files, n, rows))
  BY DEF InRange, Put

LEMMA DropFiles ==
  ASSUME NEW files, InRange(files), NEW S
  PROVE  InRange(Drop(files, S))
  BY DEF InRange, Drop, Restrict

LEMMA PutDomain ==
  ASSUME NEW f, NEW n, NEW v
  PROVE  /\ DOMAIN Put(f, n, v) = DOMAIN f \cup {n}
         /\ Put(f, n, v)[n] = v
         /\ \A m \in DOMAIN f : m # n => Put(f, n, v)[m] = f[m]
  BY DEF Put

LEMMA DropDomain ==
  ASSUME NEW f, NEW S
  PROVE  /\ DOMAIN Drop(f, S) = DOMAIN f \ S
         /\ \A m \in DOMAIN f \ S : Drop(f, S)[m] = f[m]
  BY DEF Drop, Restrict

\* The sealed rows as a file of level 0.
LEMMA SealedFile ==
  ASSUME Buffered, fpc # "idle"
  PROVE  /\ sealed \subseteq Seqs /\ sealed # {}
         /\ Min(sealed) \in sealed /\ \A r \in sealed : Min(sealed) <= r
         /\ Max(sealed) \in sealed /\ \A r \in sealed : r <= Max(sealed)
         /\ <<0, Min(sealed)>> \in Names
         /\ MinSeq(<<0, Min(sealed)>>) = Min(sealed) /\ Level(<<0, Min(sealed)>>) = 0
         /\ sealed \in SUBSET (MinSeq(<<0, Min(sealed)>>)..MaxSeq)
         /\ Segment(<<0, Min(sealed)>>, Max(sealed), "LOCAL") \in Segs
<1>1. sealed \subseteq Seqs /\ sealed # {}
  BY StoreAssumption DEF Buffered, Seqs
<1>2. sealed \in SUBSET Nat /\ \A r \in sealed : r <= MaxSeq
  BY <1>1, StoreAssumption DEF Seqs
<1>3. Min(sealed) \in sealed /\ \A r \in sealed : Min(sealed) <= r
  BY <1>1, <1>2, MinOfNats
<1>4. Max(sealed) \in sealed /\ \A r \in sealed : r <= Max(sealed)
  <2>1. sealed \in SUBSET Int /\ MaxSeq \in Int
    BY <1>2, StoreAssumption
  <2> QED  BY <1>1, <1>2, <2>1, MaxOfInts
<1>5. 0 \in 0..Terminal
  BY PlannerAssumption DEF Terminal
<1>6. /\ <<0, Min(sealed)>> \in Names
      /\ MinSeq(<<0, Min(sealed)>>) = Min(sealed) /\ Level(<<0, Min(sealed)>>) = 0
  BY <1>1, <1>3, <1>5 DEF Names, MinSeq, Level
<1>7. sealed \in SUBSET (MinSeq(<<0, Min(sealed)>>)..MaxSeq)
  BY <1>2, <1>3, <1>6
<1>8. Segment(<<0, Min(sealed)>>, Max(sealed), "LOCAL") \in Segs
  BY <1>1, <1>4, <1>6 DEF Segment, Segs
<1> QED  BY <1>1, <1>3, <1>4, <1>6, <1>7, <1>8

\* The rows of the inputs of a job as the file of its output.
LEMMA JobFile ==
  ASSUME Data, JobOK, job.inputs \subseteq DOMAIN disk
  PROVE  /\ UNION {disk[n] : n \in job.inputs} \in SUBSET (MinSeq(job.out)..MaxSeq)
         /\ UNION {disk[n] : n \in job.inputs} # {}
         /\ disk[First(job.inputs)] \in SUBSET (MinSeq(job.out)..MaxSeq)
         /\ disk[First(job.inputs)] # {}
<1>1. \A n \in job.inputs : disk[n] \subseteq MinSeq(n)..MaxSeq /\ disk[n] # {}
  BY DEF Data, InRange
<1>2. /\ job.out \in Names /\ job.inputs \in SUBSET Names /\ job.inputs # {}
      /\ \A n \in job.inputs : MinSeq(job.out) <= MinSeq(n)
  BY DEF JobOK
<1>3. \A n \in job.inputs : MinSeq(n) \in Nat /\ MinSeq(job.out) \in Nat
  BY <1>2, NameTypes
<1>4. \A n \in job.inputs : disk[n] \subseteq MinSeq(job.out)..MaxSeq
  BY <1>1, <1>2, <1>3, StoreAssumption
<1>5. First(job.inputs) \in job.inputs
  BY <1>2, FirstOfNames
<1> QED  BY <1>1, <1>2, <1>4, <1>5

-----------------------------------------------------------------------------
(* The data: every action, in the order of the model. *)

USE DEF durable, memory, flusher, loop, history, At, Goto, NoFault, Fault, WriteLocked,
        Drained, Maintenance

\* What the current tasks know of the names at hand.
LEMMA TodoNames ==
  ASSUME Tasks, todo # {}
  PROVE  First(todo) \in todo /\ First(todo) \in Names
  BY FirstOfNames DEF Tasks

LEMMA InitStore == Init => StoreInv
<1> SUFFICES ASSUME Init PROVE StoreInv
  OBVIOUS
<1> USE DEF Init, Idle
<1>1. DOMAIN local_segments = {} /\ local_segments \in Seq(Segs) /\ SegmentNames = {}
  BY DEF SegmentNames
<1>2. Data
  BY <1>1 DEF Data, InRange, Ordered
<1>3. Buffered
  BY <1>1, StoreAssumption DEF Buffered, Later, NoJob
<1>4. Tasks
  BY DEF Tasks
<1>5. Files
  BY <1>1 DEF Files, ReadSafe, Holding
<1> QED  BY <1>2, <1>3, <1>4, <1>5 DEF StoreInv

LEMMA DownData ==
  ASSUME Data, Down, UNCHANGED <<durable, acked>>
  PROVE  Data'
<1>1. local_segments' = <<>> /\ <<>> \in Seq(Segs) /\ DOMAIN <<>> = {}
  BY DEF Down
<1> QED  BY <1>1 DEF Data, Down, InRange, Ordered

LEMMA FlushData ==
  ASSUME StoreInv, Flush
  PROVE  Data'
<1> USE DEF StoreInv
<1>1. CASE Seal("task")
  BY <1>1 DEF Seal, Data, InRange, Ordered
<1>2. CASE WriteSegment
  <2>1. fpc # "idle"
    BY <1>2 DEF WriteSegment
  <2>2. InRange(disk')
    BY <1>2, <2>1, SealedFile, PutFile DEF WriteSegment, Data
  <2> QED  BY <1>2, <2>2 DEF WriteSegment, Data, InRange, Ordered
<1>3. CASE UpsertSegment
  <2>1. fpc # "idle"
    BY <1>3 DEF UpsertSegment
  <2>2. DOMAIN cat' \subseteq Names /\ \A n \in DOMAIN cat' : cat'[n] \in [hi : Seqs, loc : Loc]
    BY <1>3, <2>1, SealedFile DEF UpsertSegment, Data, Put, Loc
  <2> QED  BY <1>3, <2>2 DEF UpsertSegment, Data, InRange, Ordered
<1>4. CASE RestoreFlush
  BY <1>4 DEF RestoreFlush, Data, InRange, Ordered
<1>5. CASE CommitFlush
  <2>1. fpc # "idle" /\ fpc # "committed"
    BY <1>5 DEF CommitFlush
  <2> DEFINE s == Segment(<<0, Min(sealed)>>, Max(sealed), "LOCAL")
  <2>2. s \in Segs /\ s.name = <<0, Min(sealed)>> /\ MinSeq(s.name) = Min(sealed)
    BY <2>1, SealedFile DEF Segment
  <2>3. Min(sealed) \in sealed
    BY <2>1, SealedFile
  <2>4. \A n \in NamesOf(local_segments) : MinSeq(n) < Min(sealed)
    BY <2>1, <2>3 DEF Buffered, Later, NamesOf, SegmentNames
  <2>5. \A n \in NamesOf(local_segments) : MinSeq(n) \in Nat
    BY EntryTypes DEF NamesOf, Data
  <2>6. \A n \in NamesOf(local_segments) : MinSeq(n) <= MinSeq(s.name)
    <3>1. Min(sealed) \in Nat
      BY <2>1, SealedFile, StoreAssumption DEF Seqs
    <3> QED  BY <2>2, <2>4, <2>5, <3>1
  <2> HIDE DEF s
  <2>7. Append(local_segments, s) \in Seq(Segs) /\ Ordered(Append(local_segments, s))
    BY <2>2, <2>6, AppendedDeque DEF Data
  <2>8. local_segments' = Append(local_segments, s)
    BY <1>5 DEF CommitFlush, s
  <2> QED  BY <1>5, <2>7, <2>8 DEF CommitFlush, Data, InRange
<1>6. CASE Publish
  <2>1. fpc # "idle"
    BY <1>6 DEF Publish, MayPublish
  <2>2. Max(sealed) \in Seqs /\ sealed \subseteq Seqs
    BY <2>1, SealedFile
  <2> QED  BY <1>6, <2>2 DEF Publish, Data, InRange, Ordered
<1> QED  BY <1>1, <1>2, <1>3, <1>4, <1>5, <1>6 DEF Flush

LEMMA CompactData ==
  ASSUME StoreInv, Compact
  PROVE  Data'
<1> USE DEF StoreInv
<1>1. CASE PlanJob
  BY <1>1 DEF PlanJob, Data, InRange, Ordered
<1>2. CASE Merge
  <2>1. JobOK
    BY <1>2 DEF Merge, Tasks
  <2>2. InRange(disk')
    <3>1. CASE job.inputs \subseteq DOMAIN disk
      <4> DEFINE rows == UNION {disk[n] : n \in job.inputs}
      <4>1. rows \in SUBSET (MinSeq(job.out)..MaxSeq) /\ rows # {}
        BY <2>1, <3>1, JobFile
      <4>2. disk' = Put(disk, job.out, rows)
        BY <1>2, <3>1 DEF Merge
      <4> HIDE DEF rows
      <4> QED  BY <2>1, <4>1, <4>2, PutFile DEF Data, JobOK
    <3>2. CASE ~(job.inputs \subseteq DOMAIN disk)
      BY <1>2, <3>2 DEF Merge, Data
    <3> QED  BY <3>1, <3>2
  <2> QED  BY <1>2, <2>2 DEF Merge, Data, InRange, Ordered
<1>3. CASE BumpRename
  <2>1. JobOK
    BY <1>3 DEF BumpRename, Tasks
  <2>2. InRange(Drop(disk, job.inputs))
    BY DropFiles DEF Data
  <2>3. InRange(disk')
    <3>1. CASE job.inputs \subseteq DOMAIN disk
      <4>1. /\ disk[First(job.inputs)] \in SUBSET (MinSeq(job.out)..MaxSeq)
            /\ disk[First(job.inputs)] # {}
        BY <2>1, <3>1, JobFile
      <4>2. disk' = Put(Drop(disk, job.inputs), job.out, disk[First(job.inputs)])
        BY <1>3, <3>1 DEF BumpRename
      <4> QED  BY <2>1, <2>2, <4>1, <4>2, PutFile DEF JobOK
    <3>2. CASE ~(job.inputs \subseteq DOMAIN disk)
      BY <1>3, <3>2 DEF BumpRename, Data
    <3> QED  BY <3>1, <3>2
  <2> QED  BY <1>3, <2>3 DEF BumpRename, Data, InRange, Ordered
<1>4. CASE CommitSwap \/ CommitSwapFails
  <2>1. JobOK /\ job.inputs \subseteq SegmentNames
    BY <1>4 DEF CommitSwap, CommitSwapFails, AtSplice, Tasks
  <2>2. Spliced \in Seq(Segs) /\ Ordered(Spliced)
    BY <2>1, SplicedDeque DEF Data, JobOK
  <2>3. local_segments' = Spliced
    BY <1>4 DEF CommitSwap, CommitSwapFails
  <2>4. DOMAIN cat' \subseteq Names /\ \A n \in DOMAIN cat' : cat'[n] \in [hi : Seqs, loc : Loc]
    <3>1. CASE CommitSwapFails
      BY <3>1 DEF CommitSwapFails, Data
    <3>2. CASE CommitSwap
      BY <2>1, <3>2 DEF CommitSwap, Data, JobOK, Put, Drop, Restrict, Loc
    <3> QED  BY <1>4, <3>1, <3>2
  <2> QED  BY <1>4, <2>2, <2>3, <2>4 DEF CommitSwap, CommitSwapFails, Data, InRange
<1>5. CASE UnlinkInput
  BY <1>5, DropFiles DEF UnlinkInput, Data, InRange, Ordered
<1> QED  BY <1>1, <1>2, <1>3, <1>4, <1>5 DEF Compact

\* A mark changes a location, and no name.
LEMMA MarkedDeque ==
  ASSUME local_segments \in Seq(Segs), Ordered(local_segments), MarkDeque
  PROVE  /\ local_segments' \in Seq(Segs) /\ Ordered(local_segments')
         /\ NamesOf(local_segments') = NamesOf(local_segments)
         /\ DOMAIN local_segments' = DOMAIN local_segments
         /\ \A i \in DOMAIN local_segments :
              /\ local_segments'[i].name = local_segments[i].name
              /\ local_segments'[i].hi = local_segments[i].hi
<1> DEFINE at == Places({First(todo)})
           q == local_segments
<1>1. DOMAIN q = 1..Len(q) /\ Len(q) \in Nat
  OBVIOUS
<1>2. \A i \in DOMAIN q : q[i] \in Segs
  OBVIOUS
<1>3. CASE at = {}
  BY <1>3 DEF MarkDeque, NamesOf
<1>4. CASE at # {}
  <2>1. Min(at) \in DOMAIN q
    <3>1. at \in SUBSET Nat /\ at \subseteq DOMAIN q
      BY <1>1 DEF Places
    <3> HIDE DEF at
    <3> QED  BY <1>4, <3>1, MinOfNats
  <2>2. local_segments' = [q EXCEPT ![Min(at)].loc = "BOTH"]
    BY <1>4 DEF MarkDeque
  <2> HIDE DEF at
  <2>3. /\ DOMAIN local_segments' = 1..Len(q)
        /\ \A i \in 1..Len(q) :
             local_segments'[i] = IF i = Min(at) THEN [q[i] EXCEPT !.loc = "BOTH"] ELSE q[i]
    BY <1>1, <2>1, <2>2
  <2>4. \A i \in 1..Len(q) :
          /\ local_segments'[i] \in Segs
          /\ local_segments'[i].name = q[i].name /\ local_segments'[i].hi = q[i].hi
    BY <1>1, <1>2, <2>3 DEF Segs
  <2>5. local_segments' = [i \in 1..Len(q) |-> local_segments'[i]]
    BY <1>1, <2>2
  <2>6. local_segments' \in Seq(Segs)
    BY <1>1, <2>4, <2>5
  <2>7. Ordered(local_segments')
    BY <1>1, <2>3, <2>4 DEF Ordered
  <2>8. NamesOf(local_segments') = NamesOf(q)
    BY <1>1, <2>3, <2>4 DEF NamesOf
  <2> QED  BY <1>1, <2>3, <2>4, <2>6, <2>7, <2>8
<1> QED  BY <1>3, <1>4

LEMMA SyncData ==
  ASSUME StoreInv, Sync
  PROVE  Data'
<1> USE DEF StoreInv
<1>1. CASE ListBucket \/ ListBucketFails \/ EndUploads
  BY <1>1 DEF ListBucket, ListBucketFails, EndUploads, Data, InRange, Ordered
<1>2. CASE Upload \/ UploadFails
  <2>1. First(todo) \in Names
    BY <1>2, TodoNames DEF Upload, UploadFails
  <2>2. InRange(bucket')
    <3>1. CASE UNCHANGED bucket
      BY <3>1 DEF Data, InRange
    <3>2. CASE First(todo) \in DOMAIN disk /\ bucket' = Put(bucket, First(todo), disk[First(todo)])
      <4>1. /\ disk[First(todo)] \in SUBSET (MinSeq(First(todo))..MaxSeq)
            /\ disk[First(todo)] # {} /\ InRange(bucket)
        BY <3>2 DEF Data, InRange
      <4> QED  BY <2>1, <3>2, <4>1, PutFile
    <3> QED  BY <1>2, <3>1, <3>2 DEF Upload, UploadFails
  <2> QED  BY <1>2, <2>2 DEF Upload, UploadFails, Data, InRange, Ordered
<1>3. CASE MarkUploaded \/ MarkUploadedFails
  <2>1. local_segments' \in Seq(Segs) /\ Ordered(local_segments')
    BY <1>3, MarkedDeque DEF MarkUploaded, MarkUploadedFails, Data
  <2>2. DOMAIN cat' \subseteq Names /\ \A n \in DOMAIN cat' : cat'[n] \in [hi : Seqs, loc : Loc]
    BY <1>3 DEF MarkUploaded, MarkUploadedFails, SetLocation, Data, Loc
  <2> QED  BY <1>3, <2>1, <2>2 DEF MarkUploaded, MarkUploadedFails, Data, InRange
<1>4. CASE DeleteOrphan
  <2>1. InRange(bucket')
    BY <1>4, DropFiles DEF DeleteOrphan, Data
  <2> QED  BY <1>4, <2>1 DEF DeleteOrphan, Data, InRange, Ordered
<1> QED  BY <1>1, <1>2, <1>3, <1>4 DEF Sync

LEMMA EvictData ==
  ASSUME StoreInv, Evict
  PROVE  Data'
<1> USE DEF StoreInv
<1>1. CASE (\E n \in Evictable : ChooseEviction(n)) \/ EndEviction
  BY <1>1 DEF ChooseEviction, EndEviction, Data, InRange, Ordered
<1>2. CASE EvictSegment
  <2>1. local_segments' \in Seq(Segs) /\ Ordered(local_segments')
    BY <1>2, EvictedDeque DEF EvictSegment, Data
  <2>2. DOMAIN cat' \subseteq Names /\ \A n \in DOMAIN cat' : cat'[n] \in [hi : Seqs, loc : Loc]
    BY <1>2 DEF EvictSegment, SetLocation, Data, Loc, Drop, Restrict
  <2> QED  BY <1>2, <2>1, <2>2 DEF EvictSegment, Data, InRange
<1>3. CASE UnlinkEvicted
  BY <1>3, DropFiles DEF UnlinkEvicted, Data, InRange, Ordered
<1> QED  BY <1>1, <1>2, <1>3 DEF Evict

LEMMA ReconcileData ==
  ASSUME StoreInv, Reconcile
  PROVE  Data'
<1> USE DEF StoreInv
<1>1. CASE ReconcileList \/ ReconcileListFails \/ EndReconcile \/ Reseed
  BY <1>1 DEF ReconcileList, ReconcileListFails, EndReconcile, Reseed, Data, InRange, Ordered
<1>2. CASE ReconcileDrop
  <2>1. InRange(bucket')
    BY <1>2, DropFiles DEF ReconcileDrop, Data
  <2>2. DOMAIN cat' \subseteq Names /\ \A n \in DOMAIN cat' : cat'[n] \in [hi : Seqs, loc : Loc]
    BY <1>2 DEF ReconcileDrop, Data, Drop, Restrict
  <2> QED  BY <1>2, <2>1, <2>2 DEF ReconcileDrop, Data, InRange, Ordered
<1>3. CASE ReconcileAdopt
  <2>1. First(listed) \in listed /\ First(listed) \in Names /\ First(listed) \in DOMAIN bucket
    BY <1>3, FirstOfNames DEF ReconcileAdopt, Tasks
  <2>2. FooterMax(First(listed), bucket[First(listed)]) \in Seqs
    BY <2>1, FooterInRange DEF Data, InRange
  <2>3. DOMAIN cat' \subseteq Names /\ \A n \in DOMAIN cat' : cat'[n] \in [hi : Seqs, loc : Loc]
    BY <1>3, <2>1, <2>2 DEF ReconcileAdopt, Data, Put, Loc
  <2> QED  BY <1>3, <2>3 DEF ReconcileAdopt, Data, InRange, Ordered
<1> QED  BY <1>1, <1>2, <1>3 DEF Reconcile

LEMMA OpenData ==
  ASSUME StoreInv, Open
  PROVE  Data'
<1> USE DEF StoreInv
<1>1. local_segments' \in Seq(Segs) /\ Ordered(local_segments')
  BY OpenedDeque
<1>2. DOMAIN cat' \subseteq Names /\ \A n \in DOMAIN cat' : cat'[n] \in [hi : Seqs, loc : Loc]
  <2>1. cat' = [n \in KeptRows \cup DOMAIN disk |-> AdoptedRow(n)]
    BY DEF Open
  <2> QED  BY <2>1, AdoptedRows
<1>3. persisted_seq' \in Seqs \cup {-1}
  <2> DEFINE S == {-1} \cup {FooterMax(n, disk[n]) : n \in DOMAIN disk}
  <2>1. S \subseteq Seqs \cup {-1}
    BY FooterInRange DEF Data, InRange
  <2>2. S \in SUBSET Int /\ S # {} /\ MaxSeq \in Int /\ \A x \in S : x <= MaxSeq
    BY <2>1, StoreAssumption DEF Seqs
  <2>3. Max(S) \in S
    <3> HIDE DEF S
    <3> QED  BY <2>2, MaxOfInts
  <2>4. persisted_seq' = Max(S)
    BY DEF Open
  <2> HIDE DEF S
  <2> QED  BY <2>1, <2>3, <2>4
<1> QED  BY <1>1, <1>2, <1>3 DEF Open, Data, InRange

LEMMA NextData ==
  ASSUME StoreInv, Next
  PROVE  Data'
<1> USE DEF StoreInv
<1>1. CASE \/ AppendRow \/ StartCycle \/ Seal("maintenance") \/ NothingToFlush \/ StartStop
           \/ AbortTask
  BY <1>1 DEF AppendRow, StartCycle, Seal, NothingToFlush, StartStop, AbortTask, Data, InRange,
     Ordered
<1>2. CASE StartQuery \/ EndQuery
  BY <1>2 DEF StartQuery, EndQuery, Data, InRange, Ordered
<1>3. CASE Stopped \/ CutSync \/ Crash
  BY <1>3, DownData DEF Stopped, CutSync, Crash
<1>4. CASE LoseDisk
  BY <1>4 DEF LoseDisk, Data, InRange, Ordered
<1> QED
  BY <1>1, <1>2, <1>3, <1>4, FlushData, CompactData, SyncData, EvictData, ReconcileData,
     OpenData DEF Next, Maintain, Shutdown

-----------------------------------------------------------------------------
(* The buffer. *)

\* Names that come with the min_seq of a name at hand are no later than it.
LEMMA BufferedNames ==
  ASSUME Buffered, UNCHANGED <<next_seq, ram, sealed, fpc>>,
         \A n \in (SegmentNames \cup job.inputs)' :
           \E m \in SegmentNames \cup job.inputs : MinSeq(n) = MinSeq(m)
  PROVE  Buffered'
<1> DEFINE now == SegmentNames \cup job.inputs
           next == (SegmentNames \cup job.inputs)'
<1>1. \A r : Later(now, r) => Later(next, r)
  BY DEF Later
<1>2. Later(now, next_seq) /\ \A r \in ram : Later(now, r)
  BY DEF Buffered
<1>3. fpc # "committed" => \A r \in sealed : Later(now, r)
  BY DEF Buffered
<1>4. Later(next, next_seq) /\ \A r \in ram : Later(next, r)
  BY <1>1, <1>2
<1>5. fpc # "committed" => \A r \in sealed : Later(next, r)
  BY <1>1, <1>3
<1> QED  BY <1>4, <1>5 DEF Buffered, Later

LEMMA FlushBuffered ==
  ASSUME StoreInv, Flush \/ Seal("maintenance") \/ AppendRow
  PROVE  Buffered'
<1> USE DEF StoreInv
<1>1. \A n \in SegmentNames \cup job.inputs : MinSeq(n) \in Nat
  <2>1. \A n \in SegmentNames : n \in Names
    BY EntryTypes DEF SegmentNames, Data
  <2>2. job.inputs \in SUBSET Names
    BY DEF Tasks, JobOK, NoJob
  <2> QED  BY <2>1, <2>2, NameTypes
<1>2. CASE AppendRow
  <2>1. /\ next_seq <= MaxSeq /\ next_seq' = next_seq + 1 /\ ram' = ram \cup {next_seq}
        /\ SegmentNames' = SegmentNames /\ UNCHANGED <<sealed, fpc, job>>
    BY <1>2 DEF AppendRow, SegmentNames
  <2>2. /\ next_seq \in Int /\ next_seq \in 1..(MaxSeq + 1)
        /\ Later(SegmentNames \cup job.inputs, next_seq)
    BY StoreAssumption DEF Buffered
  <2>3. next_seq' \in 1..(MaxSeq + 1)
    BY <2>1, <2>2, StoreAssumption
  <2>4. Later(SegmentNames \cup job.inputs, next_seq')
    BY <1>1, <2>1, <2>2 DEF Later
  <2>5. ram' \subseteq 1..(next_seq' - 1) /\ sealed \subseteq 1..(next_seq' - 1)
    <3>1. 1..(next_seq - 1) \subseteq 1..(next_seq' - 1) /\ next_seq \in 1..(next_seq' - 1)
      BY <2>1, <2>2
    <3> QED  BY <2>1, <3>1 DEF Buffered
  <2>6. \A r \in sealed, q \in ram' : r < q
    <3>1. \A r \in sealed : r < next_seq
      BY <2>2 DEF Buffered
    <3> QED  BY <2>1, <3>1 DEF Buffered
  <2> QED  BY <2>1, <2>2, <2>3, <2>4, <2>5, <2>6 DEF Buffered
<1>3. CASE Seal("task") \/ Seal("maintenance")
  BY <1>3 DEF Seal, Buffered, Later, SegmentNames
<1>4. CASE WriteSegment \/ UpsertSegment
  BY <1>4 DEF WriteSegment, UpsertSegment, Buffered, Later, SegmentNames
<1>5. CASE RestoreFlush
  BY <1>5 DEF RestoreFlush, Buffered, Later, SegmentNames
<1>6. CASE CommitFlush
  <2> DEFINE s == Segment(<<0, Min(sealed)>>, Max(sealed), "LOCAL")
  <2>1. /\ Min(sealed) \in sealed /\ s \in Segs
        /\ s.name = <<0, Min(sealed)>> /\ MinSeq(s.name) = Min(sealed)
    BY <1>6, SealedFile DEF CommitFlush, Segment
  <2>2. local_segments' = Append(local_segments, s) /\ UNCHANGED <<next_seq, ram, sealed, job>>
    BY <1>6 DEF CommitFlush
  <2>3. \A n \in NamesOf(local_segments) : MinSeq(n) <= MinSeq(s.name)
    <3>1. fpc # "committed" /\ Min(sealed) \in 1..(next_seq - 1)
      BY <1>6, <2>1 DEF CommitFlush, Buffered
    <3>2. Later(SegmentNames \cup job.inputs, Min(sealed))
      BY <2>1, <3>1 DEF Buffered
    <3>3. \A n \in SegmentNames : MinSeq(n) < Min(sealed)
      BY <3>2 DEF Later
    <3>4. NamesOf(local_segments) = SegmentNames
      BY DEF NamesOf, SegmentNames
    <3> QED  BY <1>1, <2>1, <3>1, <3>3, <3>4
  <2> HIDE DEF s
  <2>4. NamesOf(local_segments') = NamesOf(local_segments) \cup {s.name}
    BY <2>1, <2>2, <2>3, AppendedDeque DEF Data
  <2>5. SegmentNames' = SegmentNames \cup {s.name}
    BY <2>4 DEF NamesOf, SegmentNames
  <2>6. Min(sealed) < next_seq /\ \A r \in ram : Min(sealed) < r
    <3>1. next_seq \in Int
      BY StoreAssumption DEF Buffered
    <3>2. Min(sealed) \in 1..(next_seq - 1)
      BY <2>1 DEF Buffered
    <3>3. \A r \in sealed, q \in ram : r < q
      BY DEF Buffered
    <3> QED  BY <2>1, <3>1, <3>2, <3>3
  <2>7. fpc' = "committed" /\ fpc # "idle"
    BY <1>6 DEF CommitFlush
  <2> QED  BY <2>1, <2>2, <2>5, <2>6, <2>7 DEF Buffered, Later
<1>7. CASE Publish
  BY <1>7 DEF Publish, MayPublish, Buffered, Later, SegmentNames
<1> QED  BY <1>2, <1>3, <1>4, <1>5, <1>6, <1>7 DEF Flush

LEMMA CompactBuffered ==
  ASSUME StoreInv, Compact \/ Evict \/ Sync
  PROVE  Buffered'
<1> USE DEF StoreInv
<1> DEFINE now == SegmentNames \cup job.inputs
<1>1. UNCHANGED <<next_seq, ram, sealed, fpc>>
  BY DEF Compact, PlanJob, Merge, BumpRename, CommitSwap, CommitSwapFails, UnlinkInput, Evict,
     ChooseEviction, EvictSegment, UnlinkEvicted, EndEviction, Sync, ListBucket,
     ListBucketFails, Upload, UploadFails, MarkUploaded, MarkUploadedFails, EndUploads,
     DeleteOrphan
<1>2. CASE PlanJob
  <2>1. SegmentNames' = SegmentNames
    BY <1>2 DEF PlanJob, SegmentNames
  <2>2. job'.inputs \subseteq SegmentNames
    <3>1. CASE plan(local_segments) = {}
      BY <1>2, <3>1 DEF PlanJob, NoJob
    <3>2. CASE plan(local_segments) # {}
      <4>1. job' \in plan(local_segments)
        BY <1>2, <3>2 DEF PlanJob
      <4>2. job'.inputs \subseteq NamesOf(local_segments)
        BY <4>1, PlannedJob DEF Data
      <4> QED  BY <4>2 DEF NamesOf, SegmentNames
    <3> QED  BY <3>1, <3>2
  <2> QED  BY <1>1, <2>1, <2>2, BufferedNames
<1>3. CASE CommitSwap \/ CommitSwapFails
  <2>1. JobOK /\ job.inputs \subseteq SegmentNames
    BY <1>3 DEF CommitSwap, CommitSwapFails, AtSplice, Tasks
  <2>2. NamesOf(Spliced) = (SegmentNames \ job.inputs) \cup {job.out}
    BY <2>1, SplicedDeque DEF Data, JobOK
  <2>3. SegmentNames' = (SegmentNames \ job.inputs) \cup {job.out} /\ job' = job
    BY <1>3, <2>2 DEF CommitSwap, CommitSwapFails, NamesOf, SegmentNames
  <2>4. \E m \in job.inputs : MinSeq(job.out) = MinSeq(m)
    BY <2>1 DEF JobOK
  <2> QED  BY <1>1, <2>3, <2>4, BufferedNames
<1>4. CASE EvictSegment
  <2>1. local_segments \in Seq(Segs) /\ Ordered(local_segments)
    BY DEF Data
  <2>2. NamesOf(local_segments') = SegmentNames \ {First(todo)} /\ job' = job
    BY <1>4, <2>1, EvictedDeque DEF EvictSegment
  <2>3. SegmentNames' \subseteq SegmentNames
    BY <2>2 DEF SegmentNames, NamesOf
  <2> QED  BY <1>1, <2>2, <2>3, BufferedNames
<1>5. CASE MarkUploaded \/ MarkUploadedFails
  <2>1. SegmentNames' = SegmentNames /\ job' = job
    BY <1>5, MarkedDeque DEF MarkUploaded, MarkUploadedFails, Data, NamesOf, SegmentNames
  <2> QED  BY <1>1, <2>1, BufferedNames
<1>6. CASE UNCHANGED <<local_segments, job>>
  <2>1. SegmentNames' = SegmentNames
    BY <1>6 DEF SegmentNames
  <2> QED  BY <1>1, <1>6, <2>1, BufferedNames
<1> QED
  BY <1>2, <1>3, <1>4, <1>5, <1>6
  DEF Compact, Merge, BumpRename, UnlinkInput, Evict, ChooseEviction, UnlinkEvicted,
      EndEviction, Sync, ListBucket, ListBucketFails, Upload, UploadFails, EndUploads,
      DeleteOrphan

\* Open takes the next seq after every footer on the disk.
LEMMA OpenBuffered ==
  ASSUME StoreInv, Open
  PROVE  Buffered'
<1> USE DEF StoreInv
<1>1. /\ ram = {} /\ sealed = {} /\ fpc = "idle" /\ job = NoJob
      /\ UNCHANGED <<ram, sealed, fpc, job>>
  BY DEF Open, Tasks, Buffered
<1> DEFINE S == {0} \cup {FooterMax(n, disk[n]) : n \in DOMAIN disk}
                    \cup {cat[n].hi : n \in KeptRows}
<1>2. \A n \in DOMAIN disk : n \in Names /\ FooterMax(n, disk[n]) \in Seqs
                             /\ MinSeq(n) <= FooterMax(n, disk[n])
  BY FooterInRange DEF Data, InRange
<1>3. \A n \in KeptRows : cat[n].hi \in Seqs
  BY DEF KeptRows, Data
<1>4. S \subseteq 0..MaxSeq /\ S # {}
  BY <1>2, <1>3, StoreAssumption DEF Seqs
<1>5. next_seq' = 1 + Max(S)
  BY DEF Open, recover_next_seq
<1>6. Max(S) \in S /\ \A x \in S : x <= Max(S)
  <2>1. S \in SUBSET Int /\ MaxSeq \in Int /\ \A x \in S : x <= MaxSeq
    BY <1>4, StoreAssumption
  <2> HIDE DEF S
  <2> QED  BY <1>4, <2>1, MaxOfInts
<1>7. Max(S) \in 0..MaxSeq
  BY <1>4, <1>6
<1>8. \A n \in DOMAIN disk : FooterMax(n, disk[n]) <= Max(S)
  BY <1>6
<1> HIDE DEF S
<1>10. next_seq' \in 1..(MaxSeq + 1)
  BY <1>5, <1>7, StoreAssumption
<1>11. \A n \in DOMAIN disk : MinSeq(n) < next_seq'
  <2>1. \A n \in DOMAIN disk : MinSeq(n) \in Nat /\ FooterMax(n, disk[n]) \in Nat
    BY <1>2, NameTypes, StoreAssumption DEF Seqs
  <2> QED  BY <1>2, <1>5, <1>7, <1>8, <2>1
<1>9. SegmentNames' = DOMAIN disk
  BY OpenedDeque DEF NamesOf, SegmentNames
<1> QED  BY <1>1, <1>9, <1>10, <1>11 DEF Buffered, Later, NoJob

LEMMA Longer ==
  ASSUME NEW a \in Int, NEW b \in Int, a <= b
  PROVE  1..(a - 1) \subseteq 1..(b - 1)
  OBVIOUS

LEMMA NextBuffered ==
  ASSUME StoreInv, Next
  PROVE  Buffered'
<1> USE DEF StoreInv
<1>1. CASE UNCHANGED <<next_seq, ram, sealed, fpc, local_segments, job>>
  BY <1>1, BufferedNames DEF SegmentNames
<1>2. CASE Stopped \/ CutSync \/ Crash
  <2>1. /\ next_seq' = 1 /\ ram' = {} /\ local_segments' = <<>> /\ sealed' = {}
        /\ fpc' = "idle" /\ job' = NoJob
    BY <1>2 DEF Stopped, CutSync, Crash, Down
  <2>2. SegmentNames' = {}
    BY <2>1 DEF SegmentNames
  <2> QED  BY <2>1, <2>2, StoreAssumption DEF Buffered, Later, NoJob
<1>3. CASE Reseed
  <2>1. UNCHANGED <<ram, sealed, fpc, local_segments, job>>
    BY <1>3 DEF Reseed
  <2> DEFINE S == {next_seq} \cup {cat[n].hi + 1 : n \in DOMAIN cat}
  <2>2. S \subseteq 1..(MaxSeq + 1) /\ S # {}
    BY StoreAssumption DEF Buffered, Data, Seqs
  <2>3. Max(S) \in S /\ \A x \in S : x <= Max(S)
    <3>1. S \in SUBSET Int /\ MaxSeq + 1 \in Int /\ \A x \in S : x <= MaxSeq + 1
      BY <2>2, StoreAssumption
    <3> HIDE DEF S
    <3> QED  BY <2>2, <3>1, MaxOfInts
  <2>4. next_seq' = Max(S)
    BY <1>3 DEF Reseed
  <2>5. next_seq' \in 1..(MaxSeq + 1) /\ next_seq <= next_seq'
    <3>1. next_seq \in S
      OBVIOUS
    <3> HIDE DEF S
    <3> QED  BY <2>2, <2>3, <2>4, <3>1
  <2>6. SegmentNames' = SegmentNames
    BY <2>1 DEF SegmentNames
  <2>7. \A n \in SegmentNames \cup job.inputs : MinSeq(n) \in Nat
    <3>1. \A n \in SegmentNames : n \in Names
      BY EntryTypes DEF SegmentNames, Data
    <3>2. job.inputs \in SUBSET Names
      BY DEF Tasks, JobOK, NoJob
    <3> QED  BY <3>1, <3>2, NameTypes
  <2> HIDE DEF S
  <2>8. ram' \subseteq 1..(next_seq' - 1) /\ sealed' \subseteq 1..(next_seq' - 1)
    <3>1. next_seq \in Int /\ next_seq' \in Int
      BY <2>5, StoreAssumption DEF Buffered
    <3>2. 1..(next_seq - 1) \subseteq 1..(next_seq' - 1)
      BY <2>5, <3>1, Longer
    <3>3. ram \subseteq 1..(next_seq - 1) /\ sealed \subseteq 1..(next_seq - 1)
      BY DEF Buffered
    <3> QED  BY <2>1, <3>2, <3>3
  <2>9. Later(SegmentNames \cup job.inputs, next_seq')
    BY <2>5, <2>7, StoreAssumption DEF Buffered, Later
  <2> QED  BY <2>1, <2>5, <2>6, <2>8, <2>9 DEF Buffered, Later
<1> QED
  BY <1>1, <1>2, <1>3, FlushBuffered, CompactBuffered, OpenBuffered
  DEF Next, Maintain, Shutdown, Reconcile, StartCycle, NothingToFlush, StartStop, AbortTask,
      StartQuery, EndQuery,
      LoseDisk, ReconcileList, ReconcileListFails, ReconcileDrop, ReconcileAdopt, EndReconcile

-----------------------------------------------------------------------------
(* The tasks. *)

\* The steps at which the maintenance task holds names or files.
Busy == {"merge", "bump", "swap", "splice", "unlink", "drop", "orphans", "mark",
         "evwait", "evunlink"}

LEMMA TasksFree ==
  ASSUME Tasks, up', UNCHANGED job, todo' \subseteq Names, listed' \subseteq Names,
         fby' = "task" \/ (fby' = "maintenance" /\ mpc' = "flush" /\ fpc' # "idle"), mpc' \notin Busy
  PROVE  Tasks'
  BY DEF Tasks, JobOK, Busy

\* Writers, the flusher and queries leave the maintenance task its job and its names.
LEMMA TasksKept ==
  ASSUME Tasks, up, UNCHANGED <<up, job, todo, listed, bucket, mpc>>,
         fby' = "task" \/ (fby' = "maintenance" /\ mpc = "flush" /\ fpc' # "idle"),
         SegmentNames \subseteq SegmentNames'
  PROVE  Tasks'
<1>1. JobOK => JobOK'
  BY DEF JobOK
<1> QED  BY <1>1 DEF Tasks

LEMMA CommittedNames ==
  ASSUME StoreInv, CommitFlush
  PROVE  SegmentNames' = SegmentNames \cup {<<0, Min(sealed)>>}
<1> DEFINE q == local_segments
           s == Segment(<<0, Min(sealed)>>, Max(sealed), "LOCAL")
<1>1. s \in Segs /\ s.name = <<0, Min(sealed)>>
  BY SealedFile DEF StoreInv, CommitFlush, Segment
<1>2. q' = Append(q, s) /\ q \in Seq(Segs)
  BY DEF CommitFlush, StoreInv, Data
<1> HIDE DEF s
<1>3. /\ DOMAIN q = 1..Len(q) /\ DOMAIN q' = 1..(Len(q) + 1) /\ Len(q) \in Nat
      /\ q'[Len(q) + 1] = s /\ \A i \in 1..Len(q) : q'[i] = q[i]
  BY <1>1, <1>2
<1>4. \A i \in 1..(Len(q) + 1) : i \in 1..Len(q) \/ i = Len(q) + 1
  BY <1>3
<1>5. 1..Len(q) \subseteq 1..(Len(q) + 1) /\ Len(q) + 1 \in 1..(Len(q) + 1)
  BY <1>3
<1> QED  BY <1>1, <1>3, <1>4, <1>5 DEF SegmentNames

LEMMA FlushTasks ==
  ASSUME StoreInv, AppendRow \/ Flush \/ Seal("maintenance")
  PROVE  Tasks'
<1> USE DEF StoreInv
<1>1. up /\ up'
  <2>1. Flush => fpc # "idle" \/ up
    BY DEF Flush, Seal, WriteSegment, UpsertSegment, RestoreFlush, CommitFlush, Publish,
           MayPublish
  <2>2. up
    BY <2>1 DEF AppendRow, Seal, Tasks
  <2> QED
    BY <2>2 DEF AppendRow, Flush, Seal, WriteSegment, UpsertSegment, RestoreFlush,
                CommitFlush, Publish
<1>2. UNCHANGED <<up, job, todo, listed, bucket>>
  BY DEF AppendRow, Flush, Seal, WriteSegment, UpsertSegment, RestoreFlush, CommitFlush, Publish
<1>3. CASE AppendRow \/ Seal("task") \/ Seal("maintenance") \/ WriteSegment \/ UpsertSegment
  <2>1. UNCHANGED <<mpc, local_segments>>
    BY <1>3 DEF AppendRow, Seal, WriteSegment, UpsertSegment
  <2>2. fby' = "task" \/ (fby' = "maintenance" /\ mpc = "flush" /\ fpc' # "idle")
    BY <1>3 DEF AppendRow, Seal, WriteSegment, UpsertSegment, Tasks
  <2>3. SegmentNames' = SegmentNames
    BY <2>1 DEF SegmentNames
  <2> QED  BY <1>1, <1>2, <2>1, <2>2, <2>3, TasksKept
<1>4. CASE CommitFlush
  <2>1. UNCHANGED <<fby, mpc>> /\ fpc' = "committed"
    BY <1>4 DEF CommitFlush
  <2>2. SegmentNames \subseteq SegmentNames'
    BY <1>4, CommittedNames
  <2> QED  BY <1>1, <1>2, <2>1, <2>2, TasksKept DEF Tasks
<1>5. CASE RestoreFlush \/ Publish
  <2>1. SegmentNames' = SegmentNames /\ fby' = "task"
    BY <1>5 DEF RestoreFlush, Publish, SegmentNames
  <2>2. CASE fby = "task"
    <3>1. mpc' = mpc
      BY <1>5, <2>2 DEF RestoreFlush, Publish, AfterFlush
    <3> QED  BY <1>1, <1>2, <2>1, <3>1, TasksKept
  <2>3. CASE fby # "task"
    <3>1. mpc' \in {"list", "compact", "idle"}
      BY <1>5, <2>3 DEF RestoreFlush, Publish, AfterFlush
    <3> QED  BY <1>1, <1>2, <2>1, <3>1, TasksFree DEF Tasks, Busy
  <2> QED  BY <2>2, <2>3
<1> QED  BY <1>3, <1>4, <1>5 DEF Flush

LEMMA CompactTasks ==
  ASSUME StoreInv, Compact
  PROVE  Tasks'
<1> USE DEF StoreInv
<1>1. up /\ up' /\ fby = "task" /\ UNCHANGED <<fby, listed, bucket, up>>
  BY DEF Compact, PlanJob, Merge, BumpRename, CommitSwap, CommitSwapFails, AtSplice,
         UnlinkInput, Tasks
<1>2. CASE PlanJob
  <2>1. todo' = todo /\ SegmentNames' = SegmentNames
    BY <1>2 DEF PlanJob, SegmentNames
  <2>2. CASE plan(local_segments) = {}
    <3>1. job' = NoJob /\ mpc' = "list"
      BY <1>2, <2>2 DEF PlanJob
    <3> QED  BY <1>1, <2>1, <3>1 DEF Tasks
  <2>3. CASE plan(local_segments) # {}
    <3>1. job' \in plan(local_segments) /\ mpc' \in {"bump", "merge"}
      BY <1>2, <2>3 DEF PlanJob
    <3>2. JobOK' /\ job'.inputs \subseteq NamesOf(local_segments)
      BY <3>1, PlannedJob DEF Data, JobOK
    <3>3. job'.inputs \subseteq SegmentNames'
      BY <2>1, <3>2 DEF NamesOf, SegmentNames
    <3> QED  BY <1>1, <2>1, <3>1, <3>2, <3>3 DEF Tasks
  <2> QED  BY <2>2, <2>3
<1>3. CASE Merge \/ BumpRename
  <2>1. /\ UNCHANGED <<job, todo>> /\ SegmentNames' = SegmentNames
        /\ mpc' \in {"swap", "splice", "idle"}
    BY <1>3 DEF Merge, BumpRename, SegmentNames
  <2>2. JobOK /\ job.inputs \subseteq SegmentNames
    BY <1>3 DEF Merge, BumpRename, Tasks
  <2> QED  BY <1>1, <2>1, <2>2 DEF Tasks, JobOK
<1>4. CASE CommitSwap
  <2>1. JobOK /\ job' = job
    BY <1>4 DEF CommitSwap, AtSplice, Tasks
  <2>2. CASE mpc = "splice"
    <3>1. todo' = todo /\ mpc' = "compact"
      BY <1>4, <2>2 DEF CommitSwap
    <3> QED  BY <1>1, <2>1, <3>1, TasksFree DEF Tasks, Busy
  <2>3. CASE mpc # "splice"
    <3>1. todo' = job.inputs /\ mpc' = "unlink"
      BY <1>4, <2>3 DEF CommitSwap
    <3> QED  BY <1>1, <2>1, <3>1 DEF Tasks, JobOK
  <2> QED  BY <2>2, <2>3
<1>5. CASE CommitSwapFails
  <2>1. mpc' = "idle" /\ UNCHANGED <<job, todo>>
    BY <1>5 DEF CommitSwapFails
  <2> QED  BY <1>1, <2>1, TasksFree DEF Tasks, Busy
<1>6. CASE UnlinkInput
  <2>1. /\ todo' \subseteq todo /\ UNCHANGED job
        /\ mpc' = IF todo' = {} THEN "compact" ELSE "unlink"
    BY <1>6 DEF UnlinkInput
  <2>2. todo \subseteq job.inputs
    BY <1>6 DEF UnlinkInput, Tasks
  <2> QED  BY <1>1, <2>1, <2>2 DEF Tasks, JobOK
<1> QED  BY <1>2, <1>3, <1>4, <1>5, <1>6 DEF Compact

LEMMA SyncTasks ==
  ASSUME StoreInv, Sync
  PROVE  Tasks'
<1> USE DEF StoreInv
<1>1. /\ up /\ up' /\ fby = "task" /\ UNCHANGED <<up, fby, job>>
      /\ todo' \subseteq Names /\ listed' \subseteq Names
  <2>1. DOMAIN bucket \subseteq Names /\ Archivable \subseteq Names
    BY DEF Data, InRange, Archivable
  <2> QED
    BY <2>1 DEF Sync, ListBucket, ListBucketFails, Upload, UploadFails, MarkUploaded,
       MarkUploadedFails, MarkDeque, EndUploads, DeleteOrphan, Tasks
<1>2. CASE ListBucket \/ ListBucketFails \/ UploadFails \/ MarkUploaded \/ MarkUploadedFails
  <2>1. mpc' \notin Busy
    BY <1>2 DEF ListBucket, ListBucketFails, AfterSync, UploadFails, MarkUploaded,
       MarkUploadedFails, MarkDeque, Busy
  <2> QED  BY <1>1, <2>1, TasksFree
<1>3. CASE Upload
  <2>1. todo' # {} /\ mpc' = "mark"
    BY <1>3 DEF Upload
  <2> QED  BY <1>1, <2>1 DEF Tasks, JobOK
<1>4. CASE EndUploads \/ DeleteOrphan
  <2>1. mpc' \in {"orphans", "down", "evict"} /\ (mpc' = "orphans" => todo' # {})
    BY <1>4 DEF EndUploads, DeleteOrphan, AfterSync
  <2> QED  BY <1>1, <2>1 DEF Tasks, JobOK
<1> QED  BY <1>2, <1>3, <1>4 DEF Sync

LEMMA EvictTasks ==
  ASSUME StoreInv, Evict
  PROVE  Tasks'
<1> USE DEF StoreInv
<1>1. up /\ up' /\ fby = "task" /\ UNCHANGED <<up, fby, job, listed>>
  BY DEF Evict, ChooseEviction, EvictSegment, UnlinkEvicted, EndEviction, Tasks
<1>2. ASSUME NEW n \in Evictable, ChooseEviction(n)
      PROVE  Tasks'
  <2>1. todo' = {n} /\ mpc' = "evwait"
    BY <1>2 DEF ChooseEviction
  <2>2. n \in Names /\ Level(n) >= 1
    BY DEF Evictable, Archivable, Data
  <2> QED  BY <1>1, <2>1, <2>2 DEF Tasks, JobOK
<1>3. CASE EvictSegment
  <2>1. todo' = todo /\ mpc' = "evunlink" /\ mpc = "evwait"
    BY <1>3 DEF EvictSegment
  <2> QED  BY <1>1, <2>1 DEF Tasks, JobOK
<1>4. CASE UnlinkEvicted \/ EndEviction
  <2>1. todo' \subseteq todo /\ mpc' \in {"evict", "idle"}
    BY <1>4 DEF UnlinkEvicted, EndEviction
  <2> QED  BY <1>1, <2>1, TasksFree DEF Tasks, Busy
<1> QED  BY <1>2, <1>3, <1>4 DEF Evict

LEMMA ReconcileTasks ==
  ASSUME StoreInv, Reconcile
  PROVE  Tasks'
<1> USE DEF StoreInv
<1>1. up /\ up' /\ fby = "task" /\ UNCHANGED <<up, fby, job>>
  BY DEF Reconcile, ReconcileList, ReconcileListFails, ReconcileDrop, ReconcileAdopt,
         EndReconcile, Reseed, Tasks
<1>2. CASE ReconcileList
  <2>1. /\ mpc' = "drop" /\ bucket' = bucket
        /\ todo' = {n \in Archivable \cup DOMAIN bucket : Redundant(n)}
        /\ listed' = {n \in DOMAIN bucket \ Archivable : ~Redundant(n)}
    BY <1>2 DEF ReconcileList
  <2>2. DOMAIN bucket \subseteq Names /\ Archivable \subseteq Names
    BY DEF Data, InRange, Archivable
  <2>3. todo' \subseteq Names /\ listed' \subseteq Names /\ listed' \subseteq DOMAIN bucket' \ todo'
    BY <2>1, <2>2
  <2> QED  BY <1>1, <2>1, <2>3 DEF Tasks, JobOK
<1>3. CASE ReconcileListFails \/ EndReconcile \/ Reseed
  <2>1. mpc' \in {"reseed", "idle"} /\ UNCHANGED <<todo, listed>>
    BY <1>3 DEF ReconcileListFails, EndReconcile, Reseed
  <2> QED  BY <1>1, <2>1, TasksFree DEF Tasks, Busy
<1>4. CASE ReconcileDrop
  <2>1. mpc = "drop" /\ mpc' = "drop" /\ listed' = listed /\ todo' = todo \ {First(todo)} /\ todo # {}
    BY <1>4 DEF ReconcileDrop
  <2>2. First(todo) \in todo
    BY <2>1, TodoNames
  <2>3. DOMAIN bucket \ {First(todo)} \subseteq DOMAIN bucket'
    BY <1>4, DropDomain DEF ReconcileDrop
  <2>4. listed \subseteq DOMAIN bucket \ todo
    BY <2>1 DEF Tasks
  <2> QED  BY <1>1, <2>1, <2>2, <2>3, <2>4 DEF Tasks, JobOK
<1>5. CASE ReconcileAdopt
  <2>1. mpc = "drop" /\ mpc' = "drop" /\ listed' \subseteq listed /\ UNCHANGED <<todo, bucket>>
    BY <1>5 DEF ReconcileAdopt
  <2> QED  BY <1>1, <2>1 DEF Tasks, JobOK
<1> QED  BY <1>2, <1>3, <1>4, <1>5 DEF Reconcile

LEMMA NextTasks ==
  ASSUME StoreInv, Next
  PROVE  Tasks'
<1> USE DEF StoreInv
<1>1. CASE StartCycle \/ StartStop \/ AbortTask \/ NothingToFlush
  <2>1. up /\ up' /\ UNCHANGED <<fby, job, todo, listed>> /\ mpc' \in {"flush", "list", "compact"}
    BY <1>1 DEF StartCycle, StartStop, AbortTask, NothingToFlush
  <2>2. CASE fby = "task"
    BY <2>1, <2>2, TasksFree DEF Tasks, Busy
  <2>3. CASE StartCycle \/ StartStop \/ AbortTask
    BY <2>1, <2>3, TasksFree DEF StartCycle, StartStop, AbortTask, Awaiting, Tasks, Busy
  <2>4. CASE NothingToFlush /\ fby = "maintenance"
    BY <2>4 DEF NothingToFlush, Tasks
  <2>5. fby \in {"task", "maintenance"}
    BY DEF Tasks
  <2> QED  BY <1>1, <2>2, <2>3, <2>4, <2>5
<1>2. CASE Stopped \/ CutSync \/ Crash
  BY <1>2 DEF Stopped, CutSync, Crash, Down, Tasks
<1>3. CASE LoseDisk
  BY <1>3 DEF LoseDisk, Tasks, JobOK, SegmentNames
<1>4. CASE StartQuery \/ EndQuery
  <2>1. up /\ UNCHANGED <<up, job, todo, listed, bucket, mpc, fpc, fby, local_segments>>
    BY <1>4 DEF StartQuery, EndQuery, Tasks
  <2>2. SegmentNames' = SegmentNames
    BY <2>1 DEF SegmentNames
  <2> QED  BY <2>1, <2>2, TasksKept DEF Tasks
<1>5. CASE Open
  <2>1. mpc' = "reconcile" /\ up' /\ UNCHANGED <<fby, job, todo, listed>>
    BY <1>5 DEF Open
  <2>2. fby = "task"
    BY <1>5 DEF Open, Tasks
  <2> QED  BY <2>1, <2>2, TasksFree DEF Tasks, Busy
<1> QED
  BY <1>1, <1>2, <1>3, <1>4, <1>5, FlushTasks, CompactTasks, SyncTasks, EvictTasks,
     ReconcileTasks DEF Next, Maintain, Shutdown

-----------------------------------------------------------------------------
(* The files. *)

\* A file that the flusher has written is not among the inputs of a job, and not among
\* the names an eviction or an unlink has left.
LEMMA SealedApart ==
  ASSUME StoreInv, fpc \in {"written", "cataloged"}
  PROVE  /\ <<0, Min(sealed)>> \notin job.inputs
         /\ mpc \in {"unlink", "evunlink"} => <<0, Min(sealed)>> \notin todo
<1> DEFINE n == <<0, Min(sealed)>>
<1>1. Min(sealed) \in sealed /\ Min(sealed) \in Nat /\ MinSeq(n) = Min(sealed) /\ Level(n) = 0
  BY SealedFile, StoreAssumption DEF StoreInv, Seqs
<1>2. Later(job.inputs, Min(sealed))
  BY <1>1 DEF StoreInv, Buffered, Later
<1>3. n \notin job.inputs
  BY <1>1, <1>2 DEF Later
<1>4. mpc = "unlink" => n \notin todo
  BY <1>3 DEF StoreInv, Tasks
<1>5. ASSUME mpc = "evunlink"
      PROVE  n \notin todo
  <2>1. \A m \in todo : Level(m) >= 1
    BY <1>5 DEF StoreInv, Tasks
  <2> QED  BY <1>1, <2>1
<1> HIDE DEF n
<1>6. /\ n \notin job.inputs
      /\ mpc \in {"unlink", "evunlink"} => n \notin todo
  BY <1>3, <1>4, <1>5
<1> QED  BY <1>6 DEF n

\* A step that changes no file and no name of the deque.
LEMMA FilesKept ==
  ASSUME Files, SegmentNames' = SegmentNames, UNCHANGED <<disk, snap>>,
         mpc # "splice",
         mpc' \notin {"swap", "splice", "unlink", "evunlink"},
         fpc' \in {"written", "cataloged"} =>
           fpc \in {"written", "cataloged"} /\ sealed' = sealed
  PROVE  Files'
  BY DEF Files, ReadSafe, Holding

LEMMA FlushFiles ==
  ASSUME StoreInv, AppendRow \/ Flush \/ Seal("maintenance")
  PROVE  Files'
<1> USE DEF StoreInv
<1>1. CASE AppendRow \/ Seal("task") \/ Seal("maintenance")
  <2>1. /\ SegmentNames' = SegmentNames /\ UNCHANGED <<disk, snap, mpc, job, todo>>
        /\ fpc' \in {"written", "cataloged"} => fpc' = fpc /\ sealed' = sealed
    BY <1>1 DEF AppendRow, Seal, SegmentNames
  <2> QED  BY <2>1 DEF Files, ReadSafe
<1>2. CASE WriteSegment
  <2>1. SegmentNames' = SegmentNames /\ UNCHANGED <<snap, mpc, job, todo, sealed>>
    BY <1>2 DEF WriteSegment, SegmentNames
  <2>2. DOMAIN disk' = DOMAIN disk \cup {<<0, Min(sealed)>>}
    BY <1>2, PutDomain DEF WriteSegment
  <2> QED  BY <2>1, <2>2 DEF Files, ReadSafe
<1>3. CASE UpsertSegment
  <2>1. /\ SegmentNames' = SegmentNames /\ UNCHANGED <<disk, snap, mpc, job, todo, sealed>>
        /\ fpc = "written"
    BY <1>3 DEF UpsertSegment, SegmentNames
  <2> QED  BY <2>1 DEF Files, ReadSafe
<1>4. CASE RestoreFlush \/ Publish
  <2>1. SegmentNames' = SegmentNames /\ UNCHANGED <<disk, snap, job, todo>> /\ fpc' = "idle"
    BY <1>4 DEF RestoreFlush, Publish, SegmentNames
  <2>2. CASE fby = "task"
    <3>1. mpc' = mpc
      BY <1>4, <2>2 DEF RestoreFlush, Publish, AfterFlush
    <3> QED  BY <2>1, <3>1 DEF Files, ReadSafe
  <2>3. CASE fby # "task"
    <3>1. mpc' \in {"list", "compact", "idle"} /\ (mpc = "splice" => mpc' = mpc)
      BY <1>4, <2>3 DEF RestoreFlush, Publish, AfterFlush, Tasks
    <3> QED  BY <2>1, <3>1, FilesKept
  <2> QED  BY <2>2, <2>3
<1>5. CASE CommitFlush
  <2>1. SegmentNames' = SegmentNames \cup {<<0, Min(sealed)>>}
    BY <1>5, CommittedNames
  <2>2. /\ UNCHANGED <<disk, snap, mpc, job, todo>>
        /\ fpc = "cataloged" /\ fpc' = "committed"
    BY <1>5 DEF CommitFlush
  <2>3. /\ <<0, Min(sealed)>> \in DOMAIN disk
        /\ mpc \in {"unlink", "evunlink"} => <<0, Min(sealed)>> \notin todo
    BY <2>2, SealedApart DEF Files
  <2> QED  BY <2>1, <2>2, <2>3 DEF Files, ReadSafe
<1> QED  BY <1>1, <1>2, <1>3, <1>4, <1>5 DEF Flush

LEMMA CompactFiles ==
  ASSUME StoreInv, Compact
  PROVE  Files'
<1> USE DEF StoreInv
<1>1. UNCHANGED <<snap, fpc, sealed>>
  BY DEF Compact, PlanJob, Merge, BumpRename, CommitSwap, CommitSwapFails, UnlinkInput
<1>2. CASE PlanJob
  <2>1. /\ SegmentNames' = SegmentNames /\ UNCHANGED disk /\ mpc = "compact"
        /\ mpc' \in {"list", "bump", "merge"}
    BY <1>2 DEF PlanJob, SegmentNames
  <2> QED  BY <1>1, <2>1, FilesKept
<1>3. CASE Merge
  <2>1. SegmentNames' = SegmentNames /\ job' = job /\ mpc = "merge"
    BY <1>3 DEF Merge, SegmentNames
  <2>2. CASE job.inputs \subseteq DOMAIN disk
    <3> DEFINE rows == UNION {disk[n] : n \in job.inputs}
    <3>0. disk' = Put(disk, job.out, rows) /\ mpc' = "swap"
      BY <1>3, <2>2 DEF Merge
    <3> HIDE DEF rows
    <3>1. DOMAIN disk' = DOMAIN disk \cup {job.out} /\ mpc' = "swap"
      BY <3>0 DEF Put
    <3> QED  BY <1>1, <2>1, <3>1 DEF Files, ReadSafe, Holding
  <2>3. CASE ~(job.inputs \subseteq DOMAIN disk)
    <3>1. UNCHANGED disk /\ mpc' = "idle"
      BY <1>3, <2>3 DEF Merge
    <3> QED  BY <1>1, <2>1, <3>1, FilesKept
  <2> QED  BY <2>2, <2>3
<1>4. CASE BumpRename
  <2>1. SegmentNames' = SegmentNames /\ job' = job /\ mpc = "bump" /\ snap = NoSnap
    BY <1>4 DEF BumpRename, SegmentNames
  <2>2. CASE job.inputs \subseteq DOMAIN disk
    <3>1. DOMAIN disk' = (DOMAIN disk \ job.inputs) \cup {job.out} /\ mpc' = "splice"
      <4>1. /\ disk' = Put(Drop(disk, job.inputs), job.out, disk[First(job.inputs)])
            /\ mpc' = "splice"
        BY <1>4, <2>2 DEF BumpRename
      <4>2. DOMAIN Drop(disk, job.inputs) = DOMAIN disk \ job.inputs
        BY DropDomain
      <4>3. \A f, v : DOMAIN Put(f, job.out, v) = DOMAIN f \cup {job.out}
        BY DEF Put
      <4> QED  BY <4>1, <4>2, <4>3
    <3>2. SegmentNames \ job.inputs \subseteq DOMAIN disk'
      BY <2>1, <3>1 DEF Files
    <3>3. fpc \in {"written", "cataloged"} => <<0, Min(sealed)>> \in DOMAIN disk'
      BY <3>1, SealedApart DEF Files
    <3> QED  BY <1>1, <2>1, <3>1, <3>2, <3>3 DEF Files, ReadSafe
  <2>3. CASE ~(job.inputs \subseteq DOMAIN disk)
    <3>1. UNCHANGED disk /\ mpc' = "idle"
      BY <1>4, <2>3 DEF BumpRename
    <3> QED  BY <1>1, <2>1, <3>1, FilesKept
  <2> QED  BY <2>2, <2>3
<1>5. CASE CommitSwap \/ CommitSwapFails
  <2>1. JobOK /\ mpc \in {"swap", "splice"} /\ job.inputs \subseteq SegmentNames
    BY <1>5 DEF CommitSwap, CommitSwapFails, AtSplice, Tasks
  <2>2. UNCHANGED <<disk, job>> /\ (mpc = "swap" => snap = NoSnap)
    BY <1>5 DEF CommitSwap, CommitSwapFails, AtSplice
  <2>3. SegmentNames' = (SegmentNames \ job.inputs) \cup {job.out}
    <3>1. NamesOf(Spliced) = (SegmentNames \ job.inputs) \cup {job.out}
      BY <2>1, SplicedDeque DEF Data, JobOK
    <3> QED  BY <1>5, <3>1 DEF CommitSwap, CommitSwapFails, NamesOf, SegmentNames
  <2>4. SegmentNames' \subseteq DOMAIN disk'
    BY <2>1, <2>2, <2>3 DEF Files
  <2>5. snap = NoSnap
    BY <2>1, <2>2 DEF Files, Holding
  <2>6. /\ mpc' \in {"compact", "idle", "unlink"}
        /\ mpc' = "unlink" => todo' = job.inputs
    BY <1>5 DEF CommitSwap, CommitSwapFails
  <2>7. job.out \notin job.inputs
    <3>1. \A m \in job.inputs : Level(m) + 1 = Level(job.out) /\ Level(m) \in Nat
      BY <2>1, NameTypes DEF JobOK
    <3> QED  BY <3>1
  <2>8. mpc' = "unlink" => todo' \cap SegmentNames' = {}
    BY <2>3, <2>6, <2>7
  <2> QED  BY <1>1, <2>2, <2>4, <2>5, <2>6, <2>8 DEF Files, ReadSafe
<1>6. CASE UnlinkInput
  <2>1. /\ SegmentNames' = SegmentNames /\ mpc = "unlink" /\ mpc' \in {"unlink", "compact"}
        /\ todo' \subseteq todo /\ todo # {}
    BY <1>6, TodoNames DEF UnlinkInput, SegmentNames, Tasks
  <2>2. DOMAIN disk' = DOMAIN disk \ {First(todo)} /\ First(todo) \in todo
    BY <1>6, <2>1, DropDomain, TodoNames DEF UnlinkInput
  <2>3. snap = NoSnap /\ todo \cap SegmentNames = {}
    BY <2>1 DEF Files, Holding
  <2>4. fpc \in {"written", "cataloged"} => <<0, Min(sealed)>> \in DOMAIN disk'
    BY <2>1, <2>2, SealedApart DEF Files
  <2> QED  BY <1>1, <2>1, <2>2, <2>3, <2>4 DEF Files, ReadSafe
<1> QED  BY <1>2, <1>3, <1>4, <1>5, <1>6 DEF Compact

LEMMA SyncFiles ==
  ASSUME StoreInv, Sync \/ Reconcile
  PROVE  Files'
<1> USE DEF StoreInv
<1>1. UNCHANGED <<disk, snap, fpc, sealed>>
  BY DEF Sync, ListBucket, ListBucketFails, Upload, UploadFails, MarkUploaded,
     MarkUploadedFails, EndUploads, DeleteOrphan, Reconcile, ReconcileList,
     ReconcileListFails, ReconcileDrop, ReconcileAdopt, EndReconcile, Reseed
<1>2. /\ mpc \in {"list", "upload", "mark", "orphans", "reconcile", "drop", "reseed"}
      /\ mpc' \in {"upload", "mark", "orphans", "drop", "reseed", "idle", "down", "evict"}
  BY DEF Sync, ListBucket, ListBucketFails, Upload, UploadFails, MarkDeque, MarkUploaded,
     MarkUploadedFails, EndUploads, DeleteOrphan, AfterSync, Reconcile, ReconcileList,
     ReconcileListFails, ReconcileDrop, ReconcileAdopt, EndReconcile, Reseed
<1>3. SegmentNames' = SegmentNames
  <2>1. CASE MarkDeque
    BY <2>1, MarkedDeque DEF Data, NamesOf, SegmentNames
  <2>2. CASE UNCHANGED local_segments
    BY <2>2 DEF SegmentNames
  <2>3. MarkDeque \/ UNCHANGED local_segments
    BY DEF Sync, ListBucket, ListBucketFails, Upload, UploadFails, MarkUploaded,
       MarkUploadedFails, EndUploads, DeleteOrphan, Reconcile, ReconcileList,
       ReconcileListFails, ReconcileDrop, ReconcileAdopt, EndReconcile, Reseed
  <2> QED  BY <2>1, <2>2, <2>3
<1> QED  BY <1>1, <1>2, <1>3, FilesKept

LEMMA EvictFiles ==
  ASSUME StoreInv, Evict
  PROVE  Files'
<1> USE DEF StoreInv
<1>1. UNCHANGED <<snap, fpc, sealed>>
  BY DEF Evict, ChooseEviction, EvictSegment, UnlinkEvicted, EndEviction
<1>2. CASE (\E n \in Evictable : ChooseEviction(n)) \/ EndEviction
  <2>1. /\ SegmentNames' = SegmentNames /\ UNCHANGED disk /\ mpc = "evict"
        /\ mpc' \in {"evwait", "idle"}
    BY <1>2 DEF ChooseEviction, EndEviction, SegmentNames
  <2> QED  BY <1>1, <2>1, FilesKept
<1>3. CASE EvictSegment
  <2>1. /\ UNCHANGED <<disk, todo>> /\ snap = NoSnap /\ mpc = "evwait" /\ mpc' = "evunlink"
    BY <1>3 DEF EvictSegment
  <2>2. SegmentNames' = SegmentNames \ {First(todo)}
    <3>1. NamesOf(local_segments') = SegmentNames \ {First(todo)}
      BY <1>3, EvictedDeque DEF EvictSegment, Data
    <3> QED  BY <3>1 DEF NamesOf, SegmentNames
  <2>3. todo = {First(todo)}
    <3>1. todo # {} /\ \A m, n \in todo : m = n
      BY <2>1 DEF Tasks
    <3> QED  BY <3>1, TodoNames
  <2> QED  BY <1>1, <2>1, <2>2, <2>3 DEF Files, ReadSafe
<1>4. CASE UnlinkEvicted
  <2>1. SegmentNames' = SegmentNames /\ mpc = "evunlink" /\ mpc' = "evict"
    BY <1>4 DEF UnlinkEvicted, SegmentNames
  <2>2. DOMAIN disk' = DOMAIN disk \ todo
    BY <1>4, DropDomain DEF UnlinkEvicted
  <2>3. snap = NoSnap /\ todo \cap SegmentNames = {}
    BY <2>1 DEF Files, Holding
  <2>4. fpc \in {"written", "cataloged"} => <<0, Min(sealed)>> \in DOMAIN disk'
    BY <2>1, <2>2, SealedApart DEF Files
  <2> QED  BY <1>1, <2>1, <2>2, <2>3, <2>4 DEF Files, ReadSafe, Holding
<1> QED  BY <1>2, <1>3, <1>4 DEF Evict

LEMMA NextFiles ==
  ASSUME StoreInv, Next
  PROVE  Files'
<1> USE DEF StoreInv
<1>1. CASE StartCycle \/ StartStop \/ AbortTask \/ NothingToFlush
  <2>1. /\ SegmentNames' = SegmentNames /\ UNCHANGED <<disk, snap, fpc, sealed>>
        /\ mpc \in {"idle", "flush"} \cup Awaiting /\ mpc' \in {"flush", "list", "compact"}
    BY <1>1 DEF StartCycle, StartStop, AbortTask, NothingToFlush, SegmentNames
  <2>2. mpc # "splice"
    BY <2>1 DEF Awaiting
  <2> QED  BY <2>1, <2>2, FilesKept
<1>2. CASE Stopped \/ CutSync \/ Crash
  <2>1. SegmentNames' = {} /\ mpc' = "idle" /\ fpc' = "idle" /\ snap' = NoSnap
    BY <1>2 DEF Stopped, CutSync, Crash, Down, SegmentNames
  <2> QED  BY <2>1 DEF Files, ReadSafe, Holding
<1>3. CASE LoseDisk
  <2>1. ~up /\ UNCHANGED <<snap, mpc, fpc, local_segments>>
    BY <1>3 DEF LoseDisk
  <2>2. local_segments = <<>> /\ snap = NoSnap /\ mpc = "idle" /\ fpc = "idle"
    BY <2>1 DEF Tasks
  <2>3. SegmentNames' = {}
    BY <2>1, <2>2 DEF SegmentNames
  <2> QED  BY <2>1, <2>2, <2>3 DEF Files, ReadSafe, Holding
<1>4. CASE StartQuery
  <2>1. /\ SegmentNames' = SegmentNames /\ UNCHANGED <<disk, fpc, sealed, mpc, job, todo>>
        /\ mpc \notin Holding /\ snap' = SegmentNames
    BY <1>4 DEF StartQuery, SegmentNames
  <2> QED  BY <2>1 DEF Files, ReadSafe, Holding
<1>5. CASE EndQuery
  <2>1. /\ SegmentNames' = SegmentNames /\ UNCHANGED <<disk, fpc, sealed, mpc, job, todo>>
        /\ snap' = NoSnap
    BY <1>5 DEF EndQuery, SegmentNames
  <2> QED  BY <2>1 DEF Files, ReadSafe
<1>6. CASE Open
  <2>1. UNCHANGED <<disk, fpc, snap>> /\ mpc' = "reconcile" /\ ~up
    BY <1>6 DEF Open
  <2>2. SegmentNames' = DOMAIN disk
    BY <1>6, OpenedDeque DEF NamesOf, SegmentNames
  <2>3. snap = NoSnap /\ fpc = "idle"
    BY <2>1 DEF Tasks
  <2> QED  BY <2>1, <2>2, <2>3 DEF Files, ReadSafe, Holding
<1> QED
  BY <1>1, <1>2, <1>3, <1>4, <1>5, <1>6, FlushFiles, CompactFiles, SyncFiles, EvictFiles
  DEF Next, Maintain, Shutdown

-----------------------------------------------------------------------------

LEMMA StoreStep ==
  ASSUME StoreInv, [Next]_vars
  PROVE  StoreInv'
<1>1. CASE Next
  BY <1>1, NextData, NextBuffered, NextTasks, NextFiles DEF StoreInv
<1>2. CASE UNCHANGED vars
  <2>1. SegmentNames' = SegmentNames
    BY <1>2 DEF vars, SegmentNames
  <2>2. Data'
    BY <1>2 DEF vars, StoreInv, Data, InRange, Ordered
  <2>3. Buffered'
    BY <1>2, <2>1 DEF vars, StoreInv, Buffered, Later
  <2>4. Tasks'
    BY <1>2, <2>1 DEF vars, StoreInv, Tasks, JobOK
  <2>5. Files'
    BY <1>2, <2>1 DEF vars, StoreInv, Files, ReadSafe
  <2> QED  BY <2>2, <2>3, <2>4, <2>5 DEF StoreInv
<1> QED  BY <1>1, <1>2

LEMMA StoreInvariant == Spec => []StoreInv
  BY InitStore, StoreStep, PTL DEF Spec

\* Types and order: whatever fails, crashes or is lost, file names and footers stay in
\* their ranges and the deque stays oldest first through flushes, splices, evictions and
\* boots, as the planner and the tail of a query expect (namespace.rs, planner.rs).
THEOREM FinelogTypeCorrect == Spec => []TypeOK
<1>1. StoreInv => TypeOK
  <2> SUFFICES ASSUME StoreInv PROVE TypeOK
    OBVIOUS
  <2> USE DEF StoreInv
  <2>1. \A f \in {disk, bucket} : /\ DOMAIN f \subseteq Names
                                  /\ \A n \in DOMAIN f : f[n] \subseteq Seqs /\ f[n] # {}
    <3>1. \A n \in Names : MinSeq(n)..MaxSeq \subseteq Seqs
      BY NameTypes, StoreAssumption DEF Seqs, Names, MinSeq
    <3> QED  BY <3>1 DEF Data, InRange
  <2>2. ram \subseteq Seqs /\ sealed \subseteq Seqs /\ next_seq \in 1..(MaxSeq + 1)
    BY StoreAssumption DEF Buffered, Seqs
  <2>3. \A i \in DOMAIN local_segments :
          /\ local_segments[i] \in Segs
          /\ \A k \in 1..i : MinSeq(local_segments[k].name) <= MinSeq(local_segments[i].name)
    <3>1. /\ DOMAIN local_segments = 1..Len(local_segments) /\ Len(local_segments) \in Nat
          /\ \A i \in DOMAIN local_segments : local_segments[i] \in Segs
      BY DEF Data
    <3>2. \A i \in DOMAIN local_segments : \A k \in 1..i : k \in DOMAIN local_segments /\ k <= i
      BY <3>1
    <3> QED  BY <3>1, <3>2 DEF Data, Ordered
  <2> QED  BY <2>1, <2>2, <2>3 DEF TypeOK, Data, Buffered, Tasks, Segs
<1> QED  BY <1>1, StoreInvariant, PTL

\* Reading: a file that a running query has snapshotted is there until the query has
\* ended, under every interleaving of queries with merges, level bumps, evictions,
\* crashes and restarts (the query-visibility lock of namespace.rs).
THEOREM FinelogReadSafe == Spec => []ReadSafe
<1>1. StoreInv => ReadSafe
  BY DEF StoreInv, Files
<1> QED  BY <1>1, StoreInvariant, PTL
=============================================================================
