------------------------- MODULE FinelogRowProofs -------------------------
(***************************************************************************)
(* The rows of a Finelog namespace: in which order they become visible,    *)
(* and, as long as no process dies, where an acknowledged row is.          *)
(***************************************************************************)
EXTENDS FinelogProofs

USE DEF durable, memory, flusher, loop, history, At, Goto, NoFault, Fault, WriteLocked,
        Drained, Maintenance

-----------------------------------------------------------------------------
(* What a job of the planner covers. *)

\* More segments, more bytes.
LEMMA RunBytesGrow ==
  ASSUME NEW q \in Seq(Segs), NEW T \in SUBSET DOMAIN q, NEW S \in SUBSET T
  PROVE  run_bytes(q, S) \in Nat /\ run_bytes(q, S) <= run_bytes(q, T)
<1> DEFINE rows(P) == UNION {MinSeq(q[k].name)..q[k].hi : k \in P}
<1>1. \A k \in DOMAIN q : MinSeq(q[k].name) \in Seqs /\ q[k].hi \in Seqs
  BY EntryTypes DEF Segs, Names, MinSeq
<1>2. \A k \in DOMAIN q : MinSeq(q[k].name)..q[k].hi \subseteq Seqs
  BY <1>1, StoreAssumption DEF Seqs
<1>3. IsFiniteSet(Seqs)
  BY FS_Interval, StoreAssumption DEF Seqs
<1>4. rows(S) \in SUBSET rows(T) /\ rows(T) \in SUBSET Seqs
  BY <1>2
<1>5. run_bytes(q, S) = Cardinality(rows(S)) /\ run_bytes(q, T) = Cardinality(rows(T))
  BY DEF run_bytes
<1> HIDE DEF rows
<1>6. IsFiniteSet(rows(T))
  BY <1>3, <1>4, FS_Subset
<1>7. IsFiniteSet(rows(S)) /\ Cardinality(rows(S)) <= Cardinality(rows(T))
  BY <1>4, <1>6, FS_Subset
<1>8. Cardinality(rows(S)) \in Nat
  BY <1>7, FS_CardinalityType
<1> QED  BY <1>5, <1>7, <1>8

\* A job takes adjacent segments of a level: every row from the first to the last of the
\* output is one of an input.
LEMMA PlannedRows ==
  ASSUME NEW q \in Seq(Segs), Ordered(q), NEW planned \in plan(q)
  PROVE  \E P \in SUBSET DOMAIN q :
           /\ planned.inputs = {q[k].name : k \in P}
           /\ \E k \in P : planned.hi = q[k].hi
           /\ \A k \in P : MinSeq(planned.out) <= MinSeq(q[k].name) /\ q[k].hi <= planned.hi
           /\ \A r \in MinSeq(planned.out)..planned.hi :
                \E k \in P : MinSeq(q[k].name) <= r /\ r <= q[k].hi
<1>1. PICK d \in due_runs(q) : planned = build_job(q, take_until_target(q, d[1], d[2]), d[1] + 1)
  BY DEF plan
<1>2. PICK n \in 0..(Terminal - 1) : d \in {n} \X {r \in contiguous_runs(q, n) : Due(q, n, r)}
  BY DEF due_runs
<1> DEFINE run == d[2]
           P == take_until_target(q, n, run)
           A == AtLevel(q, n)
<1>3. PICK a \in A, b \in A :
        /\ a <= b /\ run = Stretch(q, n, a, b)
        /\ \A i \in Stretch(q, n, a, b - 1) : \E k \in A : Adjacent(q, n, i, k)
  BY <1>2 DEF contiguous_runs
<1>4. A \subseteq DOMAIN q /\ DOMAIN q = 1..Len(q) /\ Len(q) \in Nat
  BY DEF AtLevel
<1>5. \A k \in DOMAIN q : MinSeq(q[k].name) \in Seqs /\ q[k].hi \in Seqs
  BY EntryTypes DEF Segs, Names, MinSeq
<1>6. Seqs \subseteq Nat
  BY StoreAssumption DEF Seqs
<1>7. \A k \in run : k \in A /\ a <= k /\ k <= b
  BY <1>3, <1>4 DEF Stretch
<1>8. P \subseteq run
  BY DEF take_until_target
<1>9. planned = build_job(q, P, n + 1)
  BY <1>1, <1>2
<1>10. P # {}
  BY <1>9, PlannedJob DEF build_job
<1> DEFINE mins == {MinSeq(q[k].name) : k \in P}
           his == {q[k].hi : k \in P}
<1>11. MinSeq(planned.out) = Min(mins) /\ planned.hi = Max(his)
       /\ planned.inputs = {q[k].name : k \in P}
  BY <1>9 DEF build_job, MinSeq
<1>12. Min(mins) \in mins /\ \A x \in mins : Min(mins) <= x
  <2>1. mins \in SUBSET Nat /\ mins # {}
    BY <1>4, <1>5, <1>6, <1>7, <1>8, <1>10
  <2> HIDE DEF mins
  <2> QED  BY <2>1, MinOfNats
<1>13. Max(his) \in his /\ \A x \in his : x <= Max(his)
  <2>1. \A k \in P : q[k].hi \in Int /\ q[k].hi <= MaxSeq
    BY <1>4, <1>5, <1>7, <1>8, StoreAssumption DEF Seqs
  <2>2. his \in SUBSET Int /\ his # {} /\ MaxSeq \in Int /\ \A x \in his : x <= MaxSeq
    BY <1>10, <2>1, StoreAssumption
  <2> HIDE DEF his
  <2> QED  BY <2>2, MaxOfInts
\* The prefix of a run is closed downwards.
<1>14. ASSUME NEW l \in P, NEW k \in run, k <= l
       PROVE  k \in P
  <2>1. run_bytes(q, {i \in run : i < l}) < LevelTargets[n + 1]
    BY DEF take_until_target
  <2>2. {i \in run : i < k} \in SUBSET {i \in run : i < l}
    BY <1>4, <1>7, <1>8, <1>14
  <2>3. {i \in run : i < l} \in SUBSET DOMAIN q
    BY <1>4, <1>7
  <2>4. run_bytes(q, {i \in run : i < k}) <= run_bytes(q, {i \in run : i < l})
        /\ run_bytes(q, {i \in run : i < k}) \in Nat /\ run_bytes(q, {i \in run : i < l}) \in Nat
    BY <2>2, <2>3, RunBytesGrow
  <2>5. LevelTargets[n + 1] \in Nat
    BY PlannerAssumption DEF Terminal
  <2> QED  BY <2>1, <2>4, <2>5 DEF take_until_target
\* What follows a segment of the prefix that is not its last is next to it, in the prefix.
<1>15. ASSUME NEW l \in P, NEW k \in P, k < l
       PROVE  \E m \in P : k < m /\ m <= l /\ q[k].hi + 1 = MinSeq(q[m].name)
  <2>0. k \in A /\ l \in A /\ k \in Int /\ l \in Int /\ a \in Int /\ b \in Int
        /\ a <= k /\ k <= b /\ a <= l /\ l <= b
    BY <1>3, <1>4, <1>7, <1>8
  <2>1. k \in Stretch(q, n, a, b - 1)
    <3>1. k \in a..(b - 1)
      BY <1>15, <2>0
    <3> QED  BY <2>0, <3>1 DEF Stretch
  <2>2. PICK m \in A : Adjacent(q, n, k, m)
    BY <1>3, <2>1
  <2>3. k < m /\ q[k].hi + 1 = MinSeq(q[m].name) /\ Stretch(q, n, k + 1, m - 1) = {}
    BY <2>2 DEF Adjacent
  <2>4. m <= l
    <3>1. l \notin (k + 1)..(m - 1) /\ m \in Int
      BY <1>4, <2>0, <2>3 DEF Stretch
    <3> QED  BY <1>15, <2>0, <3>1
  <2>5. m \in run
    <3>1. m \in a..b
      BY <1>4, <2>0, <2>3, <2>4
    <3> QED  BY <1>3, <3>1 DEF Stretch
  <2> QED  BY <1>14, <2>3, <2>4, <2>5
<1>16. P \subseteq DOMAIN q /\ DOMAIN q \subseteq Int
  BY <1>4, <1>7, <1>8
<1> HIDE DEF P, run
<1>17. ASSUME NEW r \in Min(mins)..Max(his)
       PROVE  \E k \in P : MinSeq(q[k].name) <= r /\ r <= q[k].hi
  <2> DEFINE before == {k \in P : MinSeq(q[k].name) <= r}
  <2>1. r \in Int
    OBVIOUS
  <2>2. PICK l \in P : q[l].hi = Max(his)
    BY <1>13
  <2>3. before # {}
    BY <1>12
  <2>4. Max(before) \in before /\ \A k \in before : k <= Max(before)
    <3>1. before \in SUBSET Int /\ Len(q) \in Int /\ \A k \in before : k <= Len(q)
      BY <1>4, <1>16
    <3> HIDE DEF before
    <3> QED  BY <2>3, <3>1, MaxOfInts
  <2> DEFINE k == Max(before)
  <2>5. k \in P /\ MinSeq(q[k].name) <= r /\ \A m \in P : MinSeq(q[m].name) <= r => m <= k
    BY <2>4
  <2> HIDE DEF k, before
  <2>6. r <= q[l].hi
    BY <1>5, <1>6, <1>16, <2>2
  <2>a. \A m \in P : m \in Int /\ MinSeq(q[m].name) \in Int /\ q[m].hi \in Int
    <3>1. \A x \in Seqs : x \in Int
      BY <1>6
    <3> QED  BY <1>5, <1>16, <3>1
  <2>7. ASSUME k < l
        PROVE  r <= q[k].hi
    <3>1. PICK m \in P : k < m /\ m <= l /\ q[k].hi + 1 = MinSeq(q[m].name)
      BY <1>15, <2>5, <2>7
    <3>2. ~(MinSeq(q[m].name) <= r)
      BY <2>a, <2>5, <3>1
    <3> QED  BY <2>a, <2>1, <2>5, <3>1, <3>2
  <2>8. ASSUME l < k
        PROVE  FALSE
    <3>1. PICK m \in P : l < m /\ m <= k /\ q[l].hi + 1 = MinSeq(q[m].name)
      BY <1>15, <2>5, <2>8
    <3>2. MinSeq(q[m].name) <= MinSeq(q[k].name)
      BY <1>16, <2>5, <3>1 DEF Ordered
    <3> QED  BY <2>a, <2>1, <2>5, <2>6, <3>1, <3>2
  <2> QED  BY <2>a, <2>5, <2>6, <2>7, <2>8
<1>18. /\ \E k \in P : planned.hi = q[k].hi
       /\ \A k \in P : MinSeq(planned.out) <= MinSeq(q[k].name) /\ q[k].hi <= planned.hi
  BY <1>11, <1>12, <1>13
<1> QED  BY <1>11, <1>16, <1>17, <1>18
-----------------------------------------------------------------------------
(* The entries of the deque, in whatever order. *)

Entries(q) == {q[i] : i \in DOMAIN q}

LEMMA PickedEntries ==
  ASSUME NEW q \in Seq(Segs), NEW places \in SUBSET DOMAIN q
  PROVE  Entries(Picked(q, places)) = {q[k] : k \in places}
<1> DEFINE p == Picked(q, places)
<1>1. p \in Seq(Segs)
  BY PickedElements
<1>2. PICK at \in [1..Len(p) -> places] :
        /\ \A i \in 1..Len(p) : p[i] = q[at[i]]
        /\ \A k \in places : \E i \in 1..Len(p) : at[i] = k
  BY PickedElements
<1> HIDE DEF p
<1>3. DOMAIN p = 1..Len(p)
  BY <1>1
<1>4. \A i \in 1..Len(p) : p[i] \in {q[k] : k \in places}
  BY <1>2
<1>5. \A k \in places : \E i \in 1..Len(p) : p[i] = q[k]
  BY <1>2
<1> QED  BY <1>3, <1>4, <1>5 DEF Entries, p

LEMMA AppendedEntries ==
  ASSUME NEW q \in Seq(Segs), NEW s \in Segs
  PROVE  Entries(Append(q, s)) = Entries(q) \cup {s}
<1>1. /\ DOMAIN Append(q, s) = 1..(Len(q) + 1) /\ Len(q) \in Nat
      /\ Append(q, s)[Len(q) + 1] = s /\ DOMAIN q = 1..Len(q)
      /\ \A i \in 1..Len(q) : Append(q, s)[i] = q[i]
  OBVIOUS
<1>2. \A i \in 1..(Len(q) + 1) : i \in 1..Len(q) \/ i = Len(q) + 1
  BY <1>1
<1>3. Len(q) + 1 \in 1..(Len(q) + 1) /\ 1..Len(q) \subseteq 1..(Len(q) + 1)
  BY <1>1
<1> QED  BY <1>1, <1>2, <1>3 DEF Entries

\* A splice takes the inputs out and puts the output in.
LEMMA SplicedEntries ==
  ASSUME local_segments \in Seq(Segs), JobOK, job.inputs \subseteq SegmentNames
  PROVE  Entries(Spliced) =
           {e \in Entries(local_segments) : e.name \notin job.inputs}
             \cup {Segment(job.out, job.hi, "LOCAL")}
<1> DEFINE added == Segment(job.out, job.hi, "LOCAL")
           hit == Places(job.inputs)
           f == Min(hit)
           q == [local_segments EXCEPT ![f] = added]
           places == (DOMAIN local_segments \ hit) \cup {f}
<1>1. DOMAIN local_segments = 1..Len(local_segments) /\ Len(local_segments) \in Nat
  OBVIOUS
<1>2. added \in Segs
  BY DEF JobOK, Segment, Segs
<1>3. hit \subseteq DOMAIN local_segments /\ hit # {}
  BY DEF Places, SegmentNames, JobOK
<1>4. f \in hit
  <2>1. hit \in SUBSET Nat /\ hit # {}
    BY <1>1, <1>3
  <2> HIDE DEF hit
  <2> QED  BY <2>1, MinOfNats
<1>5. Spliced = Picked(q, places)
  BY <1>3 DEF Spliced
<1>6. \A k \in DOMAIN local_segments : k \in hit <=> local_segments[k].name \in job.inputs
  BY DEF Places
<1> HIDE DEF hit, f, added
<1>7. q \in Seq(Segs) /\ DOMAIN q = DOMAIN local_segments
  <2>1. q = [k \in 1..Len(local_segments) |-> IF k = f THEN added ELSE local_segments[k]]
    BY <1>1
  <2>2. q \in [1..Len(local_segments) -> Segs]
    BY <1>1, <1>2, <2>1, EntryTypes
  <2> QED  BY <1>1, <2>2
<1>8. q[f] = added /\ \A k \in DOMAIN q : k # f => q[k] = local_segments[k]
  BY <1>3, <1>4, <1>7
<1>9. places \subseteq DOMAIN q
  BY <1>3, <1>4, <1>7
<1> HIDE DEF q
<1>10. {q[k] : k \in places} = {local_segments[k] : k \in DOMAIN local_segments \ hit} \cup {added}
  BY <1>3, <1>4, <1>7, <1>8
<1>11. {local_segments[k] : k \in DOMAIN local_segments \ hit} =
         {e \in Entries(local_segments) : e.name \notin job.inputs}
  BY <1>6 DEF Entries
<1> HIDE DEF places
<1> QED  BY <1>5, <1>7, <1>9, <1>10, <1>11, PickedEntries DEF added

LEMMA EvictedEntries ==
  ASSUME local_segments \in Seq(Segs), NEW n
  PROVE  Entries(Picked(local_segments, DOMAIN local_segments \ Places({n}))) =
           {e \in Entries(local_segments) : e.name # n}
<1> DEFINE places == DOMAIN local_segments \ Places({n})
<1>1. places \in SUBSET DOMAIN local_segments
  OBVIOUS
<1>2. {local_segments[k] : k \in places} = {e \in Entries(local_segments) : e.name # n}
  BY DEF Entries, Places
<1> QED  BY <1>1, <1>2, PickedEntries

-----------------------------------------------------------------------------
(* The tail: rows become visible in the order of their seqs. *)

Span(e) == MinSeq(e.name)..e.hi

LEMMA VisibleSpans == Visible = UNION {Span(e) : e \in Entries(local_segments)}
BY DEF Visible, Entries, Span

\* What queries see is older than everything that is still to be flushed, and a job
\* brings in no row that its inputs do not have.
Older ==
  /\ \A r \in Visible :
       /\ r < next_seq
       /\ \A s \in ram : r < s
       /\ fpc # "committed" => \A s \in sealed : r < s
  /\ mpc \in {"merge", "bump", "swap", "splice"} => MinSeq(job.out)..job.hi \subseteq Visible

\* A namespace opens above everything it has.
LEMMA OpenVisible ==
  ASSUME StoreInv, Open, NEW r \in Visible'
  PROVE  r < next_seq'
<1> USE DEF StoreInv
<1> DEFINE S == {0} \cup {FooterMax(n, disk[n]) : n \in DOMAIN disk}
                    \cup {cat[n].hi : n \in KeptRows}
<1>2. \A n \in DOMAIN disk : n \in Names /\ FooterMax(n, disk[n]) \in Seqs
                             /\ MinSeq(n) <= FooterMax(n, disk[n])
  BY FooterInRange DEF Data, InRange
<1>3. \A n \in KeptRows : cat[n].hi \in Seqs
  BY DEF KeptRows, Data
<1>4. S \subseteq 0..MaxSeq /\ S # {}
  BY <1>2, <1>3, StoreAssumption DEF Seqs
<1>5. next_seq' = 1 + Max(S)
  BY DEF Open, recover_next_seq
<1>6. Max(S) \in S /\ \A x \in S : x <= Max(S)
  <2>1. S \in SUBSET Int /\ MaxSeq \in Int /\ \A x \in S : x <= MaxSeq
    BY <1>4, StoreAssumption
  <2> HIDE DEF S
  <2> QED  BY <1>4, <2>1, MaxOfInts
<1>7. Max(S) \in Int
  BY <1>4, <1>6
<1>8. \A n \in DOMAIN disk : FooterMax(n, disk[n]) <= Max(S)
  BY <1>6
<1> HIDE DEF S
<1>9. PICK i \in DOMAIN local_segments' :
        r \in MinSeq(local_segments'[i].name)..local_segments'[i].hi
  BY DEF Visible
<1>10. \E n \in DOMAIN disk : local_segments'[i].hi = FooterMax(n, disk[n])
  <2>1. local_segments'[i].name \in DOMAIN disk
    BY <1>9, OpenedDeque DEF NamesOf
  <2>2. local_segments'[i].hi = AdoptedRow(local_segments'[i].name).hi
    BY <1>9, OpenedDeque DEF Segment
  <2> QED  BY <2>1, <2>2 DEF AdoptedRow
<1>11. local_segments'[i].hi \in Int /\ local_segments'[i].hi <= Max(S) /\ r \in Int
  BY <1>2, <1>8, <1>9, <1>10, StoreAssumption DEF Seqs
<1> QED  BY <1>5, <1>7, <1>9, <1>11

LEMMA ReseedGrows ==
  ASSUME StoreInv, Reseed
  PROVE  next_seq <= next_seq'
<1> USE DEF StoreInv
<1> DEFINE S == {next_seq} \cup {cat[n].hi + 1 : n \in DOMAIN cat}
<1>1. S \subseteq 1..(MaxSeq + 1) /\ S # {}
  BY StoreAssumption DEF Buffered, Data, Seqs
<1>2. \A x \in S : x <= Max(S)
  <2>1. S \in SUBSET Int /\ MaxSeq + 1 \in Int /\ \A x \in S : x <= MaxSeq + 1
    BY <1>1, StoreAssumption
  <2> HIDE DEF S
  <2> QED  BY <1>1, <2>1, MaxOfInts
<1> QED  BY <1>2 DEF Reseed

\* The rows that a flush makes visible are those from the first it has sealed on.
LEMMA CommittedVisible ==
  ASSUME StoreInv, CommitFlush
  PROVE  Visible' = Visible \cup Min(sealed)..Max(sealed)
<1> DEFINE s == Segment(<<0, Min(sealed)>>, Max(sealed), "LOCAL")
<1>1. s \in Segs /\ Span(s) = Min(sealed)..Max(sealed)
  BY SealedFile DEF StoreInv, CommitFlush, Segment, Span
<1>2. local_segments' = Append(local_segments, s) /\ local_segments \in Seq(Segs)
  BY DEF CommitFlush, StoreInv, Data
<1> HIDE DEF s
<1>3. Entries(local_segments') = Entries(local_segments) \cup {s}
  BY <1>1, <1>2, AppendedEntries
<1>4. Visible' = UNION {Span(e) : e \in Entries(local_segments')}
  BY DEF Visible, Entries, Span
<1> QED  BY <1>1, <1>3, <1>4, VisibleSpans

\* The maintenance task makes no row visible.
LEMMA MaintenanceVisible ==
  ASSUME StoreInv, Older, Maintain
  PROVE  Visible' \subseteq Visible
<1> USE DEF StoreInv
<1>1. Visible' = UNION {Span(e) : e \in Entries(local_segments')}
  BY DEF Visible, Entries, Span
<1>2. CASE UNCHANGED local_segments
  BY <1>2 DEF Visible
<1>3. CASE CommitSwap \/ CommitSwapFails
  <2>1. local_segments' = Spliced /\ mpc \in {"swap", "splice"}
    BY <1>3 DEF CommitSwap, CommitSwapFails, AtSplice
  <2> DEFINE added == Segment(job.out, job.hi, "LOCAL")
  <2>2. Entries(Spliced) = {e \in Entries(local_segments) : e.name \notin job.inputs} \cup {added}
    BY <2>1, SplicedEntries DEF Data, Tasks
  <2>3. Span(added) \subseteq Visible
    BY <2>1 DEF Older, Span, Segment
  <2> HIDE DEF added
  <2> QED  BY <1>1, <2>1, <2>2, <2>3, VisibleSpans
<1>4. CASE MarkUploaded \/ MarkUploadedFails
  <2>1. MarkDeque
    BY <1>4 DEF MarkUploaded, MarkUploadedFails
  <2> QED  BY <2>1, MarkedDeque DEF Visible, Data
<1>5. CASE EvictSegment
  <2>1. Entries(local_segments') \subseteq Entries(local_segments)
    BY <1>5, EvictedEntries DEF EvictSegment, Data
  <2> QED  BY <1>1, <2>1, VisibleSpans
<1> QED  BY <1>2, <1>3, <1>4, <1>5 DEF Maintain, StartCycle, Seal, NothingToFlush, Compact,
     PlanJob, Merge, BumpRename, UnlinkInput, Sync, ListBucket, ListBucketFails, Upload,
     UploadFails, EndUploads, DeleteOrphan, Evict, ChooseEviction, UnlinkEvicted, EndEviction,
     Reconcile, ReconcileList, ReconcileListFails, ReconcileDrop, ReconcileAdopt, EndReconcile,
     Reseed

\* The planner's job covers rows that are visible.
LEMMA PlannedVisible ==
  ASSUME local_segments \in Seq(Segs), Ordered(local_segments), NEW planned \in plan(local_segments)
  PROVE  MinSeq(planned.out)..planned.hi \subseteq Visible
<1>1. PICK P \in SUBSET DOMAIN local_segments :
        \A r \in MinSeq(planned.out)..planned.hi :
          \E k \in P : MinSeq(local_segments[k].name) <= r /\ r <= local_segments[k].hi
  BY PlannedRows
<1>2. \A k \in DOMAIN local_segments :
        MinSeq(local_segments[k].name) \in Int /\ local_segments[k].hi \in Int
  BY EntryTypes, StoreAssumption DEF Seqs
<1>3. MinSeq(planned.out) \in Int /\ planned.hi \in Int
  BY PlannedJob, NameTypes, StoreAssumption DEF Seqs
<1> SUFFICES ASSUME NEW r \in MinSeq(planned.out)..planned.hi
             PROVE  r \in Visible
  OBVIOUS
<1>4. PICK k \in DOMAIN local_segments :
        MinSeq(local_segments[k].name) <= r /\ r <= local_segments[k].hi
  BY <1>1
<1>5. r \in MinSeq(local_segments[k].name)..local_segments[k].hi
  BY <1>2, <1>3, <1>4
<1> QED  BY <1>5 DEF Visible

\* What holds of the visible rows goes on to hold when there are no more of them.
LEMMA OlderKept ==
  ASSUME Older, Visible' \subseteq Visible, next_seq \in Int, next_seq' \in Int, next_seq <= next_seq',
         Visible \subseteq Int,
         \A s \in ram' : s \in ram \/ s = next_seq \/ (fpc # "committed" /\ s \in sealed),
         fpc' # "committed" => \A s \in sealed' : s \in ram \/ (fpc # "committed" /\ s \in sealed),
         mpc' \in {"merge", "bump", "swap", "splice"} =>
           MinSeq(job'.out)..job'.hi \subseteq Visible'
  PROVE  Older'
<1>1. ASSUME NEW r \in Visible'
      PROVE  /\ r < next_seq'
             /\ \A s \in ram' : r < s
             /\ fpc' # "committed" => \A s \in sealed' : r < s
  <2>1. r \in Visible /\ r \in Int /\ r < next_seq
    BY <1>1 DEF Older
  <2>2. r < next_seq'
    BY <2>1
  <2> QED  BY <2>1, <2>2 DEF Older
<1> QED  BY <1>1 DEF Older

LEMMA VisibleInt ==
  ASSUME StoreInv
  PROVE  Visible \subseteq Int /\ next_seq \in Int /\ ram \subseteq Int /\ sealed \subseteq Int
<1>1. Visible \subseteq Int
  BY DEF Visible
<1> QED  BY <1>1, StoreAssumption DEF StoreInv, Buffered

LEMMA OlderStep ==
  ASSUME StoreInv, Older, [Next]_vars
  PROVE  Older'
<1> USE DEF StoreInv
<1>1. Visible \subseteq Int /\ next_seq \in Int /\ Visible' \subseteq Int /\ next_seq' \in Int
  <2>1. StoreInv'
    BY StoreStep
  <2>2. Visible' \subseteq Int
    BY DEF Visible
  <2>3. next_seq' \in Int
    BY <2>1, StoreAssumption DEF Buffered
  <2> QED  BY <2>2, <2>3, VisibleInt
<1>2. UNCHANGED local_segments => Visible' = Visible
  BY DEF Visible
<1>3. CASE Flush \/ Seal("maintenance") \/ AppendRow \/ StartQuery \/ EndQuery \/ UNCHANGED vars
  <2>1. CASE CommitFlush
    <3>1. Visible' = Visible \cup Min(sealed)..Max(sealed)
      BY <2>1, CommittedVisible
    <3>2. fpc = "cataloged" /\ fpc' = "committed" /\ UNCHANGED <<next_seq, ram, sealed, mpc, job>>
      BY <2>1 DEF CommitFlush
    <3>3. Max(sealed) \in sealed /\ sealed \subseteq 1..(next_seq - 1)
          /\ \A s \in sealed, q \in ram : s < q
      BY <3>2, SealedFile DEF Buffered
    <3>4. Max(sealed) \in Int /\ Max(sealed) < next_seq /\ \A q \in ram : q \in Int /\ Max(sealed) < q
      <4>1. \A s \in sealed : s \in Int /\ s < next_seq
        BY <1>1, <3>3
      <4>2. \A q \in ram : q \in Int
        BY VisibleInt
      <4> HIDE DEF Max
      <4> QED  BY <3>3, <4>1, <4>2
    <3>5. \A r \in Min(sealed)..Max(sealed) : r < next_seq /\ \A q \in ram : r < q
      BY <1>1, <3>4
    <3> QED  BY <3>1, <3>2, <3>5 DEF Older
  <2>2. CASE ~CommitFlush
    <3>1. UNCHANGED local_segments
      BY <1>3, <2>2 DEF Flush, Seal, WriteSegment, UpsertSegment, RestoreFlush, Publish, AppendRow,
         StartQuery, EndQuery, vars
    <3>2. /\ next_seq' = next_seq \/ next_seq' = next_seq + 1
          /\ \A s \in ram' : s \in ram \/ s = next_seq \/ (fpc # "committed" /\ s \in sealed)
          /\ fpc' # "committed" => \A s \in sealed' : s \in ram \/ (fpc # "committed" /\ s \in sealed)
      BY <1>3, <2>2 DEF Flush, Seal, WriteSegment, UpsertSegment, RestoreFlush, Publish, AppendRow,
         StartQuery, EndQuery, vars
    <3>3. UNCHANGED job /\ (mpc' = mpc \/ mpc' \in {"list", "compact", "idle"})
      BY <1>3, <2>2 DEF Flush, Seal, WriteSegment, UpsertSegment, RestoreFlush, Publish, AppendRow,
         StartQuery, EndQuery, vars, AfterFlush
    <3>4. mpc' \in {"merge", "bump", "swap", "splice"} =>
            MinSeq(job'.out)..job'.hi \subseteq Visible'
      BY <1>2, <3>1, <3>3 DEF Older
    <3>5. next_seq <= next_seq'
      BY <1>1, <3>2
    <3> QED  BY <1>1, <1>2, <3>1, <3>2, <3>4, <3>5, OlderKept
  <2> QED  BY <2>1, <2>2
<1>4. CASE Maintain /\ ~Seal("maintenance")
  <2>1. Visible' \subseteq Visible
    BY <1>4, MaintenanceVisible
  <2>2. UNCHANGED <<ram, sealed, fpc>>
    BY <1>4 DEF Maintain, StartCycle, NothingToFlush, Compact,
     PlanJob, Merge, BumpRename, CommitSwap, CommitSwapFails, UnlinkInput, Sync, ListBucket,
     ListBucketFails, Upload, UploadFails, MarkUploaded, MarkUploadedFails, EndUploads,
     DeleteOrphan, Evict, ChooseEviction, EvictSegment, UnlinkEvicted, EndEviction,
     Reconcile, ReconcileList, ReconcileListFails, ReconcileDrop, ReconcileAdopt, EndReconcile,
     Reseed
  <2>3. next_seq <= next_seq'
    <3>1. CASE Reseed
      BY <3>1, ReseedGrows
    <3>2. CASE ~Reseed
      <4>1. next_seq' = next_seq
        BY <1>4, <3>2 DEF Maintain, StartCycle, NothingToFlush, Compact,
     PlanJob, Merge, BumpRename, CommitSwap, CommitSwapFails, UnlinkInput, Sync, ListBucket,
     ListBucketFails, Upload, UploadFails, MarkUploaded, MarkUploadedFails, EndUploads,
     DeleteOrphan, Evict, ChooseEviction, EvictSegment, UnlinkEvicted, EndEviction,
     Reconcile, ReconcileList, ReconcileListFails, ReconcileDrop, ReconcileAdopt, EndReconcile
      <4> QED  BY <1>1, <4>1
    <3> QED  BY <3>1, <3>2
  <2>4. mpc' \in {"merge", "bump", "swap", "splice"} =>
          MinSeq(job'.out)..job'.hi \subseteq Visible'
    <3>1. CASE PlanJob
      BY <1>2, <3>1, PlannedVisible DEF PlanJob, Data
    <3>2. CASE Merge \/ BumpRename
      BY <1>2, <3>2 DEF Merge, BumpRename, Older
    <3>3. CASE ~PlanJob /\ ~Merge /\ ~BumpRename
      <4>1. mpc' \notin {"merge", "bump", "swap", "splice"}
        BY <1>4, <3>3 DEF Maintain, StartCycle, NothingToFlush, Compact,
     CommitSwap, CommitSwapFails, AtSplice, UnlinkInput, Sync, ListBucket,
     ListBucketFails, Upload, UploadFails, MarkUploaded, MarkDeque, MarkUploadedFails, EndUploads,
     DeleteOrphan, AfterSync, Evict, ChooseEviction, EvictSegment, UnlinkEvicted, EndEviction,
     Reconcile, ReconcileList, ReconcileListFails, ReconcileDrop, ReconcileAdopt, EndReconcile,
     Reseed
      <4> QED  BY <4>1
    <3> QED  BY <3>1, <3>2, <3>3
  <2> QED  BY <1>1, <2>1, <2>2, <2>3, <2>4, OlderKept
<1>5. CASE StartStop \/ AbortTask
  BY <1>2, <1>5 DEF StartStop, AbortTask, Older
<1>6. CASE Stopped \/ CutSync \/ Crash
  <2>1. Visible' = {} /\ mpc' = "idle"
    BY <1>6 DEF Stopped, CutSync, Crash, Down, Visible
  <2> QED  BY <2>1 DEF Older
<1>7. CASE LoseDisk
  <2>1. UNCHANGED <<next_seq, ram, sealed, fpc, mpc, job, local_segments>>
    BY <1>7 DEF LoseDisk
  <2> QED  BY <1>2, <2>1 DEF Older
<1>8. CASE Open
  <2>1. ram' = {} /\ sealed' = {} /\ mpc' = "reconcile"
    BY <1>8 DEF Open, Tasks, Buffered
  <2>2. \A r \in Visible' : r < next_seq'
    BY <1>8, OpenVisible
  <2> QED  BY <2>1, <2>2 DEF Older
<1> QED  BY <1>3, <1>4, <1>5, <1>6, <1>7, <1>8 DEF Next, Shutdown

\* Visibility in order, within the life of a process: a row that becomes visible is newer
\* than every row that was, so a reader that polls for rows above the last one it has seen
\* misses none, whatever is flushed, merged or evicted meanwhile and whichever call fails
\* (namespace.rs).  Nothing is said across the end of a process: a namespace whose volume
\* was lost may open with a lower next_seq, and such a reader then misses new rows.
THEOREM FinelogTailMonotone == Spec => TailMonotone
<1>1. StoreInv /\ Older /\ [Next]_vars =>
        [up /\ up' => \A r \in Visible' \ Visible : \A q \in Visible : q < r]_vars
  <2> SUFFICES ASSUME StoreInv, Older, Next, up, up', NEW r \in Visible' \ Visible, NEW q \in Visible
               PROVE  q < r
    OBVIOUS
  <2>1. UNCHANGED local_segments => Visible' = Visible
    BY DEF Visible
  <2>2. CASE CommitFlush
    <3>1. r \in Min(sealed)..Max(sealed)
      BY <2>2, CommittedVisible
    <3>2. Min(sealed) \in sealed
      BY <2>2, SealedFile DEF CommitFlush, StoreInv
    <3>3. q < Min(sealed)
      BY <2>2, <3>2 DEF CommitFlush, Older
    <3>4. q \in Int /\ Min(sealed) \in Int
      BY <3>2, VisibleInt
    <3> QED  BY <3>1, <3>3, <3>4
  <2>3. CASE Maintain
    BY <2>3, MaintenanceVisible
  <2>4. CASE ~CommitFlush /\ ~Maintain
    <3>1. UNCHANGED local_segments
      BY <2>4 DEF Next, Flush, Seal, WriteSegment, UpsertSegment, RestoreFlush, Publish, AppendRow,
         StartQuery, EndQuery, Shutdown, StartStop, Stopped, AbortTask, CutSync, Crash, Down,
         LoseDisk, Open
    <3> QED  BY <2>1, <3>1
  <2> QED  BY <2>2, <2>3, <2>4
<1>2. Init => Older
  BY DEF Init, Idle, Older, Visible
<1>3. StoreInv /\ Older /\ [Next]_vars => Older'
  BY OlderStep
<1> QED  BY StoreInvariant, <1>1, <1>2, <1>3, PTL DEF Spec, TailMonotone

-----------------------------------------------------------------------------
(* Where the rows are.  Nothing of it survives a crash between two steps   *)
(* that belong together, nor a catalog or a listing that fails; the runs   *)
(* show the counterexamples.                                               *)

\* Processes end only by a shutdown that flushes and syncs to its end; segment writes,
\* uploads and deletions may fail, the calls of the catalog and the listings may not, and
\* volumes may be lost between two processes.
Tidy == MaxCrashes = 0 /\ Faults \subseteq {"write", "upload", "delete"}

Working == {"merge", "bump", "swap", "splice"}
Written == <<0, Min(sealed)>>
Top(n) == FooterMax(n, bucket[n])
Within(r, n) == MinSeq(n) <= r /\ r <= cat[n].hi
Above(rows, r) == \A n \in DOMAIN rows : rows[n].hi < r

\* The rows of the catalog are of disjoint intervals of seqs.
Extents(rows) ==
  /\ \A n \in DOMAIN rows : MinSeq(n) <= rows[n].hi
  /\ \A m, n \in DOMAIN rows : m # n => rows[m].hi < MinSeq(n) \/ rows[n].hi < MinSeq(m)

\* What is not flushed is the newest.
Younger ==
  /\ \A r \in ram \cup sealed : r..(next_seq - 1) \subseteq ram \cup sealed
  /\ up /\ mode # "register" => Above(cat, next_seq)
  /\ \A r \in ram : Above(cat, r)
  /\ fpc \in {"sealed", "written"} => \A r \in sealed : Above(cat, r)
  /\ fpc = "cataloged" =>
       /\ Written \in DOMAIN cat \ SegmentNames
       /\ cat[Written] = [hi |-> Max(sealed), loc |-> "LOCAL"]
  /\ up => \A n \in DOMAIN disk : \A r \in disk[n] : r < next_seq

Distinct(q) == \A i, k \in DOMAIN q : q[i].name = q[k].name => i = k

\* Deque and catalog tell the same.
Mirrored ==
  /\ \A e \in Entries(local_segments) :
       e.name \in DOMAIN cat /\ cat[e.name] = [hi |-> e.hi, loc |-> e.loc]
  /\ Distinct(local_segments)
  /\ up => \A n \in DOMAIN cat : cat[n].loc # "REMOTE" =>
             n \in SegmentNames \/ (fpc = "cataloged" /\ n = Written)

\* A file holds the interval of its catalog row.
Content ==
  /\ \A n \in DOMAIN disk \cap DOMAIN cat : disk[n] = MinSeq(n)..cat[n].hi
  /\ \A n \in DOMAIN disk :
       \/ n \in DOMAIN cat /\ cat[n].loc # "REMOTE"
       \/ mpc \in {"swap", "splice"} /\ n = job.out
       \/ mpc \in {"unlink", "evunlink"} /\ n \in todo
       \/ fpc = "written" /\ n = Written
  /\ \A n \in DOMAIN cat :
       cat[n].loc # "REMOTE" => n \in DOMAIN disk \/ (mpc = "splice" /\ n \in job.inputs)
  /\ fpc = "written" => disk[Written] = sealed
  /\ mpc \in {"swap", "splice"} => disk[job.out] = MinSeq(job.out)..job.hi
  /\ mpc = "splice" => job.inputs \cap DOMAIN disk = {}

\* An object is covered by a row or an object of a higher level.
Below(n, m, top) == Level(n) < Level(m) /\ MinSeq(m) <= MinSeq(n) /\ Top(n) <= top

\* An object holds an interval, and two that overlap are the input and the output of merges.
Archive ==
  /\ \A n \in DOMAIN bucket : Level(n) >= 1 /\ bucket[n] = MinSeq(n)..Top(n)
  /\ \A m, n \in DOMAIN bucket : m # n =>
       \/ Top(m) < MinSeq(n) \/ Top(n) < MinSeq(m)
       \/ Below(m, n, Top(n)) \/ Below(n, m, Top(m))
  /\ \A n \in DOMAIN cat : cat[n].loc # "LOCAL" => n \in DOMAIN bucket
  /\ \A n \in DOMAIN cat \cap DOMAIN bucket : Top(n) = cat[n].hi

\* A namespace that is registered knows only what it has adopted from the bucket.
Registering ==
  /\ DOMAIN disk = {} /\ local_segments = <<>> /\ ram = {} /\ fpc = "idle"
  /\ \A n \in DOMAIN cat : cat[n].loc = "REMOTE"
  /\ mpc \in {"reconcile", "drop", "reseed"} \/ ~up
  /\ mpc \in {"idle", "reconcile"} => DOMAIN cat = {}
  /\ mpc = "drop" =>
       /\ \A m, n \in DOMAIN cat \cup listed : ~Below(m, n, Top(n))
       /\ \A n \in DOMAIN bucket \ (DOMAIN cat \cup listed) :
            \E m \in DOMAIN cat \cup listed : Below(n, m, Top(m))

\* Objects that the catalog does not know are covered, and only they are deleted.
Orphans ==
  /\ mode # "register" \/ mpc = "reseed" =>
       \A n \in DOMAIN bucket \ DOMAIN cat : \E m \in DOMAIN cat : Below(n, m, cat[m].hi)
  /\ mode = "register" => Registering
  /\ mpc = "drop" => listed \cap DOMAIN cat = {}
  /\ mpc = "drop" /\ mode # "register" => listed = {}
  /\ mpc \in {"drop", "orphans"} => \A n \in todo : n \notin DOMAIN cat /\ Level(n) >= 1

\* The rows of the catalog whose flush has been committed.
Served == DOMAIN cat \ (IF fpc = "cataloged" THEN {Written} ELSE {})

\* An acknowledged row is in the catalog, or still to be adopted.
Acknowledged ==
  /\ mode # "register" => \A r \in acked : \E n \in Served : Within(r, n)
  /\ fpc = "committed" => \A r \in sealed : \E n \in Served : Within(r, n)
  /\ mode = "register" /\ mpc \in {"idle", "reconcile"} =>
       \A r \in acked : \E n \in DOMAIN bucket : r \in bucket[n]
  /\ mode = "register" /\ mpc = "drop" =>
       \A r \in acked : \E n \in DOMAIN cat \cup listed : r \in bucket[n]
  /\ mode = "register" /\ mpc = "reseed" => \A r \in acked : \E n \in DOMAIN cat : r \in bucket[n]

\* The output of a job has the rows of its inputs.
Planned ==
  mpc \in Working =>
    /\ \A r \in Seqs : (\E n \in job.inputs : Within(r, n)) <=> (MinSeq(job.out) <= r /\ r <= job.hi)
    /\ mpc = "bump" => \A m, n \in job.inputs : m = n

\* What the maintenance task has in its hands is where it was when it was taken.
Stages ==
  /\ crashes = 0
  /\ mode = "boot" => mpc \in {"reconcile", "drop", "reseed"}
  /\ mpc \in {"reconcile", "drop", "reseed"} => mode \in {"boot", "register"}
  /\ mode = "stop" /\ fpc # "idle" => fby = "maintenance"
  /\ mpc = "down" => mode = "stop"
  /\ mpc \in {"upload", "mark"} => /\ listed \subseteq DOMAIN bucket
                                   /\ \A n \in todo : n \in SegmentNames /\ Level(n) >= 1
  /\ mpc = "mark" => First(todo) \in DOMAIN bucket
  /\ mpc = "evwait" => \A n \in todo : n \in SegmentNames /\ cat[n].loc = "BOTH"

TidyInv ==
  /\ Extents(cat) /\ Younger /\ Mirrored /\ Content /\ Archive /\ Orphans
  /\ Acknowledged /\ Planned /\ Stages

-----------------------------------------------------------------------------
(* Types and intervals.                                                    *)

LEMMA RowTypes ==
  ASSUME StoreInv
  PROVE  \A n \in DOMAIN cat :
           /\ n \in Names /\ MinSeq(n) \in Nat /\ Level(n) \in Nat
           /\ cat[n].hi \in Nat /\ cat[n].hi \in Seqs /\ cat[n].loc \in Loc
           /\ cat[n] = [hi |-> cat[n].hi, loc |-> cat[n].loc]
<1> SUFFICES ASSUME NEW n \in DOMAIN cat
             PROVE  /\ n \in Names /\ MinSeq(n) \in Nat /\ Level(n) \in Nat
                    /\ cat[n].hi \in Nat /\ cat[n].hi \in Seqs /\ cat[n].loc \in Loc
                    /\ cat[n] = [hi |-> cat[n].hi, loc |-> cat[n].loc]
  OBVIOUS
<1>1. n \in Names /\ cat[n] \in [hi : Seqs, loc : Loc]
  BY DEF StoreInv, Data
<1>2. cat[n].hi \in Seqs /\ cat[n].loc \in Loc /\ cat[n] = [hi |-> cat[n].hi, loc |-> cat[n].loc]
  BY <1>1
<1>3. cat[n].hi \in Nat
  BY <1>2, StoreAssumption DEF Seqs
<1>4. MinSeq(n) \in Nat /\ Level(n) \in Nat
  BY <1>1, NameTypes
<1> QED  BY <1>1, <1>2, <1>3, <1>4

LEMMA ObjectTypes ==
  ASSUME StoreInv
  PROVE  \A n \in DOMAIN bucket :
           /\ n \in Names /\ MinSeq(n) \in Nat /\ Level(n) \in Nat
           /\ Top(n) \in Nat /\ Top(n) \in Seqs /\ MinSeq(n) <= Top(n)
<1> SUFFICES ASSUME NEW n \in DOMAIN bucket
             PROVE  /\ n \in Names /\ MinSeq(n) \in Nat /\ Level(n) \in Nat
                    /\ Top(n) \in Nat /\ Top(n) \in Seqs /\ MinSeq(n) <= Top(n)
  OBVIOUS
<1>1. n \in Names /\ bucket[n] \in SUBSET (MinSeq(n)..MaxSeq) /\ bucket[n] # {}
  BY DEF StoreInv, Data, InRange
<1>2. Top(n) \in Seqs /\ MinSeq(n) <= Top(n)
  BY <1>1, FooterInRange DEF Top
<1>3. Top(n) \in Nat
  BY <1>2, StoreAssumption DEF Seqs
<1>4. MinSeq(n) \in Nat /\ Level(n) \in Nat
  BY <1>1, NameTypes
<1> QED  BY <1>1, <1>2, <1>3, <1>4

LEMMA FileTypes ==
  ASSUME StoreInv
  PROVE  \A n \in DOMAIN disk : n \in Names /\ MinSeq(n) \in Nat /\ Level(n) \in Nat
                                /\ disk[n] # {} /\ \A r \in disk[n] : r \in Nat
<1> SUFFICES ASSUME NEW n \in DOMAIN disk
             PROVE  /\ n \in Names /\ MinSeq(n) \in Nat /\ Level(n) \in Nat
                    /\ disk[n] # {} /\ \A r \in disk[n] : r \in Nat
  OBVIOUS
<1>1. n \in Names /\ disk[n] \subseteq MinSeq(n)..MaxSeq /\ disk[n] # {}
  BY DEF StoreInv, Data, InRange
<1>2. MinSeq(n) \in Nat /\ Level(n) \in Nat
  BY <1>1, NameTypes
<1> QED  BY <1>1, <1>2, StoreAssumption

\* The footer of a file that holds an interval.
LEMMA IntervalFooter ==
  ASSUME NEW n \in Names, NEW hi \in Nat, MinSeq(n) <= hi
  PROVE  FooterMax(n, MinSeq(n)..hi) = hi
<1>1. MinSeq(n) \in Int
  BY NameTypes
<1>2. Cardinality(MinSeq(n)..hi) = hi - MinSeq(n) + 1
  BY <1>1, FS_Interval
<1> QED  BY <1>1, <1>2 DEF FooterMax

\* A seq is in the interval of at most one row.
LEMMA OneRow ==
  ASSUME StoreInv, Extents(cat), NEW m \in DOMAIN cat, NEW n \in DOMAIN cat,
         NEW r \in Int, Within(r, m), Within(r, n)
  PROVE  m = n
BY RowTypes DEF Extents, Within

\* A deque entry in the words of the catalog.
LEMMA EntryRow ==
  ASSUME Mirrored, NEW n \in SegmentNames
  PROVE  /\ n \in DOMAIN cat
         /\ \E e \in Entries(local_segments) :
              e.name = n /\ cat[n] = [hi |-> e.hi, loc |-> e.loc]
<1>1. PICK e \in Entries(local_segments) : e.name = n
  BY DEF SegmentNames, Entries
<1> QED  BY <1>1 DEF Mirrored

LEMMA EntryLocal ==
  ASSUME StoreInv, Mirrored, NEW n \in SegmentNames
  PROVE  n \in DOMAIN cat /\ cat[n].loc # "REMOTE"
<1>1. PICK e \in Entries(local_segments) : e.name = n /\ cat[n] = [hi |-> e.hi, loc |-> e.loc]
  BY EntryRow
<1>2. e \in Segs
  BY DEF Entries, StoreInv, Data
<1> QED  BY <1>1, <1>2, EntryRow DEF Segs

-----------------------------------------------------------------------------
(* The job in hand. *)

LEMMA JobRows ==
  ASSUME StoreInv, TidyInv, mpc \in Working
  PROVE  /\ job.out \in Names /\ MinSeq(job.out) \in Nat /\ Level(job.out) \in Nat
         /\ job.hi \in Nat /\ job.hi \in Seqs
         /\ Level(job.out) >= 1 /\ MinSeq(job.out) <= job.hi /\ job.out \notin job.inputs
         /\ \A n \in job.inputs :
              /\ n \in SegmentNames /\ n \in DOMAIN cat /\ cat[n].loc # "REMOTE"
              /\ Level(n) < Level(job.out)
              /\ MinSeq(job.out) <= MinSeq(n) /\ cat[n].hi <= job.hi
         /\ \A r \in MinSeq(job.out)..job.hi : \E n \in job.inputs : Within(r, n)
<1> USE DEF StoreInv, TidyInv
<1>1. JobOK /\ job.inputs \subseteq SegmentNames
  BY DEF Tasks, Working
<1>2. /\ job.out \in Names /\ job.hi \in Seqs /\ job.inputs \subseteq Names
      /\ MinSeq(job.out) \in Nat /\ Level(job.out) \in Nat /\ job.hi \in Nat
  BY <1>1, NameTypes, StoreAssumption DEF JobOK, Seqs
<1>3. \A n \in job.inputs : n \in DOMAIN cat /\ cat[n].loc # "REMOTE"
  BY <1>1, EntryLocal
<1>4. \A n \in job.inputs : /\ MinSeq(n) \in Nat /\ Level(n) \in Nat /\ cat[n].hi \in Nat
                            /\ cat[n].hi \in Seqs /\ MinSeq(n) <= cat[n].hi
  BY <1>3, RowTypes DEF Extents
<1>5. \A n \in job.inputs : Level(n) + 1 = Level(job.out) /\ MinSeq(job.out) <= MinSeq(n)
  BY <1>1 DEF JobOK
<1>6. PICK m \in job.inputs : MinSeq(job.out) = MinSeq(m)
  BY <1>1 DEF JobOK
<1>7. Level(job.out) >= 1 /\ job.out \notin job.inputs
  BY <1>2, <1>4, <1>5, <1>6
<1>8. \A r \in Seqs : (\E n \in job.inputs : Within(r, n)) <=> (MinSeq(job.out) <= r /\ r <= job.hi)
  BY DEF Planned
<1>9. \A n \in job.inputs : Within(cat[n].hi, n) /\ Within(MinSeq(n), n) /\ MinSeq(n) \in Seqs
  BY <1>2, <1>4, NameTypes DEF Within
<1>10. \A n \in job.inputs : cat[n].hi <= job.hi
  BY <1>4, <1>8, <1>9
<1>11. MinSeq(job.out) <= job.hi
  BY <1>6, <1>8, <1>9
<1>12. ASSUME NEW r \in MinSeq(job.out)..job.hi
       PROVE  \E n \in job.inputs : Within(r, n)
  <2>1. r \in Seqs
    BY <1>2, NameTypes, StoreAssumption DEF Seqs
  <2> QED  BY <1>8, <2>1
<1> QED  BY <1>1, <1>2, <1>3, <1>4, <1>5, <1>7, <1>10, <1>11, <1>12

\* The output is new, in the catalog and in the bucket, and apart from all other rows.
LEMMA JobFresh ==
  ASSUME StoreInv, TidyInv, mpc \in Working
  PROVE  /\ job.out \notin DOMAIN cat /\ job.out \notin DOMAIN bucket
         /\ \A n \in DOMAIN cat \ job.inputs : cat[n].hi < MinSeq(job.out) \/ job.hi < MinSeq(n)
         /\ \A r \in Int : (\A n \in job.inputs : cat[n].hi < r) => job.hi < r
<1> USE DEF TidyInv
<1>1. /\ job.hi \in Nat /\ MinSeq(job.out) \in Nat /\ Level(job.out) \in Nat
      /\ MinSeq(job.out) <= job.hi /\ job.inputs \subseteq DOMAIN cat
      /\ \A r \in MinSeq(job.out)..job.hi : \E n \in job.inputs : Within(r, n)
      /\ \A n \in job.inputs : Level(n) < Level(job.out)
  BY JobRows
<1>2. ASSUME NEW n \in DOMAIN cat, NEW r \in MinSeq(job.out)..job.hi, Within(r, n)
      PROVE  n \in job.inputs
  <2>1. PICK m \in job.inputs : Within(r, m)
    BY <1>1
  <2>2. m = n
    BY <1>1, <1>2, <2>1, OneRow
  <2> QED  BY <2>2
<1>3. \A n \in DOMAIN cat : MinSeq(n) \in Nat /\ cat[n].hi \in Nat /\ MinSeq(n) <= cat[n].hi
                            /\ Level(n) \in Nat
  BY RowTypes DEF Extents
<1>4. job.out \notin DOMAIN cat
  <2>1. MinSeq(job.out) \in MinSeq(job.out)..job.hi
    BY <1>1
  <2>2. job.out \in DOMAIN cat => job.out \in job.inputs
    BY <1>2, <1>3, <2>1 DEF Within
  <2> QED  BY <2>2, JobRows
<1>5. ASSUME NEW n \in DOMAIN cat \ job.inputs
      PROVE  cat[n].hi < MinSeq(job.out) \/ job.hi < MinSeq(n)
  <2>1. MinSeq(job.out) \notin MinSeq(n)..cat[n].hi
    BY <1>1, <1>2, <1>3, <1>5 DEF Within
  <2>2. MinSeq(n) \notin MinSeq(job.out)..job.hi
    BY <1>1, <1>2, <1>3, <1>5 DEF Within
  <2> QED  BY <1>1, <1>3, <2>1, <2>2
<1>6. job.out \notin DOMAIN bucket
  <2> SUFFICES ASSUME job.out \in DOMAIN bucket
               PROVE  FALSE
    OBVIOUS
  <2>1. mode # "register"
    BY DEF Orphans, Registering, Working, StoreInv, Tasks
  <2>2. PICK m \in DOMAIN cat : Below(job.out, m, cat[m].hi)
    BY <1>4, <2>1 DEF Orphans
  <2>3. Top(job.out) \in Nat /\ MinSeq(job.out) <= Top(job.out)
    BY ObjectTypes
  <2>4. Within(MinSeq(job.out), m) /\ Level(job.out) < Level(m)
    BY <1>1, <1>3, <2>2, <2>3 DEF Below, Within
  <2>5. m \in job.inputs
    BY <1>1, <1>2, <2>4
  <2> QED  BY <1>1, <1>3, <2>4, <2>5
<1>7. ASSUME NEW r \in Int, \A n \in job.inputs : cat[n].hi < r
      PROVE  job.hi < r
  <2>1. PICK n \in job.inputs : Within(job.hi, n)
    BY <1>1
  <2> QED  BY <1>1, <1>3, <1>7, <2>1 DEF Within
<1> QED  BY <1>4, <1>5, <1>6, <1>7

\* The sealed rows are an interval that is new to the catalog.
LEMMA SealedInterval ==
  ASSUME StoreInv, Younger, fpc # "idle"
  PROVE  /\ sealed = Min(sealed)..Max(sealed)
         /\ Min(sealed) \in sealed /\ Max(sealed) \in sealed
         /\ Min(sealed) \in Nat /\ Max(sealed) \in Nat /\ Min(sealed) <= Max(sealed)
         /\ \A r \in sealed : r \in Nat /\ Min(sealed) <= r /\ r <= Max(sealed) /\ r < next_seq
         /\ MinSeq(Written) = Min(sealed) /\ Level(Written) = 0 /\ Written \in Names
<1> USE DEF StoreInv
<1>1. /\ sealed \subseteq Seqs /\ Min(sealed) \in sealed /\ Max(sealed) \in sealed
      /\ \A r \in sealed : Min(sealed) <= r /\ r <= Max(sealed)
      /\ MinSeq(Written) = Min(sealed) /\ Level(Written) = 0 /\ Written \in Names
  BY SealedFile DEF Written
<1>2. Seqs \subseteq Nat /\ next_seq \in Int
  BY StoreAssumption DEF Buffered, Seqs
<1>3. \A r \in sealed : r < next_seq
  BY <1>2 DEF Buffered
<1> HIDE DEF Min, Max
<1>4. ASSUME NEW r \in Min(sealed)..Max(sealed)
      PROVE  r \in sealed
  <2>a. \A q \in sealed : q \in Int
    BY <1>1, <1>2
  <2>0. Min(sealed) \in Int /\ Max(sealed) \in Int /\ Max(sealed) < next_seq
    BY <1>1, <1>3, <2>a
  <2>1. r \in Min(sealed)..(next_seq - 1)
    BY <1>2, <2>0
  <2>2. r \in ram \cup sealed
    BY <1>1, <2>1 DEF Younger
  <2>3. \A q \in ram : Max(sealed) < q
    BY <1>1 DEF Buffered
  <2>4. ram \subseteq Int
    BY DEF Buffered
  <2> QED  BY <2>0, <2>2, <2>3, <2>4
<1>5. \A r \in sealed : r \in Nat /\ r \in Min(sealed)..Max(sealed)
  BY <1>1, <1>2
<1> QED  BY <1>1, <1>2, <1>3, <1>4, <1>5

LEMMA WrittenFresh ==
  ASSUME StoreInv, Extents(cat), Younger, fpc \in {"sealed", "written"}
  PROVE  Written \notin DOMAIN cat /\ Written \notin SegmentNames
<1>1. Min(sealed) \in sealed /\ MinSeq(Written) = Min(sealed) /\ Min(sealed) \in Nat
  BY SealedInterval
<1>2. \A n \in DOMAIN cat : cat[n].hi < Min(sealed) /\ MinSeq(n) <= cat[n].hi
  BY <1>1 DEF Younger, Above, Extents
<1>3. \A n \in DOMAIN cat : cat[n].hi \in Nat /\ MinSeq(n) \in Nat
  BY RowTypes
<1>4. \A n \in SegmentNames : MinSeq(n) < Min(sealed)
  BY <1>1 DEF StoreInv, Buffered, Later
<1> QED  BY <1>1, <1>2, <1>3, <1>4

-----------------------------------------------------------------------------
(* What a step does to the catalog.                                        *)

LEMMA TidySteps ==
  ASSUME Tidy, StoreInv, TidyInv, Next
  PROVE  \/ AppendRow \/ Seal("task") \/ Seal("maintenance") \/ WriteSegment \/ UpsertSegment
         \/ (RestoreFlush /\ fpc = "sealed") \/ CommitFlush \/ Publish
         \/ StartCycle \/ StartStop \/ NothingToFlush
         \/ PlanJob \/ Merge \/ BumpRename \/ CommitSwap \/ UnlinkInput
         \/ ListBucket \/ Upload \/ UploadFails \/ MarkUploaded \/ EndUploads \/ DeleteOrphan
         \/ (\E n \in Evictable : ChooseEviction(n)) \/ EvictSegment \/ UnlinkEvicted \/ EndEviction
         \/ ReconcileList \/ ReconcileDrop \/ ReconcileAdopt \/ EndReconcile \/ Reseed
         \/ StartQuery \/ EndQuery \/ Stopped \/ LoseDisk \/ Open
<1>1. /\ "catalog" \notin Faults /\ "locate" \notin Faults /\ "list" \notin Faults
      /\ "timeout" \notin Faults /\ ~(crashes < MaxCrashes)
  BY DEF Tidy, TidyInv, Stages
<1>2. /\ ~Crash /\ ~CommitSwapFails /\ ~ListBucketFails /\ ~MarkUploadedFails /\ ~ReconcileListFails
      /\ ~AbortTask /\ ~CutSync
  BY <1>1 DEF Crash, CommitSwapFails, ListBucketFails, MarkUploadedFails, ReconcileListFails,
     AbortTask, CutSync
<1>3. RestoreFlush => fpc = "sealed"
  BY <1>1 DEF RestoreFlush
<1> QED  BY <1>2, <1>3 DEF Next, Flush, Maintain, Compact, Sync, Evict, Reconcile, Shutdown

SameRows == DOMAIN cat' = DOMAIN cat /\ \A n \in DOMAIN cat : cat'[n] = cat[n]
SameExtents == DOMAIN cat' = DOMAIN cat /\ \A n \in DOMAIN cat : cat'[n].hi = cat[n].hi

LEMMA UpsertEffect ==
  ASSUME UpsertSegment
  PROVE  /\ DOMAIN cat' = DOMAIN cat \cup {Written}
         /\ cat'[Written] = [hi |-> Max(sealed), loc |-> "LOCAL"]
         /\ \A n \in DOMAIN cat : n # Written => cat'[n] = cat[n]
<1> DEFINE row == [hi |-> Max(sealed), loc |-> "LOCAL"]
           n == <<0, Min(sealed)>>
<1>1. cat' = Put(cat, n, row)
  BY DEF UpsertSegment
<1> HIDE DEF row, n
<1>2. DOMAIN cat' = DOMAIN cat \cup {n} /\ cat'[n] = row /\ \A m \in DOMAIN cat : m # n => cat'[m] = cat[m]
  BY <1>1 DEF Put
<1> QED  BY <1>2 DEF row, n, Written

LEMMA SwapEffect ==
  ASSUME StoreInv, TidyInv, CommitSwap
  PROVE  /\ mpc \in Working /\ mpc \in {"swap", "splice"}
         /\ DOMAIN cat' = (DOMAIN cat \ job.inputs) \cup {job.out}
         /\ cat'[job.out] = [hi |-> job.hi, loc |-> "LOCAL"]
         /\ \A n \in DOMAIN cat \ job.inputs : n # job.out /\ cat'[n] = cat[n]
<1>1. mpc \in {"swap", "splice"}
  BY DEF CommitSwap, AtSplice
<1>2. mpc \in Working
  BY <1>1 DEF Working
<1>3. job.out \notin DOMAIN cat
  BY <1>2, JobFresh
<1> DEFINE row == [hi |-> job.hi, loc |-> "LOCAL"]
           left == Drop(cat, job.inputs)
<1>4. cat' = Put(left, job.out, row)
  BY DEF CommitSwap
<1>5. DOMAIN left = DOMAIN cat \ job.inputs /\ \A n \in DOMAIN cat \ job.inputs : left[n] = cat[n]
  BY DEF Drop, Restrict
<1> HIDE DEF row, left
<1>6. /\ DOMAIN cat' = DOMAIN left \cup {job.out} /\ cat'[job.out] = row
      /\ \A n \in DOMAIN left : n # job.out => cat'[n] = left[n]
  BY <1>4 DEF Put
<1> QED  BY <1>1, <1>2, <1>3, <1>5, <1>6 DEF row

LEMMA MarkEffect ==
  ASSUME StoreInv, TidyInv, MarkUploaded
  PROVE  LET n == First(todo) IN
         /\ n \in todo /\ n \in SegmentNames /\ n \in DOMAIN cat /\ n \in DOMAIN bucket
         /\ Level(n) >= 1 /\ cat[n].loc # "REMOTE"
         /\ DOMAIN cat' = DOMAIN cat /\ cat'[n] = [hi |-> cat[n].hi, loc |-> "BOTH"]
         /\ \A m \in DOMAIN cat : m # n => cat'[m] = cat[m]
<1> DEFINE n == First(todo)
<1>1. mpc = "mark"
  BY DEF MarkUploaded, MarkDeque
<1>2. n \in todo /\ n \in DOMAIN bucket
  BY <1>1, TodoNames DEF StoreInv, TidyInv, Tasks, Stages
<1>3. n \in SegmentNames /\ Level(n) >= 1
  BY <1>1, <1>2 DEF TidyInv, Stages
<1>4. n \in DOMAIN cat /\ cat[n].loc # "REMOTE"
  BY <1>3, EntryLocal DEF TidyInv
<1>5. cat' = [cat EXCEPT ![n].loc = "BOTH"]
  BY <1>4 DEF MarkUploaded, SetLocation
<1>6. cat[n] = [hi |-> cat[n].hi, loc |-> cat[n].loc]
  BY <1>4, RowTypes
<1> HIDE DEF n
<1>7. DOMAIN cat' = DOMAIN cat /\ \A m \in DOMAIN cat : m # n => cat'[m] = cat[m]
  BY <1>5
<1>8. cat'[n] = [cat[n] EXCEPT !.loc = "BOTH"]
  BY <1>4, <1>5
<1>9. cat'[n] = [hi |-> cat[n].hi, loc |-> "BOTH"]
  BY <1>6, <1>8
<1> QED  BY <1>2, <1>3, <1>4, <1>7, <1>9 DEF n

LEMMA EvictEffect ==
  ASSUME Tidy, StoreInv, TidyInv, EvictSegment
  PROVE  LET n == First(todo) IN
         /\ todo = {n} /\ n \in SegmentNames /\ n \in DOMAIN cat /\ n \in DOMAIN bucket
         /\ Level(n) >= 1 /\ cat[n].loc = "BOTH"
         /\ DOMAIN cat' = DOMAIN cat /\ cat'[n] = [hi |-> cat[n].hi, loc |-> "REMOTE"]
         /\ \A m \in DOMAIN cat : m # n => cat'[m] = cat[m]
         /\ Entries(local_segments') = {e \in Entries(local_segments) : e.name # n}
         /\ SegmentNames' = SegmentNames \ {n}
<1> DEFINE n == First(todo)
           at == Places({n})
<1>1. mpc = "evwait"
  BY DEF EvictSegment
<1>2. todo # {} /\ \E m \in Names : todo = {m} /\ Level(m) >= 1
  BY <1>1 DEF StoreInv, Tasks
<1>3. todo = {n} /\ Level(n) >= 1
  BY <1>2, TodoNames DEF StoreInv
<1>4. n \in SegmentNames /\ cat[n].loc = "BOTH"
  BY <1>1, <1>3 DEF TidyInv, Stages
<1>5. n \in DOMAIN cat /\ n \in DOMAIN bucket
  BY <1>4, EntryLocal DEF TidyInv, Archive
<1>6. at \subseteq DOMAIN local_segments /\ at # {}
  BY <1>4 DEF Places, SegmentNames
<1>7. Max(at) \in at
  <2>1. DOMAIN local_segments = 1..Len(local_segments) /\ Len(local_segments) \in Nat
    BY DEF StoreInv, Data
  <2> HIDE DEF at
  <2>2. \A k \in at : k \in 1..Len(local_segments)
    BY <1>6, <2>1
  <2>3. at \in SUBSET Int /\ Len(local_segments) \in Int /\ \A k \in at : k <= Len(local_segments)
    BY <2>1, <2>2
  <2> QED  BY <1>6, <2>3, MaxOfInts
<1>8. local_segments[Max(at)].name = n
  BY <1>7 DEF Places
<1>9. local_segments[Max(at)].loc = "BOTH"
  <2>1. local_segments[Max(at)] \in Entries(local_segments)
    BY <1>6, <1>7 DEF Entries
  <2>2. cat[n] = [hi |-> local_segments[Max(at)].hi, loc |-> local_segments[Max(at)].loc]
    BY <1>8, <2>1 DEF TidyInv, Mirrored
  <2> QED  BY <1>4, <2>2
<1>10. ~Fault("locate")
  BY DEF Tidy
<1>11. cat' = SetLocation(n, "REMOTE")
  BY <1>6, <1>9, <1>10 DEF EvictSegment
<1>12. cat' = [cat EXCEPT ![n].loc = "REMOTE"]
  BY <1>5, <1>11 DEF SetLocation
<1>13. cat[n] = [hi |-> cat[n].hi, loc |-> cat[n].loc]
  BY <1>5, RowTypes
<1>14. local_segments' = Picked(local_segments, DOMAIN local_segments \ Places({n}))
  BY DEF EvictSegment
<1>15. Entries(local_segments') = {e \in Entries(local_segments) : e.name # n}
  BY <1>14, EvictedEntries DEF StoreInv, Data
<1>16. SegmentNames' = SegmentNames \ {n}
  <2>1. SegmentNames' = {e.name : e \in Entries(local_segments')}
        /\ SegmentNames = {e.name : e \in Entries(local_segments)}
    BY DEF SegmentNames, Entries
  <2> QED  BY <1>15, <2>1
<1> HIDE DEF n, at
<1>17. DOMAIN cat' = DOMAIN cat /\ \A m \in DOMAIN cat : m # n => cat'[m] = cat[m]
  BY <1>12
<1>18. cat'[n] = [cat[n] EXCEPT !.loc = "REMOTE"]
  BY <1>5, <1>12
<1>19. cat'[n] = [hi |-> cat[n].hi, loc |-> "REMOTE"]
  BY <1>13, <1>18
<1> QED  BY <1>3, <1>4, <1>5, <1>15, <1>16, <1>17, <1>19 DEF n

LEMMA AdoptEffect ==
  ASSUME StoreInv, TidyInv, ReconcileAdopt
  PROVE  LET n == First(listed) IN
         /\ mode = "register" /\ mpc = "drop"
         /\ n \in listed /\ n \in DOMAIN bucket /\ n \notin DOMAIN cat
         /\ DOMAIN cat' = DOMAIN cat \cup {n}
         /\ cat'[n] = [hi |-> Top(n), loc |-> "REMOTE"]
         /\ \A m \in DOMAIN cat : cat'[m] = cat[m]
         /\ listed' = listed \ {n}
<1> DEFINE n == First(listed)
<1>1. mpc = "drop" /\ listed # {}
  BY DEF ReconcileAdopt
<1>2. mode = "register"
  BY <1>1 DEF TidyInv, Orphans
<1>3. n \in listed
  BY <1>1, FirstOfNames DEF StoreInv, Tasks
<1>4. n \in DOMAIN bucket /\ n \notin DOMAIN cat
  BY <1>1, <1>3 DEF StoreInv, Tasks, TidyInv, Orphans
<1>5. cat' = Put(cat, n, [hi |-> Top(n), loc |-> "REMOTE"]) /\ listed' = listed \ {n}
  BY DEF ReconcileAdopt, Top
<1> DEFINE row == [hi |-> Top(n), loc |-> "REMOTE"]
<1> HIDE DEF n, row
<1>6. /\ DOMAIN cat' = DOMAIN cat \cup {n} /\ cat'[n] = row
      /\ \A m \in DOMAIN cat : m # n => cat'[m] = cat[m]
  BY <1>5 DEF Put, row
<1> QED  BY <1>1, <1>2, <1>3, <1>4, <1>5, <1>6 DEF n, row

\* A reconcile deletes objects that the catalog does not know.
LEMMA DropEffect ==
  ASSUME StoreInv, TidyInv, ReconcileDrop \/ DeleteOrphan
  PROVE  LET n == First(todo) IN
         /\ SameRows /\ mpc \in {"drop", "orphans"}
         /\ n \in todo /\ n \notin DOMAIN cat /\ Level(n) >= 1 /\ todo' = todo \ {n}
         /\ DOMAIN bucket \ {n} \subseteq DOMAIN bucket' /\ DOMAIN bucket' \subseteq DOMAIN bucket
         /\ \A m \in DOMAIN bucket' : bucket'[m] = bucket[m]
<1> DEFINE n == First(todo)
<1>1. mpc \in {"drop", "orphans"} /\ todo # {} /\ todo' = todo \ {n}
  BY DEF ReconcileDrop, DeleteOrphan, StoreInv, Tasks
<1>2. n \in todo
  BY <1>1, TodoNames DEF StoreInv
<1>3. n \notin DOMAIN cat /\ Level(n) >= 1
  BY <1>1, <1>2 DEF TidyInv, Orphans
<1>4. cat' = Drop(cat, {n}) \/ cat' = cat
  BY DEF ReconcileDrop, DeleteOrphan
<1>5. bucket' = Drop(bucket, {n}) \/ bucket' = bucket
  BY DEF ReconcileDrop, DeleteOrphan
<1> HIDE DEF n
<1>6. SameRows
  BY <1>3, <1>4 DEF SameRows, Drop, Restrict
<1>7. /\ DOMAIN bucket \ {n} \subseteq DOMAIN bucket' /\ DOMAIN bucket' \subseteq DOMAIN bucket
      /\ \A m \in DOMAIN bucket' : bucket'[m] = bucket[m]
  <2>1. CASE bucket' = bucket
    BY <2>1
  <2>2. CASE bucket' = Drop(bucket, {n})
    BY <2>2 DEF Drop, Restrict
  <2> QED  BY <1>5, <2>1, <2>2
<1> QED  BY <1>1, <1>2, <1>3, <1>6, <1>7 DEF n

\* What is left on the disk when a process ends is what its catalog says.
LEMMA OpenEffect ==
  ASSUME StoreInv, TidyInv, Open
  PROVE  /\ SameRows
         /\ \A n \in DOMAIN cat : cat[n].hi < next_seq'
         /\ \A n \in DOMAIN disk : n \in DOMAIN cat /\ cat[n].loc # "REMOTE"
         /\ \A n \in DOMAIN cat : cat[n].loc # "REMOTE" => n \in DOMAIN disk
<1> USE DEF StoreInv, TidyInv
<1>1. ~up /\ mpc = "idle" /\ fpc = "idle"
  BY DEF Open, Tasks
<1>2. \A n \in DOMAIN disk : n \in DOMAIN cat /\ cat[n].loc # "REMOTE"
  BY <1>1 DEF Content
<1>3. \A n \in DOMAIN cat : cat[n].loc # "REMOTE" => n \in DOMAIN disk
  BY <1>1 DEF Content
<1>4. KeptRows \cup DOMAIN disk = DOMAIN cat
  <2>1. \A n \in DOMAIN cat : n \in KeptRows
    BY <1>3 DEF KeptRows
  <2> QED  BY <1>2, <2>1 DEF KeptRows
<1>5. \A n \in DOMAIN cat :
        /\ n \in Names /\ MinSeq(n) \in Nat /\ cat[n].hi \in Nat /\ cat[n].loc \in Loc
        /\ MinSeq(n) <= cat[n].hi /\ cat[n] = [hi |-> cat[n].hi, loc |-> cat[n].loc]
  BY RowTypes DEF Extents
<1>6. \A n \in DOMAIN disk : FooterMax(n, disk[n]) = cat[n].hi
  BY <1>2, <1>5, IntervalFooter DEF Content
<1>7. ASSUME NEW n \in DOMAIN cat
      PROVE  AdoptedRow(n) = cat[n]
  <2>1. CASE n \in DOMAIN disk
    BY <1>2, <1>5, <1>6, <2>1 DEF AdoptedRow
  <2>2. CASE n \notin DOMAIN disk
    BY <1>3, <1>5, <2>2 DEF AdoptedRow
  <2> QED  BY <2>1, <2>2
<1>8. SameRows
  BY <1>4, <1>7 DEF Open, SameRows
<1> DEFINE S == {0} \cup {FooterMax(n, disk[n]) : n \in DOMAIN disk}
                    \cup {cat[n].hi : n \in KeptRows}
<1>9. S \in SUBSET Int /\ S # {} /\ MaxSeq \in Int /\ \A x \in S : x <= MaxSeq
  <2>1. \A n \in DOMAIN cat : cat[n].hi \in Seqs
    BY RowTypes
  <2>2. S \subseteq Seqs \cup {0}
    BY <1>2, <1>6, <2>1 DEF KeptRows
  <2> QED  BY <2>2, StoreAssumption DEF Seqs
<1>10. \A n \in DOMAIN cat : cat[n].hi \in S
  <2>1. DOMAIN cat \subseteq KeptRows
    BY <1>3 DEF KeptRows
  <2> QED  BY <2>1
<1>11. next_seq' = 1 + Max(S)
  BY DEF Open, recover_next_seq
<1> HIDE DEF S
<1>12. Max(S) \in S /\ \A x \in S : x <= Max(S)
  BY <1>9, MaxOfInts
<1>13. ASSUME NEW n \in DOMAIN cat
       PROVE  cat[n].hi < next_seq'
  <2>1. cat[n].hi \in Int /\ cat[n].hi <= Max(S) /\ Max(S) \in Int
    BY <1>5, <1>9, <1>10, <1>12
  <2> QED  BY <1>11, <2>1
<1> QED  BY <1>2, <1>3, <1>8, <1>13

LEMMA CatalogSteps ==
  ASSUME Tidy, StoreInv, TidyInv, Next
  PROVE  \/ SameRows \/ UpsertSegment \/ CommitSwap \/ MarkUploaded \/ EvictSegment
         \/ ReconcileAdopt \/ LoseDisk
<1>1. UNCHANGED cat => SameRows
  BY DEF SameRows
<1> QED
  BY <1>1, TidySteps, DropEffect, OpenEffect DEF AppendRow, Seal, WriteSegment, RestoreFlush,
     CommitFlush, Publish, StartCycle, StartStop, NothingToFlush, PlanJob, Merge, BumpRename,
     UnlinkInput, ListBucket, Upload, UploadFails, EndUploads, ChooseEviction, UnlinkEvicted,
     EndEviction, ReconcileList, EndReconcile, Reseed, StartQuery, EndQuery, Stopped

-----------------------------------------------------------------------------
(* Which steps change what. *)

LEMMA BufferSteps ==
  ASSUME Tidy, StoreInv, TidyInv, Next
  PROVE  \/ UNCHANGED <<next_seq, ram, sealed, fpc>>
         \/ AppendRow \/ Seal("task") \/ Seal("maintenance") \/ WriteSegment \/ UpsertSegment
         \/ (RestoreFlush /\ fpc = "sealed") \/ CommitFlush \/ Publish \/ Reseed \/ Stopped \/ Open
BY TidySteps DEF StartCycle, StartStop, NothingToFlush, PlanJob, Merge, BumpRename, CommitSwap,
   UnlinkInput, ListBucket, Upload, UploadFails, MarkUploaded, MarkDeque, EndUploads, DeleteOrphan,
   ChooseEviction, EvictSegment, UnlinkEvicted, EndEviction, ReconcileList, ReconcileDrop,
   ReconcileAdopt, EndReconcile, StartQuery, EndQuery, LoseDisk

LEMMA DiskSteps ==
  ASSUME Tidy, StoreInv, TidyInv, Next
  PROVE  \/ UNCHANGED disk
         \/ WriteSegment \/ Merge \/ BumpRename \/ UnlinkInput \/ UnlinkEvicted \/ LoseDisk
BY TidySteps DEF AppendRow, Seal, UpsertSegment, RestoreFlush, CommitFlush, Publish,
   StartCycle, StartStop, NothingToFlush, PlanJob, CommitSwap,
   ListBucket, Upload, UploadFails, MarkUploaded, MarkDeque, EndUploads, DeleteOrphan,
   ChooseEviction, EvictSegment, EndEviction, ReconcileList, ReconcileDrop,
   ReconcileAdopt, EndReconcile, Reseed, StartQuery, EndQuery, Stopped, Open

\* The put of an upload is applied, whatever its answer.
Uploads == Upload \/ (UploadFails /\ bucket' # bucket)

LEMMA BucketSteps ==
  ASSUME Tidy, StoreInv, TidyInv, Next
  PROVE  UNCHANGED bucket \/ Uploads \/ ReconcileDrop \/ DeleteOrphan
BY TidySteps DEF AppendRow, Seal, WriteSegment, UpsertSegment, RestoreFlush, CommitFlush, Publish,
   StartCycle, StartStop, NothingToFlush, PlanJob, Merge, BumpRename, CommitSwap, UnlinkInput,
   ListBucket, Uploads, MarkUploaded, MarkDeque, EndUploads,
   ChooseEviction, EvictSegment, UnlinkEvicted, EndEviction, ReconcileList,
   ReconcileAdopt, EndReconcile, Reseed, StartQuery, EndQuery, Stopped, LoseDisk, Open

LEMMA DequeSteps ==
  ASSUME Tidy, StoreInv, TidyInv, Next
  PROVE  \/ UNCHANGED local_segments
         \/ CommitFlush \/ CommitSwap \/ MarkUploaded \/ EvictSegment \/ Stopped \/ Open
BY TidySteps DEF AppendRow, Seal, WriteSegment, UpsertSegment, RestoreFlush, Publish,
   StartCycle, StartStop, NothingToFlush, PlanJob, Merge, BumpRename, UnlinkInput,
   ListBucket, Upload, UploadFails, EndUploads, DeleteOrphan,
   ChooseEviction, UnlinkEvicted, EndEviction, ReconcileList, ReconcileDrop,
   ReconcileAdopt, EndReconcile, Reseed, StartQuery, EndQuery, LoseDisk

LEMMA JobSteps ==
  ASSUME Tidy, StoreInv, TidyInv, Next
  PROVE  \/ UNCHANGED <<mpc, job>> \/ mpc' \notin Working
         \/ PlanJob \/ (Merge /\ mpc' = "swap" /\ UNCHANGED job) \/ (BumpRename /\ mpc' = "splice" /\ UNCHANGED job)
<1>1. CASE \/ AppendRow \/ Seal("task") \/ Seal("maintenance") \/ WriteSegment \/ UpsertSegment
           \/ RestoreFlush \/ CommitFlush \/ Publish \/ StartCycle \/ StartStop \/ NothingToFlush
           \/ StartQuery \/ EndQuery \/ Stopped \/ LoseDisk \/ Open
  BY <1>1 DEF AppendRow, Seal, WriteSegment, UpsertSegment, RestoreFlush, CommitFlush, Publish,
     AfterFlush, StartCycle, StartStop, NothingToFlush, StartQuery, EndQuery, Stopped, Down,
     LoseDisk, Open, Working
<1>2. CASE Merge \/ BumpRename \/ CommitSwap \/ UnlinkInput
  BY <1>2 DEF Merge, BumpRename, CommitSwap, UnlinkInput, Working
<1>3. CASE \/ ListBucket \/ Upload \/ UploadFails \/ MarkUploaded \/ EndUploads \/ DeleteOrphan
           \/ UnlinkEvicted \/ EndEviction \/ EvictSegment
           \/ ReconcileList \/ ReconcileDrop \/ ReconcileAdopt \/ EndReconcile \/ Reseed
  BY <1>3 DEF ListBucket, Upload, UploadFails, MarkUploaded, MarkDeque, EndUploads, DeleteOrphan,
     AfterSync, EvictSegment, UnlinkEvicted, EndEviction, ReconcileList, ReconcileDrop,
     ReconcileAdopt, EndReconcile, Reseed, Working
<1>4. CASE \E n \in Evictable : ChooseEviction(n)
  BY <1>4 DEF ChooseEviction, Working
<1> QED  BY <1>1, <1>2, <1>3, <1>4, TidySteps

-----------------------------------------------------------------------------
(* The rows of the catalog stay apart. *)

LEMMA NextExtents ==
  ASSUME Tidy, StoreInv, TidyInv, Next
  PROVE  Extents(cat')
<1> USE DEF TidyInv
<1>1. CASE SameRows
  BY <1>1 DEF SameRows, Extents
<1>2. CASE UpsertSegment
  <2>1. fpc = "written"
    BY <1>2 DEF UpsertSegment
  <2>2. MinSeq(Written) = Min(sealed) /\ Min(sealed) <= Max(sealed) /\ Min(sealed) \in sealed
    BY <2>1, SealedInterval
  <2>3. \A n \in DOMAIN cat : cat[n].hi < MinSeq(Written)
    BY <2>1, <2>2 DEF Younger, Above
  <2>4. Written \notin DOMAIN cat
    BY <2>1, WrittenFresh
  <2>5. /\ DOMAIN cat' = DOMAIN cat \cup {Written} /\ cat'[Written].hi = Max(sealed)
        /\ \A n \in DOMAIN cat : cat'[n] = cat[n] /\ n # Written
    BY <1>2, <2>4, UpsertEffect
  <2> QED  BY <2>2, <2>3, <2>5 DEF Extents
<1>3. CASE CommitSwap
  <2>1. /\ mpc \in Working
        /\ DOMAIN cat' = (DOMAIN cat \ job.inputs) \cup {job.out}
        /\ cat'[job.out].hi = job.hi
        /\ \A n \in DOMAIN cat \ job.inputs : n # job.out /\ cat'[n] = cat[n]
    BY <1>3, SwapEffect
  <2>2. /\ MinSeq(job.out) <= job.hi
        /\ \A n \in DOMAIN cat \ job.inputs : cat[n].hi < MinSeq(job.out) \/ job.hi < MinSeq(n)
    BY <2>1, JobRows, JobFresh
  <2> QED  BY <2>1, <2>2 DEF Extents
<1>4. CASE MarkUploaded
  <2>1. DOMAIN cat' = DOMAIN cat /\ \A n \in DOMAIN cat : cat'[n].hi = cat[n].hi
    BY <1>4, MarkEffect
  <2> QED  BY <2>1 DEF Extents
<1>5. CASE EvictSegment
  <2>1. DOMAIN cat' = DOMAIN cat /\ \A n \in DOMAIN cat : cat'[n].hi = cat[n].hi
    BY <1>5, EvictEffect
  <2> QED  BY <2>1 DEF Extents
<1>6. CASE ReconcileAdopt
  <2> DEFINE n == First(listed)
  <2>1. /\ mode = "register" /\ mpc = "drop" /\ n \in listed /\ n \in DOMAIN bucket
        /\ n \notin DOMAIN cat /\ DOMAIN cat' = DOMAIN cat \cup {n} /\ cat'[n].hi = Top(n)
        /\ \A m \in DOMAIN cat : cat'[m] = cat[m]
    BY <1>6, AdoptEffect
  <2> HIDE DEF n
  <2>2. MinSeq(n) <= Top(n)
    BY <2>1, ObjectTypes
  <2>3. ASSUME NEW m \in DOMAIN cat
        PROVE  cat[m].hi < MinSeq(n) \/ Top(n) < MinSeq(m)
    <3>1. m \in DOMAIN bucket /\ Top(m) = cat[m].hi /\ m # n
      BY <2>1, <2>3 DEF Orphans, Registering, Archive
    <3>2. ~Below(m, n, Top(n)) /\ ~Below(n, m, Top(m))
      BY <2>1, <2>3 DEF Orphans, Registering
    <3> QED  BY <2>1, <3>1, <3>2 DEF Archive
  <2> QED  BY <2>1, <2>2, <2>3 DEF Extents
<1>7. CASE LoseDisk
  BY <1>7 DEF LoseDisk, Extents
<1> QED  BY <1>1, <1>2, <1>3, <1>4, <1>5, <1>6, <1>7, CatalogSteps
-----------------------------------------------------------------------------
(* The deque's names. *)

LEMMA SwapDeque ==
  ASSUME StoreInv, TidyInv, CommitSwap
  PROVE  /\ Entries(local_segments') =
              {e \in Entries(local_segments) : e.name \notin job.inputs}
                \cup {Segment(job.out, job.hi, "LOCAL")}
         /\ SegmentNames' = (SegmentNames \ job.inputs) \cup {job.out}
<1>1. mpc \in {"swap", "splice"} /\ local_segments' = Spliced
  BY DEF CommitSwap, AtSplice
<1>2. local_segments \in Seq(Segs) /\ JobOK /\ job.inputs \subseteq SegmentNames
  BY <1>1 DEF StoreInv, Data, Tasks
<1>3. Entries(local_segments') =
        {e \in Entries(local_segments) : e.name \notin job.inputs}
          \cup {Segment(job.out, job.hi, "LOCAL")}
  BY <1>1, <1>2, SplicedEntries
<1>4. SegmentNames' = {e.name : e \in Entries(local_segments')}
      /\ SegmentNames = {e.name : e \in Entries(local_segments)}
  BY DEF SegmentNames, Entries
<1>5. Segment(job.out, job.hi, "LOCAL").name = job.out
  BY DEF Segment
<1> QED  BY <1>3, <1>4, <1>5

LEMMA MarkNames ==
  ASSUME StoreInv, MarkUploaded
  PROVE  SegmentNames' = SegmentNames
BY MarkedDeque DEF MarkUploaded, StoreInv, Data, NamesOf, SegmentNames

\* The flushed segment whose catalog row waits for the commit stays out of the deque.
LEMMA NextCataloged ==
  ASSUME Tidy, StoreInv, TidyInv, Next, fpc' = "cataloged"
  PROVE  /\ Written' \in DOMAIN cat' \ SegmentNames'
         /\ cat'[Written'] = [hi |-> Max(sealed'), loc |-> "LOCAL"]
<1> USE DEF TidyInv
<1>1. CASE UpsertSegment
  <2>1. fpc = "written" /\ UNCHANGED <<sealed, local_segments>>
    BY <1>1 DEF UpsertSegment
  <2>2. Written' = Written /\ SegmentNames' = SegmentNames /\ Max(sealed') = Max(sealed)
    BY <2>1 DEF Written, SegmentNames
  <2>3. Written \notin SegmentNames
    BY <2>1, WrittenFresh
  <2> QED  BY <1>1, <2>2, <2>3, UpsertEffect
<1>2. CASE ~UpsertSegment
  <2>1. fpc = "cataloged" /\ sealed' = sealed
    BY <1>2, BufferSteps DEF AppendRow, Seal, WriteSegment, RestoreFlush, CommitFlush, Publish,
       Reseed, Stopped, Down, Open
  <2>2. Written' = Written /\ Max(sealed') = Max(sealed)
    BY <2>1 DEF Written
  <2>3. Written \in DOMAIN cat \ SegmentNames /\ cat[Written] = [hi |-> Max(sealed), loc |-> "LOCAL"]
    BY <2>1 DEF Younger
  <2>4. Level(Written) = 0
    BY <2>1, SealedInterval
  <2>5. Written \in DOMAIN cat' /\ cat'[Written] = cat[Written]
    <3>1. CASE SameRows
      BY <2>3, <3>1 DEF SameRows
    <3>2. CASE CommitSwap
      <4>1. Written \notin job.inputs
        BY <2>3, <3>2, SwapEffect, JobRows
      <4> QED  BY <2>3, <3>2, <4>1, SwapEffect
    <3>3. CASE MarkUploaded
      BY <2>3, <3>3, MarkEffect
    <3>4. CASE EvictSegment
      BY <2>3, <3>4, EvictEffect
    <3>5. CASE ReconcileAdopt
      BY <2>1, <3>5, AdoptEffect DEF Orphans, Registering
    <3>6. CASE LoseDisk
      BY <2>1, <3>6 DEF LoseDisk, StoreInv, Tasks
    <3> QED  BY <1>2, <3>1, <3>2, <3>3, <3>4, <3>5, <3>6, CatalogSteps
  <2>6. Written \notin SegmentNames'
    <3>1. CASE UNCHANGED local_segments
      BY <2>3, <3>1 DEF SegmentNames
    <3>2. CASE CommitSwap
      <4>1. Level(job.out) >= 1
        BY <3>2, SwapEffect, JobRows
      <4> QED  BY <2>3, <2>4, <3>2, <4>1, SwapDeque
    <3>3. CASE MarkUploaded
      BY <2>3, <3>3, MarkNames
    <3>4. CASE EvictSegment
      BY <2>3, <3>4, EvictEffect
    <3>5. CASE CommitFlush \/ Stopped \/ Open
      BY <2>1, <3>5 DEF CommitFlush, Stopped, Down, Open, StoreInv, Tasks
    <3> QED  BY <3>1, <3>2, <3>3, <3>4, <3>5, DequeSteps
  <2> QED  BY <2>2, <2>3, <2>5, <2>6
<1> QED  BY <1>1, <1>2

-----------------------------------------------------------------------------
(* What is not flushed stays the newest. *)

LEMMA BufferNats ==
  ASSUME StoreInv
  PROVE  /\ next_seq \in Nat /\ \A r \in ram \cup sealed : r \in Nat /\ r < next_seq
         /\ \A r \in sealed, q \in ram : r < q
         /\ fpc = "idle" <=> sealed = {}
<1>1. next_seq \in Nat /\ ram \cup sealed \subseteq 1..(next_seq - 1)
  BY StoreAssumption DEF StoreInv, Buffered
<1> QED  BY <1>1 DEF StoreInv, Buffered

\* The rows of the catalog after a step, as far as a bound on them goes.
LEMMA NextAbove ==
  ASSUME Tidy, StoreInv, TidyInv, Next, NEW r \in Int, Above(cat, r),
         UpsertSegment => Max(sealed) < r, ~ReconcileAdopt
  PROVE  Above(cat', r)
<1>1. CASE SameRows
  BY <1>1 DEF SameRows, Above
<1>2. CASE UpsertSegment
  BY <1>2, UpsertEffect DEF Above
<1>3. CASE CommitSwap
  <2>1. mpc \in Working /\ \A n \in job.inputs : n \in DOMAIN cat
    BY <1>3, SwapEffect, JobRows
  <2>2. job.hi < r
    BY <2>1, JobFresh DEF Above
  <2> QED  BY <1>3, <2>2, SwapEffect DEF Above
<1>4. CASE MarkUploaded
  <2>1. DOMAIN cat' = DOMAIN cat /\ \A n \in DOMAIN cat : cat'[n].hi = cat[n].hi
    BY <1>4, MarkEffect
  <2> QED  BY <2>1 DEF Above
<1>5. CASE EvictSegment
  <2>1. DOMAIN cat' = DOMAIN cat /\ \A n \in DOMAIN cat : cat'[n].hi = cat[n].hi
    BY <1>5, EvictEffect
  <2> QED  BY <2>1 DEF Above
<1>6. CASE LoseDisk
  BY <1>6 DEF LoseDisk, Above
<1> QED  BY <1>1, <1>2, <1>3, <1>4, <1>5, <1>6, CatalogSteps

\* The reseed of a namespace that takes rows meanwhile changes nothing.
LEMMA ReseedEffect ==
  ASSUME StoreInv, TidyInv, Reseed
  PROVE  /\ \A n \in DOMAIN cat : cat[n].hi < next_seq'
         /\ next_seq <= next_seq' /\ next_seq' \in Nat
         /\ mode # "register" => next_seq' = next_seq
<1> USE DEF StoreInv, TidyInv
<1> DEFINE S == {next_seq} \cup {cat[n].hi + 1 : n \in DOMAIN cat}
<1>1. S \subseteq 1..(MaxSeq + 1) /\ S # {} /\ next_seq \in S /\ \A n \in DOMAIN cat : cat[n].hi + 1 \in S
  BY StoreAssumption DEF Buffered, Data, Seqs
<1>2. next_seq' = Max(S) /\ up
  BY DEF Reseed
<1>3. mode # "register" => \A x \in S : x <= next_seq
  <2> SUFFICES ASSUME mode # "register", NEW n \in DOMAIN cat
               PROVE  cat[n].hi + 1 <= next_seq
    BY BufferNats
  <2>1. cat[n].hi < next_seq
    BY <1>2 DEF Younger, Above
  <2>2. cat[n].hi \in Nat /\ next_seq \in Nat
    BY RowTypes, BufferNats
  <2> QED  BY <2>1, <2>2
<1> HIDE DEF S
<1>4. Max(S) \in S /\ \A x \in S : x <= Max(S)
  <2>1. S \in SUBSET Int /\ MaxSeq + 1 \in Int /\ \A x \in S : x <= MaxSeq + 1
    BY <1>1, StoreAssumption
  <2> QED  BY <1>1, <2>1, MaxOfInts
<1>5. Max(S) \in Nat /\ next_seq <= Max(S)
  <2>1. Max(S) \in 1..(MaxSeq + 1) /\ next_seq <= Max(S)
    BY <1>1, <1>4
  <2> QED  BY <2>1, StoreAssumption
<1>6. \A n \in DOMAIN cat : cat[n].hi < Max(S)
  <2> SUFFICES ASSUME NEW n \in DOMAIN cat
               PROVE  cat[n].hi < Max(S)
    OBVIOUS
  <2>1. cat[n].hi \in Nat /\ cat[n].hi + 1 <= Max(S)
    BY <1>1, <1>4, RowTypes
  <2> QED  BY <1>5, <2>1
<1>7. mode # "register" => Max(S) = next_seq
  <2>1. next_seq \in Nat
    BY BufferNats
  <2>2. mode # "register" => Max(S) <= next_seq
    BY <1>3, <1>4
  <2> QED  BY <1>5, <2>1, <2>2
<1> QED  BY <1>2, <1>5, <1>6, <1>7

LEMMA YoungerRows ==
  ASSUME Tidy, StoreInv, TidyInv, Next
  PROVE  \A r \in ram' \cup sealed' : r..(next_seq' - 1) \subseteq ram' \cup sealed'
<1> USE DEF TidyInv
<1>0. \A r \in ram \cup sealed : r..(next_seq - 1) \subseteq ram \cup sealed
  BY DEF Younger
<1>1. CASE UNCHANGED next_seq /\ ram' \cup sealed' = ram \cup sealed
  BY <1>0, <1>1
<1>2. CASE AppendRow
  <2>1. ram' = ram \cup {next_seq} /\ next_seq' = next_seq + 1 /\ sealed' = sealed
    BY <1>2 DEF AppendRow
  <2>2. ASSUME NEW r \in ram \cup sealed, NEW q \in r..next_seq
        PROVE  q \in r..(next_seq - 1) \/ q = next_seq
    BY BufferNats
  <2>3. \A q \in next_seq..next_seq : q = next_seq
    BY BufferNats
  <2>4. next_seq' - 1 = next_seq
    BY <2>1, BufferNats
  <2> QED  BY <1>0, <2>1, <2>2, <2>3, <2>4
<1>3. CASE Publish
  <2>1. ram' = ram /\ next_seq' = next_seq /\ sealed' = {}
    BY <1>3 DEF Publish
  <2>2. ASSUME NEW r \in ram, NEW q \in r..(next_seq - 1)
        PROVE  q \in ram
    <3>1. q \in ram \cup sealed /\ r <= q
      BY <1>0, <2>2
    <3>2. q \notin sealed
      BY <3>1, BufferNats
    <3> QED  BY <3>1, <3>2
  <2> QED  BY <2>1, <2>2
<1>4. CASE Reseed
  <2>1. ram' = ram /\ sealed' = sealed
    BY <1>4 DEF Reseed
  <2>2. CASE mode = "register"
    <3>1. ram = {} /\ sealed = {}
      BY <2>2, BufferNats DEF Orphans, Registering
    <3> QED  BY <2>1, <3>1
  <2>3. CASE mode # "register"
    BY <1>1, <1>4, <2>1, <2>3, ReseedEffect
  <2> QED  BY <2>2, <2>3
<1>5. CASE Stopped \/ Open
  <2>1. ram' = {} /\ sealed' = {}
    BY <1>5, BufferNats DEF Stopped, Down, Open, StoreInv, Tasks
  <2> QED  BY <2>1
<1>6. CASE Seal("task") \/ Seal("maintenance")
  <2>1. sealed = {} /\ sealed' = ram /\ ram' = {} /\ next_seq' = next_seq
    BY <1>6, BufferNats DEF Seal
  <2> QED  BY <1>1, <2>1
<1>7. CASE RestoreFlush
  BY <1>1, <1>7 DEF RestoreFlush
<1>8. CASE WriteSegment \/ UpsertSegment \/ CommitFlush
  BY <1>1, <1>8 DEF WriteSegment, UpsertSegment, CommitFlush
<1> QED  BY <1>1, <1>2, <1>3, <1>4, <1>5, <1>6, <1>7, <1>8, BufferSteps

LEMMA YoungerNext ==
  ASSUME Tidy, StoreInv, TidyInv, Next, up', mode' # "register"
  PROVE  Above(cat', next_seq')
<1> USE DEF TidyInv
<1>1. CASE Open
  BY <1>1, OpenEffect DEF Above, SameRows
<1>2. CASE Reseed
  <2>1. cat' = cat
    BY <1>2 DEF Reseed
  <2> QED  BY <1>2, <2>1, ReseedEffect DEF Above
<1>3. CASE ~Open /\ ~Reseed
  <2>1. up /\ mode # "register"
    <3>1. CASE UNCHANGED <<up, mode>>
      BY <3>1
    <3>2. CASE Stopped \/ StartStop \/ EndReconcile \/ LoseDisk
      BY <3>2 DEF Stopped, Down, StartStop, EndReconcile, LoseDisk
    <3> QED
      BY <1>3, <3>1, <3>2, TidySteps DEF AppendRow, Seal, WriteSegment, UpsertSegment, RestoreFlush,
         CommitFlush, Publish, StartCycle, NothingToFlush, PlanJob, Merge, BumpRename, CommitSwap,
         UnlinkInput, ListBucket, Upload, UploadFails, MarkUploaded, MarkDeque, EndUploads,
         DeleteOrphan, ChooseEviction, EvictSegment, UnlinkEvicted, EndEviction, ReconcileList,
         ReconcileDrop, ReconcileAdopt, StartQuery, EndQuery
  <2>2. Above(cat, next_seq) /\ next_seq \in Nat
    BY <2>1, BufferNats DEF Younger
  <2>3. next_seq <= next_seq' /\ next_seq' \in Nat
    <3>1. CASE UNCHANGED next_seq
      BY <2>2, <3>1
    <3>2. CASE AppendRow
      BY <2>2, <3>2 DEF AppendRow
    <3>3. CASE Stopped
      BY <3>3 DEF Stopped, Down
    <3> QED
      BY <1>3, <3>1, <3>2, <3>3, BufferSteps DEF Seal, WriteSegment, UpsertSegment, RestoreFlush,
         CommitFlush, Publish
  <2>4. UpsertSegment => Max(sealed) < next_seq
    BY SealedInterval DEF UpsertSegment
  <2>5. ~ReconcileAdopt
    BY <2>1, AdoptEffect
  <2>6. Above(cat', next_seq)
    BY <2>2, <2>4, <2>5, NextAbove
  <2>7. \A n \in DOMAIN cat' : cat'[n].hi \in Int
    BY StoreStep, StoreAssumption DEF StoreInv, Data, Seqs
  <2> QED  BY <2>2, <2>3, <2>6, <2>7 DEF Above
<1> QED  BY <1>1, <1>2, <1>3

\* Rows in the buffer, and those sealed that have no row of the catalog yet.
LEMMA YoungerAbove ==
  ASSUME Tidy, StoreInv, TidyInv, Next
  PROVE  /\ \A r \in ram' : Above(cat', r)
         /\ fpc' \in {"sealed", "written"} => \A r \in sealed' : Above(cat', r)
<1> USE DEF TidyInv
<1> DEFINE old == ram \cup {r \in sealed : fpc \in {"sealed", "written"}}
           new == ram' \cup {r \in sealed' : fpc' \in {"sealed", "written"}}
<1>1. \A r \in old : Above(cat, r) /\ r \in Nat
  BY BufferNats DEF Younger
<1>2. CASE ReconcileAdopt
  <2>1. ram = {} /\ fpc = "idle" /\ ram' = ram /\ fpc' = fpc
    BY <1>2, AdoptEffect DEF ReconcileAdopt, Orphans, Registering
  <2> QED  BY <2>1
<1>3. CASE AppendRow
  <2>1. /\ ram' = ram \cup {next_seq} /\ UNCHANGED <<sealed, fpc, cat>>
        /\ Above(cat, next_seq)
    BY <1>3 DEF AppendRow, Younger
  <2> QED  BY <1>1, <2>1 DEF Above
<1>4. CASE UpsertSegment
  <2>1. fpc = "written" /\ ram' = ram /\ fpc' = "cataloged"
    BY <1>4 DEF UpsertSegment
  <2>2. Max(sealed) \in sealed
    BY <2>1, SealedInterval
  <2>3. \A r \in ram : Max(sealed) < r
    BY <2>2, BufferNats
  <2>4. \A r \in ram : r \in Int /\ Above(cat, r)
    BY <1>1
  <2>5. \A r \in ram : Above(cat', r)
    BY <1>4, <2>3, <2>4, NextAbove DEF ReconcileAdopt, UpsertSegment
  <2> QED  BY <2>1, <2>5
<1>5. CASE ~ReconcileAdopt /\ ~AppendRow /\ ~UpsertSegment
  <2>1. new \subseteq old
    <3>1. CASE UNCHANGED <<next_seq, ram, sealed, fpc>>
      BY <3>1
    <3>2. CASE Stopped \/ Open
      BY <3>2 DEF Stopped, Down, Open, StoreInv, Tasks
    <3>3. CASE Seal("task") \/ Seal("maintenance") \/ WriteSegment \/ (RestoreFlush /\ fpc = "sealed")
      BY <3>3 DEF Seal, WriteSegment, RestoreFlush
    <3>4. CASE CommitFlush \/ Publish \/ Reseed
      BY <3>4 DEF CommitFlush, Publish, Reseed
    <3> QED  BY <1>5, <3>1, <3>2, <3>3, <3>4, BufferSteps
  <2>2. \A r \in old : Above(cat', r)
    BY <1>1, <1>5, NextAbove
  <2>3. \A r \in new : Above(cat', r)
    BY <2>1, <2>2
  <2> QED  BY <2>3
<1> QED  BY <1>2, <1>3, <1>4, <1>5

\* No file has a row that is still to be given out.
LEMMA YoungerFiles ==
  ASSUME Tidy, StoreInv, TidyInv, Next, up', NEW n \in DOMAIN disk', NEW r \in disk'[n]
  PROVE  r < next_seq'
<1> USE DEF TidyInv
<1>1. CASE Open
  <2>1. disk' = disk /\ n \in DOMAIN cat
    BY <1>1, OpenEffect DEF Open
  <2>2. cat[n].hi < next_seq' /\ disk[n] = MinSeq(n)..cat[n].hi /\ cat[n].hi \in Nat
    BY <1>1, <2>1, OpenEffect, RowTypes DEF Content
  <2>3. next_seq' \in Nat
    <3>1. StoreInv'
      BY StoreStep
    <3>2. next_seq' \in 1..(MaxSeq + 1)
      BY <3>1 DEF StoreInv, Buffered
    <3> QED  BY <3>2, StoreAssumption
  <2> QED  BY <2>1, <2>2, <2>3
<1>2. CASE ~Open
  <2>0. up
    BY <1>2, TidySteps DEF AppendRow, Seal, WriteSegment, UpsertSegment, RestoreFlush,
       CommitFlush, Publish, StartCycle, StartStop, NothingToFlush, PlanJob, Merge, BumpRename, CommitSwap,
       UnlinkInput, ListBucket, Upload, UploadFails, MarkUploaded, MarkDeque, EndUploads,
       DeleteOrphan, ChooseEviction, EvictSegment, UnlinkEvicted, EndEviction, ReconcileList,
       ReconcileDrop, ReconcileAdopt, EndReconcile, Reseed, StartQuery, EndQuery, Stopped, Down,
       LoseDisk
  <2>1. \A m \in DOMAIN disk : \A q \in disk[m] : q < next_seq
    BY <2>0 DEF Younger
  <2>2. next_seq <= next_seq' /\ next_seq' \in Nat /\ next_seq \in Nat
    <3>1. CASE UNCHANGED next_seq
      BY <3>1, BufferNats
    <3>2. CASE AppendRow
      BY <3>2, BufferNats DEF AppendRow
    <3>3. CASE Stopped
      BY <3>3 DEF Stopped, Down
    <3>4. CASE Reseed
      BY <3>4, ReseedEffect, BufferNats
    <3> QED
      BY <1>2, <3>1, <3>2, <3>3, <3>4, BufferSteps DEF Seal, WriteSegment, UpsertSegment,
         RestoreFlush, CommitFlush, Publish
  <2>3. r \in sealed \/ \E m \in DOMAIN disk : r \in disk[m]
    <3>1. CASE UNCHANGED disk
      BY <3>1
    <3>2. CASE WriteSegment
      <4>1. disk' = Put(disk, <<0, Min(sealed)>>, sealed)
        BY <3>2 DEF WriteSegment
      <4> QED  BY <4>1 DEF Put
    <3>3. CASE Merge
      <4> DEFINE rows == UNION {disk[m] : m \in job.inputs}
      <4>1. \/ disk' = disk
            \/ disk' = Put(disk, job.out, rows) /\ job.inputs \subseteq DOMAIN disk
        BY <3>3 DEF Merge
      <4>2. \A q \in rows : \E m \in job.inputs : q \in disk[m]
        OBVIOUS
      <4> HIDE DEF rows
      <4>3. disk' = Put(disk, job.out, rows) => r \in rows \/ \E m \in DOMAIN disk : r \in disk[m]
        BY DEF Put
      <4> QED  BY <4>1, <4>2, <4>3
    <3>4. CASE BumpRename
      <4>1. First(job.inputs) \in job.inputs
        <5>1. JobOK
          BY <3>4 DEF BumpRename, StoreInv, Tasks
        <5> QED  BY <5>1, FirstOfNames DEF JobOK
      <4> DEFINE rows == disk[First(job.inputs)]
                 left == Drop(disk, job.inputs)
      <4>2. \/ disk' = disk
            \/ disk' = Put(left, job.out, rows) /\ First(job.inputs) \in DOMAIN disk
        BY <3>4, <4>1 DEF BumpRename
      <4>3. \A m \in DOMAIN left : m \in DOMAIN disk /\ left[m] = disk[m]
        BY DEF Drop, Restrict
      <4>5. First(job.inputs) \in DOMAIN disk => \A q \in rows : \E m \in DOMAIN disk : q \in disk[m]
        OBVIOUS
      <4> HIDE DEF rows, left
      <4>4. disk' = Put(left, job.out, rows) => r \in rows \/ \E m \in DOMAIN left : r \in left[m]
        BY DEF Put
      <4> QED  BY <4>2, <4>3, <4>4, <4>5
    <3>5. CASE UnlinkInput \/ UnlinkEvicted \/ LoseDisk
      <4>1. (\E S : disk' = Drop(disk, S)) \/ disk' = <<>>
        BY <3>5 DEF UnlinkInput, UnlinkEvicted, LoseDisk
      <4>2. CASE disk' = <<>>
        BY <4>2
      <4>3. ASSUME NEW S, disk' = Drop(disk, S)
            PROVE  n \in DOMAIN disk /\ r \in disk[n]
        BY <4>3 DEF Drop, Restrict
      <4> QED  BY <4>1, <4>2, <4>3
    <3> QED  BY <3>1, <3>2, <3>3, <3>4, <3>5, DiskSteps
  <2>4. r < next_seq /\ r \in Int
    BY <2>1, <2>3, BufferNats, FileTypes
  <2> QED  BY <2>2, <2>4
<1> QED  BY <1>1, <1>2

LEMMA NextYounger ==
  ASSUME Tidy, StoreInv, TidyInv, Next
  PROVE  Younger'
<1>1. \A r \in ram' \cup sealed' : r..(next_seq' - 1) \subseteq ram' \cup sealed'
  BY YoungerRows
<1>2. up' /\ mode' # "register" => Above(cat', next_seq')
  BY YoungerNext
<1>3. /\ \A r \in ram' : Above(cat', r)
      /\ fpc' \in {"sealed", "written"} => \A r \in sealed' : Above(cat', r)
  BY YoungerAbove
<1>4. fpc' = "cataloged" =>
        /\ Written' \in DOMAIN cat' \ SegmentNames'
        /\ cat'[Written'] = [hi |-> Max(sealed'), loc |-> "LOCAL"]
  BY NextCataloged
<1>5. up' => \A n \in DOMAIN disk' : \A r \in disk'[n] : r < next_seq'
  BY YoungerFiles
<1> QED  BY <1>1, <1>2, <1>3, <1>4, <1>5 DEF Younger, Above
-----------------------------------------------------------------------------
(* Deque and catalog. *)

\* A picked subsequence of distinct names has distinct names.
LEMMA PickedDistinct ==
  ASSUME NEW q \in Seq(Segs), NEW places \in SUBSET DOMAIN q,
         \A i, k \in places : q[i].name = q[k].name => i = k
  PROVE  Distinct(Picked(q, places))
<1> DEFINE p == Picked(q, places)
<1>1. p \in Seq(Segs)
  BY PickedElements
<1>2. PICK at \in [1..Len(p) -> places] :
        /\ \A i \in 1..Len(p) : p[i] = q[at[i]]
        /\ \A i, k \in 1..Len(p) : i <= k <=> at[i] <= at[k]
  BY PickedElements
<1> HIDE DEF p
<1>3. DOMAIN p = 1..Len(p) /\ DOMAIN q = 1..Len(q) /\ Len(p) \in Nat /\ Len(q) \in Nat
  BY <1>1
<1>4. ASSUME NEW i \in 1..Len(p), NEW k \in 1..Len(p), p[i].name = p[k].name
      PROVE  i = k
  <2>1. at[i] = at[k] /\ at[i] \in 1..Len(q)
    BY <1>2, <1>3, <1>4
  <2>2. i <= k /\ k <= i
    BY <1>2, <2>1
  <2> QED  BY <1>3, <2>2
<1> QED  BY <1>3, <1>4 DEF Distinct, p

LEMMA SplicedDistinct ==
  ASSUME local_segments \in Seq(Segs), JobOK, job.inputs \subseteq SegmentNames,
         Distinct(local_segments), job.out \notin SegmentNames
  PROVE  Distinct(Spliced)
<1> DEFINE added == Segment(job.out, job.hi, "LOCAL")
           hit == Places(job.inputs)
           f == Min(hit)
           q == [local_segments EXCEPT ![f] = added]
           places == (DOMAIN local_segments \ hit) \cup {f}
<1>1. DOMAIN local_segments = 1..Len(local_segments) /\ Len(local_segments) \in Nat
  OBVIOUS
<1>2. added \in Segs /\ added.name = job.out
  BY DEF JobOK, Segment, Segs
<1>3. hit \subseteq DOMAIN local_segments /\ hit # {}
  BY DEF Places, SegmentNames, JobOK
<1>4. f \in hit
  <2>1. hit \in SUBSET Nat /\ hit # {}
    BY <1>1, <1>3
  <2> HIDE DEF hit
  <2> QED  BY <2>1, MinOfNats
<1>5. Spliced = Picked(q, places)
  BY <1>3 DEF Spliced
<1> HIDE DEF hit, f, added
<1>7. q \in Seq(Segs) /\ DOMAIN q = DOMAIN local_segments
  <2>1. q = [k \in 1..Len(local_segments) |-> IF k = f THEN added ELSE local_segments[k]]
    BY <1>1
  <2>2. q \in [1..Len(local_segments) -> Segs]
    BY <1>1, <1>2, <2>1, EntryTypes
  <2> QED  BY <1>1, <2>2
<1>8. q[f] = added /\ \A k \in DOMAIN q : k # f => q[k] = local_segments[k]
  BY <1>3, <1>4, <1>7
<1>9. places \subseteq DOMAIN q
  BY <1>3, <1>4, <1>7
<1> HIDE DEF q
<1>10. \A i, k \in DOMAIN q : q[i].name = q[k].name => i = k
  <2>1. \A k \in DOMAIN q : k # f => q[k].name \in SegmentNames
    BY <1>7, <1>8 DEF SegmentNames
  <2>2. q[f].name \notin SegmentNames
    BY <1>2, <1>8
  <2> QED  BY <1>7, <1>8, <2>1, <2>2 DEF Distinct
<1> HIDE DEF places
<1> QED  BY <1>5, <1>7, <1>9, <1>10, PickedDistinct

LEMMA AppendedDistinct ==
  ASSUME NEW q \in Seq(Segs), NEW s \in Segs, Distinct(q), s.name \notin NamesOf(q)
  PROVE  Distinct(Append(q, s))
<1> DEFINE p == Append(q, s)
<1>1. /\ DOMAIN p = 1..(Len(q) + 1) /\ Len(q) \in Nat /\ p[Len(q) + 1] = s
      /\ DOMAIN q = 1..Len(q) /\ \A i \in 1..Len(q) : p[i] = q[i]
  OBVIOUS
<1> HIDE DEF p
<1>2. \A i \in DOMAIN p : i \in 1..Len(q) \/ i = Len(q) + 1
  BY <1>1
<1>3. \A i \in 1..Len(q) : p[i].name \in NamesOf(q)
  BY <1>1 DEF NamesOf
<1> QED  BY <1>1, <1>2, <1>3 DEF Distinct, p

LEMMA NextDistinct ==
  ASSUME Tidy, StoreInv, TidyInv, Next
  PROVE  Distinct(local_segments')
<1> USE DEF StoreInv, TidyInv
<1>0. Distinct(local_segments) /\ local_segments \in Seq(Segs) /\ Ordered(local_segments)
  BY DEF Mirrored, Data
<1>1. CASE UNCHANGED local_segments
  BY <1>0, <1>1
<1>2. CASE CommitFlush
  <2> DEFINE s == Segment(<<0, Min(sealed)>>, Max(sealed), "LOCAL")
  <2>1. fpc = "cataloged" /\ local_segments' = Append(local_segments, s)
    BY <1>2 DEF CommitFlush
  <2>2. s \in Segs /\ s.name = Written
    BY <2>1, SealedFile DEF Segment, Written
  <2>3. Written \notin NamesOf(local_segments)
    BY <2>1 DEF Younger, SegmentNames, NamesOf
  <2> HIDE DEF s
  <2> QED  BY <1>0, <2>1, <2>2, <2>3, AppendedDistinct
<1>3. CASE CommitSwap
  <2>1. mpc \in {"swap", "splice"} /\ local_segments' = Spliced
    BY <1>3 DEF CommitSwap, AtSplice
  <2>2. JobOK /\ job.inputs \subseteq SegmentNames
    BY <2>1 DEF Tasks
  <2>3. job.out \notin SegmentNames
    BY <1>3, SwapEffect, JobFresh, EntryRow
  <2> QED  BY <1>0, <2>1, <2>2, <2>3, SplicedDistinct
<1>4. CASE MarkUploaded
  <2>1. /\ DOMAIN local_segments' = DOMAIN local_segments
        /\ \A i \in DOMAIN local_segments : local_segments'[i].name = local_segments[i].name
    BY <1>0, <1>4, MarkedDeque DEF MarkUploaded
  <2> QED  BY <1>0, <2>1 DEF Distinct
<1>5. CASE EvictSegment
  <2> DEFINE places == DOMAIN local_segments \ Places({First(todo)})
  <2>1. local_segments' = Picked(local_segments, places) /\ places \in SUBSET DOMAIN local_segments
    BY <1>5 DEF EvictSegment
  <2> HIDE DEF places
  <2> QED  BY <1>0, <2>1, PickedDistinct DEF Distinct
<1>6. CASE Stopped
  BY <1>6 DEF Stopped, Down, Distinct
<1>7. CASE Open
  BY <1>7, OpenedDeque DEF Distinct
<1> QED  BY <1>1, <1>2, <1>3, <1>4, <1>5, <1>6, <1>7, DequeSteps

\* An entry stands for its name.
LEMMA EntryOfName ==
  ASSUME Mirrored, NEW e \in Entries(local_segments), NEW d \in Entries(local_segments), e.name = d.name
  PROVE  e = d
BY DEF Mirrored, Distinct, Entries

\* A mark changes the one entry of its name.
LEMMA MarkedEntries ==
  ASSUME StoreInv, TidyInv, MarkUploaded
  PROVE  \A e \in Entries(local_segments') :
           \/ e \in Entries(local_segments) /\ e.name # First(todo)
           \/ \E d \in Entries(local_segments) :
                d.name = First(todo) /\ e = [name |-> d.name, hi |-> d.hi, loc |-> "BOTH"]
<1> USE DEF StoreInv, TidyInv
<1> DEFINE n == First(todo)
           at == Places({n})
           q == local_segments
<1>1. DOMAIN q = 1..Len(q) /\ Len(q) \in Nat /\ \A i \in DOMAIN q : q[i] \in Segs
  BY EntryTypes DEF Data
<1>2. n \in SegmentNames
  BY MarkEffect
<1>3. at # {} /\ at \in SUBSET Nat /\ at \subseteq DOMAIN q
  <2>1. at # {} /\ at \subseteq DOMAIN q
    BY <1>2 DEF Places, SegmentNames
  <2> HIDE DEF at
  <2> QED  BY <1>1, <2>1
<1>4. Min(at) \in at
  <2> HIDE DEF at
  <2> QED  BY <1>3, MinOfNats
<1>5. \A i \in DOMAIN q : q[i].name = n => i = Min(at)
  BY <1>4 DEF Places, Mirrored, Distinct
<1>6. q[Min(at)].name = n /\ Min(at) \in DOMAIN q
  BY <1>3, <1>4 DEF Places
<1>7. q' = [q EXCEPT ![Min(at)].loc = "BOTH"]
  BY <1>3 DEF MarkUploaded, MarkDeque
<1> DEFINE f == Min(at)
<1> HIDE DEF at, f, n
<1>8. DOMAIN q' = DOMAIN q /\ \A i \in DOMAIN q : i # f => q'[i] = q[i]
  BY <1>7 DEF f
<1>9. q'[f] = [q[f] EXCEPT !.loc = "BOTH"]
  BY <1>6, <1>7 DEF f
<1>10. q[f] = [name |-> q[f].name, hi |-> q[f].hi, loc |-> q[f].loc]
  <2>1. q[f] \in Segs
    BY <1>1, <1>6 DEF f
  <2> QED  BY <2>1 DEF Segs
<1>11. q'[f] = [name |-> q[f].name, hi |-> q[f].hi, loc |-> "BOTH"]
  BY <1>9, <1>10
<1>12. ASSUME NEW i \in DOMAIN q'
       PROVE  \/ q'[i] \in Entries(q) /\ q'[i].name # n
              \/ \E d \in Entries(q) : d.name = n /\ q'[i] = [name |-> d.name, hi |-> d.hi, loc |-> "BOTH"]
  <2>1. CASE i = f
    BY <1>6, <1>11, <2>1 DEF Entries, f
  <2>2. CASE i # f
    BY <1>5, <1>8, <2>2 DEF Entries, f
  <2> QED  BY <2>1, <2>2
<1> QED  BY <1>12 DEF Entries, n

LEMMA NextEntries ==
  ASSUME Tidy, StoreInv, TidyInv, Next, NEW e \in Entries(local_segments')
  PROVE  e.name \in DOMAIN cat' /\ cat'[e.name] = [hi |-> e.hi, loc |-> e.loc]
<1> USE DEF StoreInv, TidyInv
<1>0. \A d \in Entries(local_segments) :
        /\ d.name \in DOMAIN cat /\ cat[d.name] = [hi |-> d.hi, loc |-> d.loc]
        /\ d.name \in SegmentNames
  BY DEF Mirrored, Entries, SegmentNames
<1>m. ASSUME MarkUploaded, NEW d \in Entries(local_segments), d.name = First(todo),
             e = [name |-> d.name, hi |-> d.hi, loc |-> "BOTH"]
      PROVE  e.name \in DOMAIN cat' /\ cat'[e.name] = [hi |-> e.hi, loc |-> e.loc]
  <2> DEFINE n == First(todo)
  <2>1. n \in DOMAIN cat /\ DOMAIN cat' = DOMAIN cat /\ cat'[n] = [hi |-> cat[n].hi, loc |-> "BOTH"]
    BY <1>m, MarkEffect
  <2>2. d.name = n /\ e.name = n /\ e.hi = d.hi /\ e.loc = "BOTH"
    BY <1>m
  <2> HIDE DEF n
  <2>4. cat[d.name] = [hi |-> d.hi, loc |-> d.loc]
    BY <1>0
  <2>3. cat[n].hi = d.hi
    BY <2>2, <2>4
  <2> QED  BY <2>1, <2>2, <2>3
<1>1. CASE UNCHANGED local_segments
  <2>1. e \in Entries(local_segments)
    BY <1>1
  <2>2. CASE SameRows
    BY <1>0, <2>1, <2>2 DEF SameRows
  <2>3. CASE UpsertSegment
    <3>1. e.name # Written
      BY <1>0, <2>1, <2>3, WrittenFresh DEF UpsertSegment
    <3> QED  BY <1>0, <2>1, <2>3, <3>1, UpsertEffect
  <2>4. CASE ReconcileAdopt
    BY <1>0, <2>1, <2>4, AdoptEffect DEF Orphans, Registering, Entries
  <2>5. CASE LoseDisk
    BY <2>1, <2>5 DEF LoseDisk, Tasks, Entries
  <2>6. CASE CommitSwap
    <3>1. job.out \in SegmentNames'
      BY <2>6, SwapDeque
    <3>2. job.out \in SegmentNames
      BY <1>1, <3>1 DEF SegmentNames
    <3> QED  BY <2>6, <3>2, SwapEffect, JobFresh, EntryRow
  <2>7. CASE EvictSegment
    <3>1. First(todo) \in SegmentNames /\ SegmentNames' = SegmentNames \ {First(todo)}
      BY <2>7, EvictEffect
    <3>2. SegmentNames' = SegmentNames
      BY <1>1 DEF SegmentNames
    <3> QED  BY <3>1, <3>2
  <2>8. CASE MarkUploaded
    <3>1. \/ e.name # First(todo)
          \/ \E d \in Entries(local_segments) :
               d.name = First(todo) /\ e = [name |-> d.name, hi |-> d.hi, loc |-> "BOTH"]
      BY <2>8, MarkedEntries
    <3>2. CASE e.name # First(todo)
      BY <1>0, <2>1, <2>8, <3>2, MarkEffect
    <3>3. CASE \E d \in Entries(local_segments) :
                 d.name = First(todo) /\ e = [name |-> d.name, hi |-> d.hi, loc |-> "BOTH"]
      BY <1>m, <2>8, <3>3
    <3> QED  BY <3>1, <3>2, <3>3
  <2> QED  BY <2>2, <2>3, <2>4, <2>5, <2>6, <2>7, <2>8, CatalogSteps
<1>2. CASE CommitFlush
  <2> DEFINE s == Segment(<<0, Min(sealed)>>, Max(sealed), "LOCAL")
  <2>1. fpc = "cataloged" /\ local_segments' = Append(local_segments, s) /\ cat' = cat
    BY <1>2 DEF CommitFlush
  <2>2. s \in Segs /\ s.name = Written /\ s.hi = Max(sealed) /\ s.loc = "LOCAL"
    BY <2>1, SealedFile DEF Segment, Written
  <2>3. Written \in DOMAIN cat /\ cat[Written] = [hi |-> Max(sealed), loc |-> "LOCAL"]
    BY <2>1 DEF Younger
  <2> HIDE DEF s
  <2>4. e \in Entries(local_segments) \/ e = s
    BY <2>1, <2>2, AppendedEntries DEF Data
  <2> QED  BY <1>0, <2>1, <2>2, <2>3, <2>4
<1>3. CASE CommitSwap
  <2>1. CASE e = Segment(job.out, job.hi, "LOCAL")
    BY <1>3, <2>1, SwapEffect DEF Segment
  <2>2. CASE e \in Entries(local_segments) /\ e.name \notin job.inputs
    BY <1>0, <1>3, <2>2, SwapEffect
  <2> QED  BY <1>3, <2>1, <2>2, SwapDeque
<1>4. CASE MarkUploaded
  <2>1. CASE e \in Entries(local_segments) /\ e.name # First(todo)
    BY <1>0, <1>4, <2>1, MarkEffect
  <2>2. CASE \E d \in Entries(local_segments) :
               d.name = First(todo) /\ e = [name |-> d.name, hi |-> d.hi, loc |-> "BOTH"]
    BY <1>m, <1>4, <2>2
  <2> QED  BY <1>4, <2>1, <2>2, MarkedEntries
<1>5. CASE EvictSegment
  BY <1>0, <1>5, EvictEffect
<1>6. CASE Stopped
  BY <1>6 DEF Stopped, Down, Entries
<1>7. CASE Open
  <2>1. PICK i \in DOMAIN local_segments' : e = local_segments'[i]
    BY DEF Entries
  <2> DEFINE n == local_segments'[i].name
  <2>2. n \in DOMAIN disk
    BY <1>7, OpenedDeque DEF NamesOf
  <2>3. local_segments'[i] = Segment(n, AdoptedRow(n).hi, AdoptedRow(n).loc)
    BY <1>7, OpenedDeque
  <2>4. n \in DOMAIN cat' /\ cat'[n] = AdoptedRow(n)
    BY <1>7, <2>2 DEF Open
  <2>5. AdoptedRow(n) \in [hi : Seqs, loc : Loc]
    BY <2>2, AdoptedRows
  <2> HIDE DEF n
  <2>6. AdoptedRow(n) = [hi |-> AdoptedRow(n).hi, loc |-> AdoptedRow(n).loc]
    BY <2>5
  <2>7. e.name = n /\ e.hi = AdoptedRow(n).hi /\ e.loc = AdoptedRow(n).loc
    BY <2>1, <2>3 DEF Segment
  <2> QED  BY <2>4, <2>6, <2>7
<1> QED  BY <1>1, <1>2, <1>3, <1>4, <1>5, <1>6, <1>7, DequeSteps

LEMMA NextMirrored ==
  ASSUME Tidy, StoreInv, TidyInv, Next
  PROVE  Mirrored'
<1> USE DEF StoreInv, TidyInv
<1>1. \A e \in Entries(local_segments') :
        e.name \in DOMAIN cat' /\ cat'[e.name] = [hi |-> e.hi, loc |-> e.loc]
  BY NextEntries
<1>2. Distinct(local_segments')
  BY NextDistinct
<1>3. ASSUME up', NEW n \in DOMAIN cat', cat'[n].loc # "REMOTE"
      PROVE  n \in SegmentNames' \/ (fpc' = "cataloged" /\ n = Written')
  <2>1. CASE Open
    <3>1. SameRows
      BY <2>1, OpenEffect
    <3>2. n \in DOMAIN disk
      BY <1>3, <2>1, <3>1, OpenEffect DEF SameRows
    <3> QED  BY <2>1, <3>2, OpenedDeque DEF NamesOf, SegmentNames
  <2>2. CASE Stopped
    BY <1>3, <2>2 DEF Stopped, Down
  <2>3. CASE UpsertSegment
    <3>1. Written' = Written /\ SegmentNames' = SegmentNames /\ fpc' = "cataloged" /\ up /\ fpc # "cataloged"
      BY <1>3, <2>3 DEF UpsertSegment, Written, SegmentNames
    <3>2. n # Written => n \in DOMAIN cat /\ cat[n].loc # "REMOTE"
      BY <1>3, <2>3, UpsertEffect
    <3> QED  BY <3>1, <3>2 DEF Mirrored
  <2>4. CASE CommitFlush
    <3>1. SegmentNames' = SegmentNames \cup {Written} /\ cat' = cat /\ up
      BY <1>3, <2>4, CommittedNames DEF CommitFlush, Written
    <3> QED  BY <1>3, <3>1 DEF Mirrored
  <2>5. CASE ~Open /\ ~Stopped /\ ~UpsertSegment /\ ~CommitFlush
    <3>0. up
      BY <1>3, <2>5, TidySteps DEF AppendRow, Seal, WriteSegment, RestoreFlush,
         Publish, StartCycle, StartStop, NothingToFlush, PlanJob, Merge, BumpRename, CommitSwap,
         UnlinkInput, ListBucket, Upload, UploadFails, MarkUploaded, MarkDeque, EndUploads,
         DeleteOrphan, ChooseEviction, EvictSegment, UnlinkEvicted, EndEviction, ReconcileList,
         ReconcileDrop, ReconcileAdopt, EndReconcile, Reseed, StartQuery, EndQuery, LoseDisk
    <3>1. fpc = "cataloged" => fpc' = "cataloged" /\ Written' = Written
      BY <2>5, BufferSteps DEF AppendRow, Seal, WriteSegment, RestoreFlush, Publish, MayPublish, Reseed, Written
    <3>2. CASE CommitSwap
      BY <1>3, <3>0, <3>1, <3>2, SwapEffect, SwapDeque DEF Mirrored
    <3>3. CASE EvictSegment
      BY <1>3, <3>0, <3>1, <3>3, EvictEffect DEF Mirrored
    <3>4. CASE MarkUploaded
      BY <1>3, <3>0, <3>1, <3>4, MarkEffect, MarkNames DEF Mirrored
    <3>5. CASE ~CommitSwap /\ ~EvictSegment /\ ~MarkUploaded
      <4>1. SegmentNames' = SegmentNames
        BY <2>5, <3>5, DequeSteps DEF SegmentNames
      <4>2. n \in DOMAIN cat /\ cat[n].loc # "REMOTE"
        <5>1. CASE SameRows
          BY <1>3, <5>1 DEF SameRows
        <5>2. CASE ReconcileAdopt
          BY <1>3, <5>2, AdoptEffect
        <5>3. CASE LoseDisk
          BY <1>3, <5>3 DEF LoseDisk
        <5> QED  BY <2>5, <3>5, <5>1, <5>2, <5>3, CatalogSteps
      <4> QED  BY <3>0, <3>1, <4>1, <4>2 DEF Mirrored
    <3> QED  BY <3>2, <3>3, <3>4, <3>5
  <2> QED  BY <2>1, <2>2, <2>3, <2>4, <2>5
<1> QED  BY <1>1, <1>2, <1>3 DEF Mirrored, Distinct, Entries
-----------------------------------------------------------------------------
(* The files of the catalog's rows. *)

\* The steps of the maintenance task between a change of the disk and that of the catalog.
Between == {"swap", "splice", "unlink", "evunlink"}

LEMMA ContentKept ==
  ASSUME Content, UNCHANGED disk, SameExtents,
         \A n \in DOMAIN cat : cat'[n].loc # "REMOTE" <=> cat[n].loc # "REMOTE",
         fpc = "written" \/ fpc' = "written" => UNCHANGED <<fpc, sealed>>,
         UNCHANGED <<mpc, job, todo>> \/ (mpc \notin Between /\ mpc' \notin Between)
  PROVE  Content'
<1>0. fpc = "written" \/ fpc' = "written" => Written' = Written
  BY DEF Written
<1>1. \A n \in DOMAIN disk' \cap DOMAIN cat' : disk'[n] = MinSeq(n)..cat'[n].hi
  BY DEF Content, SameExtents
<1>2. \A n \in DOMAIN disk' :
        \/ n \in DOMAIN cat' /\ cat'[n].loc # "REMOTE"
        \/ mpc' \in {"swap", "splice"} /\ n = job'.out
        \/ mpc' \in {"unlink", "evunlink"} /\ n \in todo'
        \/ fpc' = "written" /\ n = Written'
  BY <1>0 DEF Content, SameExtents, Between
<1>3. \A n \in DOMAIN cat' :
        cat'[n].loc # "REMOTE" => n \in DOMAIN disk' \/ (mpc' = "splice" /\ n \in job'.inputs)
  BY DEF Content, SameExtents, Between
<1>4. fpc' = "written" => disk'[Written'] = sealed'
  BY <1>0 DEF Content
<1>5. /\ mpc' \in {"swap", "splice"} => disk'[job'.out] = MinSeq(job'.out)..job'.hi
      /\ mpc' = "splice" => job'.inputs \cap DOMAIN disk' = {}
  BY DEF Content, Between
<1> QED  BY <1>1, <1>2, <1>3, <1>4, <1>5 DEF Content

LEMMA DownIdle ==
  ASSUME StoreInv, TidyInv, mpc = "down"
  PROVE  fpc = "idle"
BY DEF StoreInv, Tasks, TidyInv, Stages

LEMMA QuietContent ==
  ASSUME Tidy, StoreInv, TidyInv, Next,
         ~WriteSegment, ~UpsertSegment, ~Merge, ~BumpRename, ~CommitSwap, ~UnlinkInput,
         ~EvictSegment, ~UnlinkEvicted, ~ReconcileAdopt, ~LoseDisk
  PROVE  Content'
<1> USE DEF TidyInv
<1>1. UNCHANGED disk
  BY DiskSteps
<1>2. SameExtents /\ \A n \in DOMAIN cat : cat'[n].loc # "REMOTE" <=> cat[n].loc # "REMOTE"
  <2>1. CASE SameRows
    BY <2>1 DEF SameRows, SameExtents
  <2>2. CASE MarkUploaded
    BY <2>2, MarkEffect DEF SameExtents
  <2> QED  BY <2>1, <2>2, CatalogSteps
<1>3. fpc = "written" \/ fpc' = "written" => UNCHANGED <<fpc, sealed>>
  <2>1. CASE Stopped
    <3>1. fpc = "idle" /\ fpc' = "idle"
      BY <2>1, DownIdle DEF Stopped, Down
    <3> QED  BY <3>1
  <2>2. CASE Open
    <3>1. fpc = "idle" /\ fpc' = "idle"
      BY <2>2 DEF Open, StoreInv, Tasks
    <3> QED  BY <3>1
  <2>3. CASE AppendRow \/ Reseed
    BY <2>3 DEF AppendRow, Reseed
  <2>4. CASE Seal("task") \/ Seal("maintenance") \/ (RestoreFlush /\ fpc = "sealed")
    BY <2>4 DEF Seal, RestoreFlush
  <2>5. CASE CommitFlush \/ Publish
    BY <2>5 DEF CommitFlush, Publish, MayPublish
  <2> QED  BY <2>1, <2>2, <2>3, <2>4, <2>5, BufferSteps
<1>4. UNCHANGED <<mpc, job, todo>> \/ (mpc \notin Between /\ mpc' \notin Between)
  <2>1. CASE \/ AppendRow \/ Seal("task") \/ Seal("maintenance") \/ CommitFlush
             \/ StartQuery \/ EndQuery
    BY <2>1 DEF AppendRow, Seal, CommitFlush, StartQuery, EndQuery
  <2>2. CASE RestoreFlush \/ Publish
    <3>1. fby = "task" \/ mpc = "flush"
      BY DEF StoreInv, Tasks
    <3> QED  BY <2>2, <3>1 DEF RestoreFlush, Publish, AfterFlush, Between
  <2>3. CASE StartCycle \/ StartStop \/ NothingToFlush \/ Stopped \/ Open
    BY <2>3 DEF StartCycle, StartStop, NothingToFlush, Stopped, Down, Open, Between, StoreInv, Tasks
  <2>4. CASE PlanJob
    BY <2>4 DEF PlanJob, Between
  <2>5. CASE \/ ListBucket \/ Upload \/ UploadFails \/ MarkUploaded \/ EndUploads \/ DeleteOrphan
    BY <2>5 DEF ListBucket, Upload, UploadFails, MarkUploaded, MarkDeque, EndUploads,
       DeleteOrphan, AfterSync, Between
  <2>6. CASE EndEviction \/ \E n \in Evictable : ChooseEviction(n)
    BY <2>6 DEF EndEviction, ChooseEviction, Between
  <2>7. CASE ReconcileList \/ ReconcileDrop \/ EndReconcile \/ Reseed
    BY <2>7 DEF ReconcileList, ReconcileDrop, EndReconcile, Reseed, Between
  <2> QED  BY <2>1, <2>2, <2>3, <2>4, <2>5, <2>6, <2>7, TidySteps
<1> QED  BY <1>1, <1>2, <1>3, <1>4, ContentKept

LEMMA FlushContent ==
  ASSUME Tidy, StoreInv, TidyInv, WriteSegment \/ UpsertSegment
  PROVE  Content'
<1> USE DEF TidyInv
<1>0. fpc \in {"sealed", "written"}
  BY DEF WriteSegment, UpsertSegment
<1>1. /\ Written \notin DOMAIN cat /\ Written \notin SegmentNames
      /\ Level(Written) = 0 /\ sealed = MinSeq(Written)..Max(sealed)
  BY <1>0, WrittenFresh, SealedInterval
<1>2. Written' = Written /\ UNCHANGED <<mpc, job, todo, sealed>>
  BY DEF WriteSegment, UpsertSegment, Written
<1>3. mpc \in {"swap", "splice"} => Written # job.out /\ Written \notin job.inputs
  BY <1>1, JobRows DEF Working
<1>4. CASE WriteSegment
  <2>1. disk' = Put(disk, Written, sealed) /\ cat' = cat /\ fpc' = "written"
    BY <1>4 DEF WriteSegment, Written
  <2>2. /\ DOMAIN disk' = DOMAIN disk \cup {Written} /\ disk'[Written] = sealed
        /\ \A n \in DOMAIN disk : n # Written => disk'[n] = disk[n]
    BY <2>1 DEF Put
  <2>3. fpc = "sealed"
    BY <1>4 DEF WriteSegment
  <2>4. \A n \in DOMAIN disk' \cap DOMAIN cat' : disk'[n] = MinSeq(n)..cat'[n].hi
    BY <1>1, <2>1, <2>2 DEF Content
  <2>5. \A n \in DOMAIN disk' :
          \/ n \in DOMAIN cat' /\ cat'[n].loc # "REMOTE"
          \/ mpc' \in {"swap", "splice"} /\ n = job'.out
          \/ mpc' \in {"unlink", "evunlink"} /\ n \in todo'
          \/ fpc' = "written" /\ n = Written'
    BY <1>2, <2>1, <2>2, <2>3 DEF Content
  <2>6. \A n \in DOMAIN cat' :
          cat'[n].loc # "REMOTE" => n \in DOMAIN disk' \/ (mpc' = "splice" /\ n \in job'.inputs)
    BY <1>2, <2>1, <2>2 DEF Content
  <2>7. mpc' \in {"swap", "splice"} => disk'[job'.out] = MinSeq(job'.out)..job'.hi
    <3>1. mpc \in {"swap", "splice"} => job.out \in DOMAIN disk
      BY DEF StoreInv, Files
    <3> QED  BY <1>2, <1>3, <2>2, <3>1 DEF Content
  <2>8. mpc' = "splice" => job'.inputs \cap DOMAIN disk' = {}
    BY <1>2, <1>3, <2>2 DEF Content
  <2> QED  BY <1>2, <2>1, <2>2, <2>4, <2>5, <2>6, <2>7, <2>8 DEF Content
<1>5. CASE UpsertSegment
  <2>1. disk' = disk /\ fpc = "written" /\ fpc' = "cataloged"
    BY <1>5 DEF UpsertSegment
  <2>2. /\ DOMAIN cat' = DOMAIN cat \cup {Written}
        /\ cat'[Written].hi = Max(sealed) /\ cat'[Written].loc = "LOCAL"
        /\ \A n \in DOMAIN cat : cat'[n] = cat[n]
    BY <1>1, <1>5, UpsertEffect
  <2>3. Written \in DOMAIN disk /\ disk[Written] = sealed
    BY <2>1 DEF Content, StoreInv, Files, Written
  <2>4. \A n \in DOMAIN disk' \cap DOMAIN cat' : disk'[n] = MinSeq(n)..cat'[n].hi
    BY <1>1, <2>1, <2>2, <2>3 DEF Content
  <2>5. \A n \in DOMAIN disk' :
          \/ n \in DOMAIN cat' /\ cat'[n].loc # "REMOTE"
          \/ mpc' \in {"swap", "splice"} /\ n = job'.out
          \/ mpc' \in {"unlink", "evunlink"} /\ n \in todo'
    BY <1>2, <2>1, <2>2 DEF Content
  <2>6. \A n \in DOMAIN cat' :
          cat'[n].loc # "REMOTE" => n \in DOMAIN disk' \/ (mpc' = "splice" /\ n \in job'.inputs)
    BY <1>2, <2>1, <2>2, <2>3 DEF Content
  <2> QED  BY <1>2, <2>1, <2>4, <2>5, <2>6 DEF Content
<1> QED  BY <1>4, <1>5

LEMMA CompactContent ==
  ASSUME Tidy, StoreInv, TidyInv, Merge \/ BumpRename \/ CommitSwap
  PROVE  Content'
<1> USE DEF TidyInv
<1>1. mpc \in Working /\ UNCHANGED <<fpc, sealed, job>>
  BY DEF Merge, BumpRename, CommitSwap, AtSplice, Working
<1>2. /\ Level(job.out) >= 1 /\ Level(job.out) \in Nat /\ job.out \notin job.inputs /\ job.out \notin DOMAIN cat
      /\ job.hi \in Nat /\ MinSeq(job.out) \in Nat
      /\ \A n \in job.inputs :
           /\ n \in DOMAIN cat /\ cat[n].loc # "REMOTE" /\ n \in SegmentNames
           /\ MinSeq(n) \in Nat /\ cat[n].hi \in Nat
           /\ MinSeq(job.out) <= MinSeq(n) /\ cat[n].hi <= job.hi
      /\ \A r \in MinSeq(job.out)..job.hi : \E n \in job.inputs : Within(r, n)
  BY <1>1, JobRows, JobFresh, RowTypes
<1>3. Written' = Written
  BY <1>1 DEF Written
<1>4. fpc = "written" => Written # job.out /\ Written \notin job.inputs
  <2> SUFFICES ASSUME fpc = "written"
               PROVE  Written # job.out /\ Written \notin job.inputs
    OBVIOUS
  <2>1. Written \notin SegmentNames /\ Level(Written) = 0
    BY WrittenFresh, SealedInterval
  <2> QED  BY <1>2, <2>1
<1>5. fpc = "written" => Written \in DOMAIN disk /\ disk[Written] = sealed
  BY DEF Content, StoreInv, Files, Written
<1>6. CASE UNCHANGED <<disk, cat>> /\ mpc \notin Between /\ mpc' \notin Between
  BY <1>1, <1>6, ContentKept DEF SameExtents
<1>7. CASE Merge /\ job.inputs \subseteq DOMAIN disk
  <2> DEFINE rows == UNION {disk[n] : n \in job.inputs}
  <2>1. disk' = Put(disk, job.out, rows) /\ mpc = "merge" /\ mpc' = "swap" /\ cat' = cat
    BY <1>7 DEF Merge
  <2>2. rows = MinSeq(job.out)..job.hi
    <3>1. \A n \in job.inputs : disk[n] = MinSeq(n)..cat[n].hi
      BY <1>2, <1>7 DEF Content
    <3>2. ASSUME NEW n \in job.inputs, NEW r \in MinSeq(n)..cat[n].hi
          PROVE  r \in MinSeq(job.out)..job.hi
      BY <1>2
    <3>3. \A r \in MinSeq(job.out)..job.hi : \E n \in job.inputs : r \in MinSeq(n)..cat[n].hi
      BY <1>2 DEF Within
    <3> QED  BY <3>1, <3>2, <3>3
  <2> HIDE DEF rows
  <2>3. /\ DOMAIN disk' = DOMAIN disk \cup {job.out} /\ disk'[job.out] = rows
        /\ \A n \in DOMAIN disk : n # job.out => disk'[n] = disk[n]
    BY <2>1 DEF Put
  <2>4. \A n \in DOMAIN disk' \cap DOMAIN cat' : disk'[n] = MinSeq(n)..cat'[n].hi
    BY <1>2, <2>1, <2>3 DEF Content
  <2>5. \A n \in DOMAIN disk' :
          \/ n \in DOMAIN cat' /\ cat'[n].loc # "REMOTE"
          \/ n = job'.out
          \/ fpc' = "written" /\ n = Written'
    BY <1>1, <1>3, <2>1, <2>3 DEF Content
  <2>6. \A n \in DOMAIN cat' : cat'[n].loc # "REMOTE" => n \in DOMAIN disk'
    BY <2>1, <2>3 DEF Content
  <2>7. fpc' = "written" => disk'[Written'] = sealed'
    BY <1>1, <1>3, <1>4, <1>5, <2>3
  <2> QED  BY <1>1, <2>1, <2>2, <2>3, <2>4, <2>5, <2>6, <2>7 DEF Content
<1>8. CASE BumpRename /\ job.inputs \subseteq DOMAIN disk
  <2> DEFINE m == First(job.inputs)
             rows == disk[m]
             left == Drop(disk, job.inputs)
  <2>1. disk' = Put(left, job.out, rows) /\ mpc = "bump" /\ mpc' = "splice" /\ cat' = cat
    BY <1>8 DEF BumpRename
  <2>2. m \in job.inputs /\ JobOK
    <3>1. JobOK
      BY <2>1 DEF StoreInv, Tasks
    <3> QED  BY <3>1, FirstOfNames DEF JobOK
  <2>3. \A n \in job.inputs : n = m
    BY <1>1, <2>1, <2>2 DEF Planned
  <2>4. rows = MinSeq(job.out)..job.hi
    <3>1. disk[m] = MinSeq(m)..cat[m].hi
      BY <1>2, <1>8, <2>2 DEF Content
    <3>2. MinSeq(job.out) = MinSeq(m)
      BY <2>2, <2>3 DEF JobOK
    <3>3. MinSeq(job.out) <= job.hi
      BY <1>1, JobRows
    <3>4. Within(job.hi, m)
      BY <1>2, <2>3, <3>3
    <3>5. cat[m].hi = job.hi
      BY <1>2, <2>2, <3>4 DEF Within
    <3> QED  BY <3>1, <3>2, <3>5
  <2>5. DOMAIN left = DOMAIN disk \ job.inputs /\ \A n \in DOMAIN left : left[n] = disk[n]
    BY DEF Drop, Restrict
  <2> HIDE DEF rows, left, m
  <2>6. /\ DOMAIN disk' = DOMAIN left \cup {job.out} /\ disk'[job.out] = rows
        /\ \A n \in DOMAIN left : n # job.out => disk'[n] = left[n]
    BY <2>1 DEF Put
  <2>7. \A n \in DOMAIN disk' \cap DOMAIN cat' : disk'[n] = MinSeq(n)..cat'[n].hi
    BY <1>2, <2>1, <2>5, <2>6 DEF Content
  <2>8. \A n \in DOMAIN disk' :
          \/ n \in DOMAIN cat' /\ cat'[n].loc # "REMOTE"
          \/ n = job'.out
          \/ fpc' = "written" /\ n = Written'
    BY <1>1, <1>3, <2>1, <2>5, <2>6 DEF Content
  <2>9. \A n \in DOMAIN cat' : cat'[n].loc # "REMOTE" => n \in DOMAIN disk' \/ n \in job'.inputs
    BY <1>1, <2>1, <2>5, <2>6 DEF Content
  <2>10. fpc' = "written" => disk'[Written'] = sealed'
    BY <1>1, <1>3, <1>4, <1>5, <2>5, <2>6
  <2>11. job'.inputs \cap DOMAIN disk' = {}
    BY <1>1, <1>2, <2>5, <2>6
  <2> QED  BY <1>1, <2>1, <2>4, <2>6, <2>7, <2>8, <2>9, <2>10, <2>11 DEF Content
<1>9. CASE CommitSwap
  <2>1. /\ disk' = disk /\ mpc \in {"swap", "splice"}
        /\ mpc = "swap" => mpc' = "unlink" /\ todo' = job.inputs
        /\ mpc = "splice" => mpc' = "compact"
    BY <1>9 DEF CommitSwap, AtSplice
  <2>2. /\ DOMAIN cat' = (DOMAIN cat \ job.inputs) \cup {job.out}
        /\ cat'[job.out].hi = job.hi /\ cat'[job.out].loc = "LOCAL"
        /\ \A n \in DOMAIN cat \ job.inputs : n # job.out /\ cat'[n] = cat[n]
    BY <1>9, SwapEffect
  <2>3. job.out \in DOMAIN disk /\ disk[job.out] = MinSeq(job.out)..job.hi
    BY <2>1 DEF StoreInv, Files, Content
  <2>4. \A n \in DOMAIN disk' \cap DOMAIN cat' : disk'[n] = MinSeq(n)..cat'[n].hi
    BY <2>1, <2>2, <2>3 DEF Content
  <2>5. \A n \in DOMAIN disk' :
          \/ n \in DOMAIN cat' /\ cat'[n].loc # "REMOTE"
          \/ mpc' \in {"unlink", "evunlink"} /\ n \in todo'
          \/ fpc' = "written" /\ n = Written'
    BY <1>1, <1>3, <2>1, <2>2 DEF Content
  <2>6. \A n \in DOMAIN cat' : cat'[n].loc # "REMOTE" => n \in DOMAIN disk'
    BY <2>1, <2>2, <2>3 DEF Content
  <2>7. fpc' = "written" => disk'[Written'] = sealed'
    BY <1>1, <1>3, <1>5, <2>1
  <2> QED  BY <2>1, <2>4, <2>5, <2>6, <2>7 DEF Content
<1> QED  BY <1>6, <1>7, <1>8, <1>9 DEF Merge, BumpRename, Between

LEMMA UnlinkContent ==
  ASSUME Tidy, StoreInv, TidyInv, UnlinkInput \/ UnlinkEvicted
  PROVE  Content'
<1> USE DEF TidyInv, StoreInv
<1>1. mpc \in {"unlink", "evunlink"} /\ UNCHANGED <<cat, fpc, sealed, job>> /\ up
  BY DEF UnlinkInput, UnlinkEvicted
<1>2. PICK S \in SUBSET todo :
        disk' = Drop(disk, S) /\ todo' = todo \ S /\ (todo' # {} => mpc' = "unlink" /\ mpc = "unlink")
        /\ mpc' \in {"unlink", "compact", "evict"}
  <2>1. CASE UnlinkInput
    <3>1. First(todo) \in todo
      BY <2>1, TodoNames DEF UnlinkInput, Tasks
    <3> QED  BY <2>1, <3>1 DEF UnlinkInput
  <2>2. CASE UnlinkEvicted
    BY <2>2 DEF UnlinkEvicted
  <2> QED  BY <2>1, <2>2
<1>3. DOMAIN disk' = DOMAIN disk \ S /\ \A n \in DOMAIN disk \ S : disk'[n] = disk[n]
  BY <1>2 DEF Drop, Restrict
<1>4. Written' = Written
  BY <1>1 DEF Written
<1>5. fpc \in {"written", "cataloged"} => Written \notin S
  BY <1>1, <1>2, SealedApart DEF Written
<1>6. \A n \in DOMAIN cat : cat[n].loc # "REMOTE" => n \notin S
  BY <1>1, <1>2, <1>5 DEF Mirrored, Files
<1>7. \A n \in DOMAIN disk' \cap DOMAIN cat' : disk'[n] = MinSeq(n)..cat'[n].hi
  BY <1>1, <1>3 DEF Content
<1>8. \A n \in DOMAIN disk' :
        \/ n \in DOMAIN cat' /\ cat'[n].loc # "REMOTE"
        \/ mpc' \in {"unlink", "evunlink"} /\ n \in todo'
        \/ fpc' = "written" /\ n = Written'
  BY <1>1, <1>2, <1>3, <1>4 DEF Content
<1>9. \A n \in DOMAIN cat' : cat'[n].loc # "REMOTE" => n \in DOMAIN disk'
  BY <1>1, <1>3, <1>6 DEF Content
<1>10. fpc' = "written" => disk'[Written'] = sealed'
  <2>1. fpc = "written" => Written \in DOMAIN disk
    BY DEF Files, Written
  <2> QED  BY <1>1, <1>3, <1>4, <1>5, <2>1 DEF Content
<1> QED  BY <1>2, <1>7, <1>8, <1>9, <1>10 DEF Content

LEMMA NextContent ==
  ASSUME Tidy, StoreInv, TidyInv, Next
  PROVE  Content'
<1> USE DEF TidyInv
<1>1. CASE EvictSegment
  <2> DEFINE n == First(todo)
  <2>1. /\ disk' = disk /\ UNCHANGED <<fpc, sealed>> /\ mpc = "evwait" /\ mpc' = "evunlink" /\ todo' = todo
    BY <1>1 DEF EvictSegment
  <2>2. /\ n \in todo /\ DOMAIN cat' = DOMAIN cat /\ n \in DOMAIN cat
        /\ cat'[n].hi = cat[n].hi /\ cat'[n].loc = "REMOTE"
        /\ \A m \in DOMAIN cat : m # n => cat'[m] = cat[m]
    BY <1>1, EvictEffect
  <2> HIDE DEF n
  <2>3. Written' = Written
    BY <2>1 DEF Written
  <2>4. \A m \in DOMAIN disk' \cap DOMAIN cat' : disk'[m] = MinSeq(m)..cat'[m].hi
    BY <2>1, <2>2 DEF Content
  <2>5. \A m \in DOMAIN disk' :
          \/ m \in DOMAIN cat' /\ cat'[m].loc # "REMOTE"
          \/ m \in todo'
          \/ fpc' = "written" /\ m = Written'
    BY <2>1, <2>2, <2>3 DEF Content
  <2>6. \A m \in DOMAIN cat' : cat'[m].loc # "REMOTE" => m \in DOMAIN disk'
    BY <2>1, <2>2 DEF Content
  <2>7. fpc' = "written" => disk'[Written'] = sealed'
    BY <2>1, <2>3 DEF Content
  <2> QED  BY <2>1, <2>4, <2>5, <2>6, <2>7 DEF Content
<1>2. CASE ReconcileAdopt
  <2>1. mode = "register" /\ mpc = "drop" /\ DOMAIN disk = {} /\ fpc = "idle"
    BY <1>2, AdoptEffect DEF Orphans, Registering
  <2>2. UNCHANGED <<disk, fpc, mpc>>
    BY <1>2 DEF ReconcileAdopt
  <2>3. \A n \in DOMAIN cat' : cat'[n].loc = "REMOTE"
    BY <1>2, <2>1, AdoptEffect DEF Orphans, Registering
  <2> QED  BY <2>1, <2>2, <2>3 DEF Content
<1>3. CASE LoseDisk
  <2>1. /\ disk' = <<>> /\ cat' = <<>> /\ mpc' = "idle" /\ fpc' = "idle"
    BY <1>3 DEF LoseDisk, StoreInv, Tasks
  <2> QED  BY <2>1 DEF Content
<1> QED
  BY <1>1, <1>2, <1>3, QuietContent, FlushContent, CompactContent, UnlinkContent
-----------------------------------------------------------------------------
(* The objects of the bucket. *)

LEMMA UploadEffect ==
  ASSUME StoreInv, TidyInv, Uploads
  PROVE  \E n \in todo :
           /\ n = First(todo) /\ n \in DOMAIN cat /\ Level(n) >= 1 /\ cat[n].loc # "REMOTE"
           /\ mode # "register" /\ mpc = "upload" /\ cat' = cat
           /\ DOMAIN bucket' = DOMAIN bucket \cup {n}
           /\ \A m \in DOMAIN bucket : m # n => bucket'[m] = bucket[m]
           /\ bucket'[n] = MinSeq(n)..cat[n].hi /\ Top(n)' = cat[n].hi
<1> USE DEF TidyInv
<1> DEFINE n == First(todo)
<1>1. mpc = "upload" /\ todo # {} /\ cat' = cat
  BY DEF Uploads, Upload, UploadFails
<1>2. n \in todo /\ n \in Names
  BY <1>1, TodoNames DEF StoreInv
<1>3. n \in SegmentNames /\ Level(n) >= 1 /\ listed \subseteq DOMAIN bucket
  BY <1>1, <1>2 DEF Stages
<1>4. n \in DOMAIN cat /\ cat[n].loc # "REMOTE"
  BY <1>3, EntryLocal
<1>5. mode # "register"
  BY <1>1 DEF Orphans, Registering, StoreInv, Tasks
<1>6. MinSeq(n) <= cat[n].hi /\ cat[n].hi \in Nat
  BY <1>4, RowTypes DEF Extents
<1>7. FooterMax(n, MinSeq(n)..cat[n].hi) = cat[n].hi
  BY <1>2, <1>6, IntervalFooter
<1>8. \/ n \in listed /\ bucket' = bucket
      \/ n \in DOMAIN disk /\ bucket' = Put(bucket, n, disk[n])
  BY DEF Uploads, Upload, UploadFails
<1>9. n \in DOMAIN disk => disk[n] = MinSeq(n)..cat[n].hi
  BY <1>4 DEF Content
<1>10. n \in listed => n \in DOMAIN bucket /\ bucket[n] = MinSeq(n)..cat[n].hi
  BY <1>3, <1>4 DEF Archive
<1> HIDE DEF n
<1>11. /\ DOMAIN bucket' = DOMAIN bucket \cup {n}
       /\ \A m \in DOMAIN bucket : m # n => bucket'[m] = bucket[m]
       /\ bucket'[n] = MinSeq(n)..cat[n].hi
  <2>1. CASE n \in listed /\ bucket' = bucket
    BY <1>10, <2>1
  <2>2. CASE n \in DOMAIN disk /\ bucket' = Put(bucket, n, disk[n])
    BY <1>9, <2>2 DEF Put
  <2> QED  BY <1>8, <2>1, <2>2
<1>12. FooterMax(n, bucket'[n]) = cat[n].hi
  BY <1>7, <1>11
<1>13. \E k \in todo : k = n
  BY <1>2
<1>14. PICK k \in todo : k = n
  BY <1>13
<1>15. Top(k)' = cat[k].hi
  BY <1>12, <1>14 DEF Top
<1>16. k = First(todo)
  BY <1>14 DEF n
<1> QED  BY <1>1, <1>3, <1>4, <1>5, <1>11, <1>14, <1>15, <1>16

\* An object that is not in the catalog lies apart from a row or below it.
LEMMA ObjectAgainstRow ==
  ASSUME StoreInv, TidyInv, mode # "register", NEW m \in DOMAIN bucket, NEW n \in DOMAIN cat, m # n
  PROVE  Top(m) < MinSeq(n) \/ cat[n].hi < MinSeq(m) \/ Below(m, n, cat[n].hi)
<1> USE DEF TidyInv
<1>1. MinSeq(m) \in Nat /\ Top(m) \in Nat /\ MinSeq(n) \in Nat /\ cat[n].hi \in Nat /\ MinSeq(m) <= Top(m)
  BY ObjectTypes, RowTypes
<1>2. CASE m \in DOMAIN cat
  BY <1>2 DEF Extents, Archive
<1>3. CASE m \notin DOMAIN cat
  <2>1. PICK k \in DOMAIN cat : Below(m, k, cat[k].hi)
    BY <1>3 DEF Orphans
  <2>2. CASE k = n
    BY <2>1, <2>2
  <2>3. CASE k # n
    <3>1. cat[k].hi < MinSeq(n) \/ cat[n].hi < MinSeq(k)
      BY <2>3 DEF Extents
    <3>2. MinSeq(k) \in Nat /\ cat[k].hi \in Nat /\ MinSeq(k) <= MinSeq(m) /\ Top(m) <= cat[k].hi
      BY <2>1, RowTypes DEF Below
    <3> QED  BY <1>1, <3>1, <3>2
  <2> QED  BY <2>2, <2>3
<1> QED  BY <1>2, <1>3

LEMMA NextArchive ==
  ASSUME Tidy, StoreInv, TidyInv, Next
  PROVE  Archive'
<1> USE DEF TidyInv
\* The objects.
<1>1. /\ \A n \in DOMAIN bucket' : Level(n) >= 1 /\ bucket'[n] = MinSeq(n)..(Top(n)')
      /\ \A m, n \in DOMAIN bucket' : m # n =>
           \/ Top(m)' < MinSeq(n) \/ Top(n)' < MinSeq(m)
           \/ Below(m, n, Top(n))' \/ Below(n, m, Top(m))'
  <2>1. CASE UNCHANGED bucket
    <3>1. \A n : Top(n)' = Top(n)
      BY <2>1 DEF Top
    <3> QED  BY <2>1, <3>1 DEF Archive, Below
  <2>2. CASE ReconcileDrop \/ DeleteOrphan
    <3>1. DOMAIN bucket' \subseteq DOMAIN bucket /\ \A m \in DOMAIN bucket' : bucket'[m] = bucket[m]
      BY <2>2, DropEffect
    <3>2. \A m \in DOMAIN bucket' : Top(m)' = Top(m)
      BY <3>1 DEF Top
    <3> QED  BY <3>1, <3>2 DEF Archive, Below
  <2>3. CASE Uploads
    <3>1. PICK n \in DOMAIN cat :
          /\ Level(n) >= 1 /\ mode # "register"
          /\ DOMAIN bucket' = DOMAIN bucket \cup {n}
          /\ \A m \in DOMAIN bucket : m # n => bucket'[m] = bucket[m]
          /\ bucket'[n] = MinSeq(n)..cat[n].hi /\ Top(n)' = cat[n].hi
      BY <2>3, UploadEffect
    <3>2. \A m \in DOMAIN bucket : m # n => Top(m)' = Top(m)
      BY <3>1 DEF Top
    <3>3. \A m \in DOMAIN bucket' : Level(m) >= 1 /\ bucket'[m] = MinSeq(m)..(Top(m)')
      BY <3>1, <3>2 DEF Archive
    <3>4. ASSUME NEW m \in DOMAIN bucket, m # n
          PROVE  Top(m)' < MinSeq(n) \/ Top(n)' < MinSeq(m) \/ Below(m, n, Top(n))'
      BY <3>1, <3>2, <3>4, ObjectAgainstRow DEF Below
    <3>5. ASSUME NEW k \in DOMAIN bucket, NEW m \in DOMAIN bucket, k # n, m # n, k # m
          PROVE  \/ Top(m)' < MinSeq(k) \/ Top(k)' < MinSeq(m)
                 \/ Below(m, k, Top(k))' \/ Below(k, m, Top(m))'
      BY <3>2, <3>5 DEF Archive, Below
    <3> QED  BY <3>1, <3>3, <3>4, <3>5
  <2> QED  BY <2>1, <2>2, <2>3, BucketSteps
\* Rows and objects.
<1>2. /\ \A n \in DOMAIN cat' : cat'[n].loc # "LOCAL" => n \in DOMAIN bucket'
      /\ \A n \in DOMAIN cat' \cap DOMAIN bucket' : Top(n)' = cat'[n].hi
  <2>0. /\ \A n \in DOMAIN cat : cat[n].loc # "LOCAL" => n \in DOMAIN bucket
        /\ \A n \in DOMAIN cat \cap DOMAIN bucket : Top(n) = cat[n].hi
    BY DEF Archive
  <2>1. CASE ReconcileDrop \/ DeleteOrphan
    <3>1. /\ SameRows /\ First(todo) \notin DOMAIN cat
          /\ DOMAIN bucket \ {First(todo)} \subseteq DOMAIN bucket' /\ DOMAIN bucket' \subseteq DOMAIN bucket
          /\ \A m \in DOMAIN bucket' : bucket'[m] = bucket[m]
      BY <2>1, DropEffect
    <3>2. \A m \in DOMAIN bucket' : Top(m)' = Top(m)
      BY <3>1 DEF Top
    <3> QED  BY <2>0, <3>1, <3>2 DEF SameRows
  <2>2. CASE Uploads
    <3>1. PICK n \in DOMAIN cat :
          /\ cat' = cat
          /\ DOMAIN bucket' = DOMAIN bucket \cup {n}
          /\ \A m \in DOMAIN bucket : m # n => bucket'[m] = bucket[m]
          /\ Top(n)' = cat[n].hi
      BY <2>2, UploadEffect
    <3>2. \A m \in DOMAIN bucket : m # n => Top(m)' = Top(m)
      BY <3>1 DEF Top
    <3> QED  BY <2>0, <3>1, <3>2
  <2>3. CASE UNCHANGED bucket
    <3>0. DOMAIN bucket' = DOMAIN bucket /\ \A n : Top(n)' = Top(n)
      BY <2>3 DEF Top
    <3>1. CASE SameRows
      BY <2>0, <3>0, <3>1 DEF SameRows
    <3>2. CASE UpsertSegment
      <4>1. Written \notin DOMAIN bucket
        <5>1. Level(Written) = 0
          BY <3>2, SealedInterval DEF UpsertSegment
        <5> QED  BY <5>1 DEF Archive
      <4>2. /\ DOMAIN cat' = DOMAIN cat \cup {Written} /\ cat'[Written].loc = "LOCAL"
            /\ \A n \in DOMAIN cat : n # Written => cat'[n] = cat[n]
        BY <3>2, UpsertEffect
      <4> QED  BY <2>0, <3>0, <4>1, <4>2
    <3>3. CASE CommitSwap
      <4>1. /\ DOMAIN cat' = (DOMAIN cat \ job.inputs) \cup {job.out} /\ cat'[job.out].loc = "LOCAL"
            /\ \A n \in DOMAIN cat \ job.inputs : n # job.out /\ cat'[n] = cat[n]
            /\ job.out \notin DOMAIN bucket
        BY <3>3, SwapEffect, JobFresh
      <4> QED  BY <2>0, <3>0, <4>1
    <3>4. CASE MarkUploaded
      <4> DEFINE n == First(todo)
      <4>1. /\ n \in DOMAIN bucket /\ DOMAIN cat' = DOMAIN cat /\ cat'[n].hi = cat[n].hi
            /\ \A m \in DOMAIN cat : m # n => cat'[m] = cat[m]
        BY <3>4, MarkEffect
      <4> HIDE DEF n
      <4> QED  BY <2>0, <3>0, <4>1
    <3>5. CASE EvictSegment
      <4> DEFINE n == First(todo)
      <4>1. /\ n \in DOMAIN bucket /\ DOMAIN cat' = DOMAIN cat /\ cat'[n].hi = cat[n].hi
            /\ \A m \in DOMAIN cat : m # n => cat'[m] = cat[m]
        BY <3>5, EvictEffect
      <4> HIDE DEF n
      <4> QED  BY <2>0, <3>0, <4>1
    <3>6. CASE ReconcileAdopt
      <4> DEFINE n == First(listed)
      <4>1. /\ n \in DOMAIN bucket /\ DOMAIN cat' = DOMAIN cat \cup {n} /\ cat'[n].hi = Top(n)
            /\ \A m \in DOMAIN cat : cat'[m] = cat[m]
        BY <3>6, AdoptEffect
      <4> HIDE DEF n
      <4> QED  BY <2>0, <3>0, <4>1
    <3>7. CASE LoseDisk
      BY <3>7 DEF LoseDisk
    <3> QED  BY <3>1, <3>2, <3>3, <3>4, <3>5, <3>6, <3>7, CatalogSteps
  <2> QED  BY <2>1, <2>2, <2>3, BucketSteps
<1> QED  BY <1>1, <1>2 DEF Archive
-----------------------------------------------------------------------------
(* The boot reconcile. *)

LEMMA BelowChain ==
  ASSUME StoreInv, NEW k \in DOMAIN bucket, NEW m \in DOMAIN bucket, NEW n \in Names, NEW top \in Int,
         Below(k, m, Top(m)), Below(m, n, top)
  PROVE  Below(k, n, top)
<1>1. /\ MinSeq(k) \in Int /\ MinSeq(m) \in Int /\ Level(k) \in Int /\ Level(m) \in Int
      /\ Top(k) \in Int /\ Top(m) \in Int
  BY ObjectTypes
<1>2. MinSeq(n) \in Int /\ Level(n) \in Int
  BY NameTypes
<1> QED  BY <1>1, <1>2 DEF Below

\* What covers an object and is not covered itself is of the highest level.
LEMMA CoveredByTop ==
  ASSUME StoreInv, NEW n \in DOMAIN bucket, NEW k \in DOMAIN bucket, Below(n, k, Top(k))
  PROVE  \E m \in DOMAIN bucket :
           /\ Below(n, m, Top(m))
           /\ \A l \in DOMAIN bucket : ~Below(m, l, Top(l))
<1> DEFINE C == {m \in DOMAIN bucket : Below(n, m, Top(m))}
           L == {Level(m) : m \in C}
<1>1. \A m \in DOMAIN bucket : m \in Names /\ Level(m) \in Int /\ Level(m) <= Terminal /\ Top(m) \in Int
  <2>1. \A m \in DOMAIN bucket : m \in Names /\ Top(m) \in Int
    BY ObjectTypes
  <2>2. \A m \in Names : Level(m) \in Int /\ Level(m) <= Terminal
    BY NameTypes
  <2> QED  BY <2>1, <2>2
<1>2. Max(L) \in L /\ \A x \in L : x <= Max(L)
  <2>1. Terminal \in Int
    BY PlannerAssumption DEF Terminal
  <2>2. L \in SUBSET Int /\ L # {} /\ \A x \in L : x <= Terminal
    BY <1>1
  <2> HIDE DEF L
  <2> QED  BY <2>1, <2>2, MaxOfInts
<1>3. PICK m \in C : Level(m) = Max(L)
  BY <1>2
<1>4. ASSUME NEW l \in DOMAIN bucket, Below(m, l, Top(l))
      PROVE  FALSE
  <2>1. Below(n, l, Top(l))
    BY <1>1, <1>3, <1>4, BelowChain
  <2>2. Level(l) \in L
    BY <2>1
  <2>3. Level(l) <= Level(m) /\ Level(m) < Level(l)
    BY <1>2, <1>3, <1>4, <2>2 DEF Below
  <2>4. Level(l) \in Int /\ Level(m) \in Int
    BY <1>1, <1>3
  <2> QED  BY <2>3, <2>4
<1> QED  BY <1>3, <1>4

\* The listing of a namespace that is registered: all that is not covered is adopted.
LEMMA RegisterList ==
  ASSUME StoreInv, TidyInv, ReconcileList, mode = "register"
  PROVE  /\ DOMAIN cat = {}
         /\ \A n \in listed' \cup todo' : n \in DOMAIN bucket
         /\ \A m, n \in listed' : ~Below(m, n, Top(n))
         /\ \A n \in DOMAIN bucket \ listed' : \E m \in listed' : Below(n, m, Top(m))
<1> USE DEF TidyInv
<1>1. DOMAIN cat = {}
  BY DEF ReconcileList, Orphans, Registering
<1>2. Archivable = {}
  BY <1>1 DEF Archivable
<1>3. \A n \in DOMAIN bucket : KnownMax(n) = Top(n)
  BY <1>2 DEF KnownMax, Top
<1>4. \A n \in DOMAIN bucket : Top(n) \in Int
  BY ObjectTypes
<1>5. \A n \in DOMAIN bucket : Redundant(n) <=> \E m \in DOMAIN bucket : Below(n, m, Top(m))
  BY <1>2, <1>3, <1>4 DEF Redundant, Below
<1>6. listed' = {n \in DOMAIN bucket : ~Redundant(n)} /\ todo' \subseteq DOMAIN bucket
  BY <1>2 DEF ReconcileList
<1>7. \A m, n \in listed' : ~Below(m, n, Top(n))
  BY <1>5, <1>6
<1>8. ASSUME NEW n \in DOMAIN bucket \ listed'
      PROVE  \E m \in listed' : Below(n, m, Top(m))
  <2>1. PICK k \in DOMAIN bucket : Below(n, k, Top(k))
    BY <1>5, <1>6
  <2>2. PICK m \in DOMAIN bucket : /\ Below(n, m, Top(m))
                                   /\ \A l \in DOMAIN bucket : ~Below(m, l, Top(l))
    BY <2>1, CoveredByTop
  <2>3. m \in listed'
    BY <1>5, <1>6, <2>2
  <2> QED  BY <2>2, <2>3
<1> QED  BY <1>1, <1>6, <1>7, <1>8

\* The listing of a boot finds that every object is either a row's or covered by one.
LEMMA BootList ==
  ASSUME StoreInv, TidyInv, ReconcileList, mode # "register"
  PROVE  /\ listed' = {}
         /\ \A n \in todo' : n \notin DOMAIN cat /\ n \in DOMAIN bucket
<1> USE DEF TidyInv
<1>1. \A n \in DOMAIN bucket : Level(n) >= 1
  BY DEF Archive
<1>2. \A n \in DOMAIN cat : cat[n].hi \in Int /\ MinSeq(n) \in Int /\ Level(n) \in Int /\ MinSeq(n) <= cat[n].hi
  BY RowTypes DEF Extents
<1>3. \A n \in DOMAIN bucket : Top(n) \in Int /\ MinSeq(n) \in Int /\ Level(n) \in Int /\ MinSeq(n) <= Top(n)
  BY ObjectTypes
<1>4. \A n \in Archivable : n \in DOMAIN cat /\ KnownMax(n) = cat[n].hi
  BY DEF Archivable, KnownMax
<1>5. \A n \in DOMAIN bucket : n \in DOMAIN cat <=> n \in Archivable
  BY <1>1 DEF Archivable
<1>6. \A n \in DOMAIN bucket \ DOMAIN cat : KnownMax(n) = Top(n)
  BY <1>5 DEF KnownMax, Top
\* A row is not covered.
<1>7. ASSUME NEW n \in Archivable, Redundant(n)
      PROVE  FALSE
  <2>1. PICK m \in Archivable \cup DOMAIN bucket :
          Level(m) > Level(n) /\ MinSeq(m) <= MinSeq(n) /\ KnownMax(m) >= KnownMax(n)
    BY <1>7 DEF Redundant
  <2>2. PICK k \in DOMAIN cat : Level(k) > Level(n) /\ MinSeq(k) <= MinSeq(n) /\ cat[k].hi >= cat[n].hi
    <3>1. CASE m \in DOMAIN cat
      <4>1. m \in Archivable
        BY <1>5, <2>1, <3>1
      <4> QED  BY <1>4, <2>1, <3>1, <4>1
    <3>2. CASE m \notin DOMAIN cat
      <4>1. m \in DOMAIN bucket /\ KnownMax(m) = Top(m)
        BY <1>4, <1>6, <2>1, <3>2
      <4>2. PICK k \in DOMAIN cat : Below(m, k, cat[k].hi)
        BY <3>2, <4>1 DEF Orphans
      <4>3. /\ Level(m) \in Int /\ Level(k) \in Int /\ Level(n) \in Int /\ MinSeq(m) \in Int
            /\ MinSeq(k) \in Int /\ MinSeq(n) \in Int /\ Top(m) \in Int /\ cat[k].hi \in Int
            /\ cat[n].hi \in Int /\ KnownMax(n) = cat[n].hi
        BY <1>2, <1>3, <1>4, <4>1
      <4>4. Level(k) > Level(n) /\ MinSeq(k) <= MinSeq(n) /\ cat[k].hi >= cat[n].hi
        BY <2>1, <4>1, <4>2, <4>3 DEF Below
      <4> QED  BY <4>4
    <3> QED  BY <3>1, <3>2
  <2>3. n \in DOMAIN cat /\ k # n
    BY <1>2, <1>4, <2>2
  <2>4. cat[k].hi < MinSeq(n) \/ cat[n].hi < MinSeq(k)
    BY <2>3 DEF Extents
  <2> QED  BY <1>2, <2>2, <2>3, <2>4
\* An object that has no row is.
<1>8. ASSUME NEW n \in DOMAIN bucket \ Archivable
      PROVE  Redundant(n)
  <2>1. n \notin DOMAIN cat
    BY <1>5
  <2>2. PICK m \in DOMAIN cat : Below(n, m, cat[m].hi)
    BY <2>1 DEF Orphans
  <2>3. Level(m) > Level(n) /\ MinSeq(m) <= MinSeq(n) /\ cat[m].hi >= Top(n)
    BY <1>2, <1>3, <2>2 DEF Below
  <2>4. Level(m) >= 1
    BY <1>1, <1>2, <1>3, <2>3
  <2>5. m \in Archivable
    BY <2>4 DEF Archivable
  <2>6. KnownMax(m) >= KnownMax(n)
    BY <1>4, <1>6, <2>1, <2>3, <2>5
  <2> QED  BY <2>3, <2>5, <2>6 DEF Redundant
<1>9. listed' = {} /\ todo' = {n \in Archivable \cup DOMAIN bucket : Redundant(n)}
  BY <1>8 DEF ReconcileList
<1>10. \A n \in todo' : n \in DOMAIN bucket \ Archivable
  BY <1>7, <1>9
<1> QED  BY <1>5, <1>9, <1>10

LEMMA NextCovered ==
  ASSUME Tidy, StoreInv, TidyInv, Next, mode' # "register" \/ mpc' = "reseed",
         NEW n \in DOMAIN bucket' \ DOMAIN cat'
  PROVE  \E m \in DOMAIN cat' : Below(n, m, cat[m].hi)'
<1> USE DEF TidyInv
<1>1. CASE mode # "register" \/ mpc = "reseed"
  <2>0. \A k \in DOMAIN bucket \ DOMAIN cat : \E m \in DOMAIN cat : Below(k, m, cat[m].hi)
    BY <1>1 DEF Orphans
  <2>1. CASE Uploads
    <3>1. PICK k \in DOMAIN cat :
            /\ cat' = cat /\ DOMAIN bucket' = DOMAIN bucket \cup {k}
            /\ \A m \in DOMAIN bucket : m # k => bucket'[m] = bucket[m]
      BY <2>1, UploadEffect
    <3>2. n # k /\ n \in DOMAIN bucket /\ Top(n)' = Top(n)
      BY <3>1 DEF Top
    <3> QED  BY <2>0, <3>1, <3>2 DEF Below
  <2>2. CASE ~Uploads
    <3>1. n \in DOMAIN bucket /\ Top(n)' = Top(n)
      <4>1. CASE UNCHANGED bucket
        BY <4>1 DEF Top
      <4>2. CASE ReconcileDrop \/ DeleteOrphan
        BY <4>2, DropEffect DEF Top
      <4> QED  BY <2>2, <4>1, <4>2, BucketSteps
    <3>2. CASE CommitSwap
      <4>1. /\ mpc \in Working /\ DOMAIN cat' = (DOMAIN cat \ job.inputs) \cup {job.out}
            /\ cat'[job.out].hi = job.hi
            /\ \A m \in DOMAIN cat \ job.inputs : cat'[m] = cat[m]
        BY <3>2, SwapEffect
      <4>2. \/ \E m \in DOMAIN cat : Below(n, m, cat[m].hi)
            \/ n \in job.inputs /\ Top(n) = cat[n].hi
        BY <2>0, <3>1, <4>1 DEF Archive
      <4>3. /\ Level(job.out) \in Int /\ MinSeq(job.out) \in Int /\ job.hi \in Int
            /\ \A m \in job.inputs : /\ m \in DOMAIN cat /\ Level(m) < Level(job.out)
                                     /\ MinSeq(job.out) <= MinSeq(m) /\ cat[m].hi <= job.hi
        BY <4>1, JobRows
      <4>4. /\ Level(n) \in Int /\ MinSeq(n) \in Int /\ Top(n) \in Int
            /\ \A m \in DOMAIN cat : Level(m) \in Int /\ MinSeq(m) \in Int /\ cat[m].hi \in Int
        BY <3>1, ObjectTypes, RowTypes
      <4>5. \A m \in job.inputs : Below(n, m, cat[m].hi) => Below(n, job.out, job.hi)
        BY <4>3, <4>4 DEF Below
      <4>6. n \in job.inputs /\ Top(n) = cat[n].hi => Below(n, job.out, job.hi)
        BY <4>3, <4>4 DEF Below
      <4>7. (\E m \in DOMAIN cat \ job.inputs : Below(n, m, cat[m].hi)) \/ Below(n, job.out, job.hi)
        BY <4>2, <4>5, <4>6
      <4>8. Below(n, job.out, job.hi) =>
              Level(n) < Level(job.out) /\ MinSeq(job.out) <= MinSeq(n) /\ Top(n)' <= cat'[job.out].hi
        BY <3>1, <4>1 DEF Below
      <4>9. Below(n, job.out, job.hi) => \E m \in DOMAIN cat' : Below(n, m, cat[m].hi)'
        BY <4>1, <4>8 DEF Below
      <4>10. \A m \in DOMAIN cat \ job.inputs : Below(n, m, cat[m].hi) => Below(n, m, cat[m].hi)'
        BY <3>1, <4>1 DEF Below
      <4> QED  BY <4>1, <4>7, <4>9, <4>10
    <3>3. CASE SameExtents
      BY <2>0, <3>1, <3>3 DEF SameExtents, Below
    <3>4. CASE UpsertSegment
      <4>1. Written \notin DOMAIN cat
        BY <3>4, WrittenFresh DEF UpsertSegment
      <4>2. DOMAIN cat \subseteq DOMAIN cat' /\ \A m \in DOMAIN cat : cat'[m] = cat[m]
        BY <3>4, <4>1, UpsertEffect
      <4> QED  BY <2>0, <3>1, <4>2 DEF Below
    <3>5. CASE ReconcileAdopt
      BY <1>1, <3>5, AdoptEffect
    <3>6. CASE LoseDisk
      BY <3>6 DEF LoseDisk, StoreInv, Tasks
    <3>7. SameRows \/ MarkUploaded \/ EvictSegment => SameExtents
      BY MarkEffect, EvictEffect DEF SameRows, SameExtents
    <3> QED  BY <3>2, <3>3, <3>4, <3>5, <3>6, <3>7, CatalogSteps
  <2> QED  BY <2>1, <2>2
<1>2. CASE mode = "register" /\ mpc # "reseed"
  <2>1. EndReconcile
    <3>1. ram = {} /\ fpc = "idle" /\ (mpc \in {"reconcile", "drop"} \/ ~up) /\ (~up => mpc = "idle")
      BY <1>2 DEF Orphans, Registering, StoreInv, Tasks
    <3> QED
      BY <1>2, <3>1, TidySteps DEF AppendRow, Seal, WriteSegment, UpsertSegment, RestoreFlush,
         CommitFlush, Publish, MayPublish, StartCycle, StartStop, NothingToFlush, PlanJob, Merge, BumpRename, CommitSwap,
         AtSplice, UnlinkInput, ListBucket, Upload, UploadFails, MarkUploaded, MarkDeque, EndUploads,
         DeleteOrphan, ChooseEviction, EvictSegment, UnlinkEvicted, EndEviction, ReconcileList,
         ReconcileDrop, ReconcileAdopt, EndReconcile, Reseed, StartQuery, EndQuery, Stopped,
         LoseDisk, Open
  <2>2. mpc = "drop" /\ listed = {} /\ UNCHANGED <<cat, bucket>>
    BY <2>1 DEF EndReconcile
  <2>3. PICK m \in DOMAIN cat : Below(n, m, Top(m))
    BY <1>2, <2>2 DEF Orphans, Registering
  <2>4. Top(m) = cat[m].hi
    BY <1>2 DEF Orphans, Registering, Archive
  <2>5. Top(n)' = Top(n)
    BY <2>2 DEF Top
  <2> QED  BY <2>2, <2>3, <2>4, <2>5 DEF Below
<1> QED  BY <1>1, <1>2
-----------------------------------------------------------------------------
(* What is deleted from the bucket. *)

LEMMA RegisterSteps ==
  ASSUME Tidy, StoreInv, TidyInv, Next, mode = "register"
  PROVE  \/ Open \/ LoseDisk \/ ReconcileList \/ ReconcileDrop \/ ReconcileAdopt
         \/ EndReconcile \/ Reseed \/ EndQuery
<1>1. ram = {} /\ fpc = "idle" /\ (mpc \in {"reconcile", "drop", "reseed"} \/ ~up) /\ (~up => mpc = "idle")
  BY DEF TidyInv, Orphans, Registering, StoreInv, Tasks
<1> QED
  BY <1>1, TidySteps DEF AppendRow, Seal, WriteSegment, UpsertSegment, RestoreFlush,
     CommitFlush, Publish, MayPublish, StartCycle, StartStop, NothingToFlush, PlanJob, Merge, BumpRename, CommitSwap,
     AtSplice, UnlinkInput, ListBucket, Upload, UploadFails, MarkUploaded, MarkDeque, EndUploads,
     DeleteOrphan, ChooseEviction, EvictSegment, UnlinkEvicted, EndEviction, StartQuery, Stopped

LEMMA ModeSteps ==
  ASSUME Tidy, StoreInv, TidyInv, Next
  PROVE  UNCHANGED mode \/ StartStop \/ Stopped \/ LoseDisk \/ Open \/ Reseed
BY TidySteps DEF AppendRow, Seal, WriteSegment, UpsertSegment, RestoreFlush, CommitFlush, Publish,
   StartCycle, NothingToFlush, PlanJob, Merge, BumpRename, CommitSwap, UnlinkInput,
   ListBucket, Upload, UploadFails, MarkUploaded, MarkDeque, EndUploads, DeleteOrphan,
   ChooseEviction, EvictSegment, UnlinkEvicted, EndEviction, ReconcileList, ReconcileDrop,
   ReconcileAdopt, EndReconcile, StartQuery, EndQuery

LEMMA DropSteps ==
  ASSUME Tidy, StoreInv, TidyInv, Next, mpc' \in {"drop", "orphans"}
  PROVE  \/ ReconcileList \/ EndUploads \/ ReconcileDrop \/ DeleteOrphan \/ ReconcileAdopt
         \/ UNCHANGED <<mpc, mode, todo, listed>>
<1>1. CASE \/ AppendRow \/ Seal("task") \/ Seal("maintenance") \/ WriteSegment \/ UpsertSegment
           \/ RestoreFlush \/ CommitFlush \/ Publish \/ StartCycle \/ StartStop \/ NothingToFlush
           \/ StartQuery \/ EndQuery
  BY <1>1 DEF AppendRow, Seal, WriteSegment, UpsertSegment, RestoreFlush, CommitFlush, Publish,
     AfterFlush, StartCycle, StartStop, NothingToFlush, StartQuery, EndQuery
<1>2. CASE Stopped \/ LoseDisk \/ Open
  BY <1>2 DEF Stopped, Down, LoseDisk, Open, StoreInv, Tasks
<1>3. CASE PlanJob \/ Merge \/ BumpRename \/ CommitSwap \/ UnlinkInput
  BY <1>3 DEF PlanJob, Merge, BumpRename, CommitSwap, UnlinkInput
<1>4. CASE \/ ListBucket \/ Upload \/ UploadFails \/ MarkUploaded
           \/ UnlinkEvicted \/ EndEviction \/ EvictSegment \/ EndReconcile \/ Reseed
  BY <1>4 DEF ListBucket, Upload, UploadFails, MarkUploaded, MarkDeque,
     EvictSegment, UnlinkEvicted, EndEviction, EndReconcile, Reseed
<1>5. CASE \E n \in Evictable : ChooseEviction(n)
  BY <1>5 DEF ChooseEviction
<1> QED  BY <1>1, <1>2, <1>3, <1>4, <1>5, TidySteps

\* What is known of the bucket while a reconcile drops.
LEMMA DropRegistering ==
  ASSUME StoreInv, TidyInv, mode = "register", ReconcileDrop
  PROVE  Registering'
<1> USE DEF TidyInv
<1>1. mpc = "drop" /\ mpc' = "drop" /\ Registering /\ UNCHANGED <<disk, local_segments, ram, fpc, listed>>
  BY DEF ReconcileDrop, Orphans
<1> DEFINE n == First(todo)
           known == DOMAIN cat \cup listed
<1>2. /\ SameRows /\ n \in todo /\ n \notin DOMAIN cat
      /\ DOMAIN bucket \ {n} \subseteq DOMAIN bucket' /\ DOMAIN bucket' \subseteq DOMAIN bucket
      /\ \A m \in DOMAIN bucket' : bucket'[m] = bucket[m]
  BY DropEffect
<1>3. n \notin known /\ known \subseteq DOMAIN bucket
  BY <1>1, <1>2 DEF StoreInv, Tasks, Registering, Archive
<1>4. /\ \A k, m \in known : ~Below(k, m, Top(m))
      /\ \A k \in DOMAIN bucket \ known : \E m \in known : Below(k, m, Top(m))
  BY <1>1 DEF Registering
<1>5. DOMAIN cat' \cup listed' = known
  BY <1>1, <1>2 DEF SameRows
<1> HIDE DEF n, known
<1>6. known \subseteq DOMAIN bucket'
  BY <1>2, <1>3
<1>7. \A m \in DOMAIN bucket' : Top(m)' = Top(m)
  BY <1>2 DEF Top
<1>8. \A k, m \in known : ~Below(k, m, Top(m))'
  BY <1>4, <1>6, <1>7 DEF Below
<1>9. \A k \in DOMAIN bucket' \ known : \E m \in known : Below(k, m, Top(m))'
  BY <1>2, <1>4, <1>6, <1>7 DEF Below
<1>10. \A m \in DOMAIN cat' : cat'[m].loc = "REMOTE"
  BY <1>1, <1>2 DEF SameRows, Registering
<1> QED  BY <1>1, <1>5, <1>8, <1>9, <1>10 DEF Registering

LEMMA NextRegistering ==
  ASSUME Tidy, StoreInv, TidyInv, Next, mode' = "register"
  PROVE  Registering'
<1> USE DEF TidyInv
<1>1. CASE LoseDisk
  <2>1. /\ ~up /\ local_segments = <<>> /\ ram = {} /\ fpc = "idle" /\ mpc = "idle"
        /\ UNCHANGED <<up, local_segments, ram, fpc, mpc>> /\ disk' = <<>> /\ cat' = <<>>
    BY <1>1 DEF LoseDisk, StoreInv, Tasks
  <2> QED  BY <2>1 DEF Registering
<1>2. CASE mode = "register" /\ ~LoseDisk
  <2>0. Registering
    BY <1>2 DEF Orphans
  <2>1. CASE Open
    <3>1. ~up /\ mpc = "idle"
      BY <2>1 DEF Open, StoreInv, Tasks
    <3>2. DOMAIN cat = {} /\ DOMAIN disk = {}
      BY <2>0, <3>1 DEF Registering
    <3>3. DOMAIN cat' = {}
      BY <2>1, <3>2, OpenEffect DEF SameRows
    <3>4. local_segments' \in Seq(Segs) /\ NamesOf(local_segments') = {}
      BY <2>1, <3>2, OpenedDeque DEF StoreInv
    <3>5. DOMAIN local_segments' = {}
      BY <3>4 DEF NamesOf
    <3>6. local_segments' = <<>>
      BY <3>4, <3>5
    <3>7. mpc' = "reconcile" /\ UNCHANGED <<disk, ram, fpc>>
      BY <2>1 DEF Open
    <3> QED  BY <2>0, <3>3, <3>6, <3>7 DEF Registering
  <2>2. CASE ReconcileList
    <3>1. /\ DOMAIN cat = {} /\ \A n \in listed' \cup todo' : n \in DOMAIN bucket
          /\ \A m, n \in listed' : ~Below(m, n, Top(n))
          /\ \A n \in DOMAIN bucket \ listed' : \E m \in listed' : Below(n, m, Top(m))
      BY <1>2, <2>2, RegisterList
    <3>2. mpc' = "drop" /\ UNCHANGED <<disk, cat, bucket, local_segments, ram, fpc>>
      BY <2>2 DEF ReconcileList
    <3>3. \A n : Top(n)' = Top(n)
      BY <3>2 DEF Top
    <3> QED  BY <2>0, <3>1, <3>2, <3>3 DEF Registering, Below
  <2>3. CASE ReconcileDrop
    BY <1>2, <2>3, DropRegistering
  <2>4. CASE ReconcileAdopt
    <3> DEFINE n == First(listed)
    <3>1. /\ mpc = "drop" /\ n \in listed /\ DOMAIN cat' = DOMAIN cat \cup {n}
          /\ cat'[n].loc = "REMOTE" /\ \A m \in DOMAIN cat : cat'[m] = cat[m]
          /\ listed' = listed \ {n}
      BY <2>4, AdoptEffect
    <3>2. UNCHANGED <<disk, bucket, local_segments, ram, fpc, mpc>>
      BY <2>4 DEF ReconcileAdopt
    <3> HIDE DEF n
    <3>3. DOMAIN cat' \cup listed' = DOMAIN cat \cup listed
      BY <3>1
    <3>4. \A m : Top(m)' = Top(m)
      BY <3>2 DEF Top
    <3>5. \A m \in DOMAIN cat' : cat'[m].loc = "REMOTE"
      BY <2>0, <3>1 DEF Registering
    <3> QED  BY <2>0, <3>1, <3>2, <3>3, <3>4, <3>5 DEF Registering, Below
  <2>5. CASE EndReconcile
    BY <2>0, <2>5 DEF EndReconcile, Registering
  <2>6. CASE EndQuery
    <3>1. UNCHANGED <<disk, bucket, cat, up, local_segments, ram, fpc, mpc, listed>>
      BY <2>6 DEF EndQuery
    <3>2. \A m : Top(m)' = Top(m)
      BY <3>1 DEF Top
    <3> QED  BY <2>0, <3>1, <3>2 DEF Registering, Below
  <2>7. ~Reseed
    BY DEF Reseed
  <2> QED  BY <1>2, <2>1, <2>2, <2>3, <2>4, <2>5, <2>6, <2>7, RegisterSteps
<1>3. mode = "register" \/ LoseDisk
  BY ModeSteps DEF StartStop, Stopped, Down, Open, Reseed
<1> QED  BY <1>1, <1>2, <1>3

LEMMA NextDropped ==
  ASSUME Tidy, StoreInv, TidyInv, Next, mpc' \in {"drop", "orphans"}
  PROVE  /\ mpc' = "drop" => listed' \cap DOMAIN cat' = {}
         /\ mpc' = "drop" /\ mode' # "register" => listed' = {}
         /\ \A n \in todo' : n \notin DOMAIN cat' /\ Level(n) >= 1
<1> USE DEF TidyInv
<1>1. CASE ReconcileList
  <2>1. UNCHANGED <<cat, bucket, mode>>
    BY <1>1 DEF ReconcileList
  <2>2. \A n \in todo' : n \notin DOMAIN cat /\ n \in DOMAIN bucket
    BY <1>1, BootList, RegisterList
  <2>3. mode # "register" => listed' = {}
    BY <1>1, BootList
  <2>4. mode = "register" => DOMAIN cat = {}
    BY <1>1, RegisterList
  <2> QED  BY <2>1, <2>2, <2>3, <2>4 DEF Archive
<1>2. CASE EndUploads
  <2>1. /\ mpc = "upload" /\ cat' = cat /\ mpc' = "orphans"
        /\ \A n \in todo' : n \in listed \ Archivable
    BY <1>2 DEF EndUploads, AfterSync
  <2>2. \A n \in todo' : n \in DOMAIN bucket \ Archivable
    BY <2>1 DEF Stages
  <2>3. \A n \in todo' : Level(n) >= 1
    BY <2>2 DEF Archive
  <2> QED  BY <2>1, <2>2, <2>3 DEF Archivable
<1>3. CASE ReconcileDrop \/ DeleteOrphan
  <2>1. SameRows /\ mpc \in {"drop", "orphans"} /\ todo' = todo \ {First(todo)}
    BY <1>3, DropEffect
  <2>2. listed' = listed /\ mode' = mode /\ (mpc' = "drop" => mpc = "drop")
    BY <1>3 DEF ReconcileDrop, DeleteOrphan, AfterSync
  <2> QED  BY <2>1, <2>2 DEF SameRows, Orphans
<1>4. CASE ReconcileAdopt
  <2> DEFINE n == First(listed)
  <2>1. /\ mpc = "drop" /\ mode = "register" /\ DOMAIN cat' = DOMAIN cat \cup {n} /\ listed' = listed \ {n}
    BY <1>4, AdoptEffect
  <2>2. mode' = mode /\ todo' = {}
    BY <1>4 DEF ReconcileAdopt
  <2> HIDE DEF n
  <2> QED  BY <2>1, <2>2 DEF Orphans
<1>5. CASE UNCHANGED <<mpc, mode, todo, listed>> /\ ~ReconcileAdopt /\ ~ReconcileDrop /\ ~DeleteOrphan
  <2>1. mpc \in {"drop", "orphans"}
    BY <1>5
  <2>2. DOMAIN cat' \subseteq DOMAIN cat \cup {m \in Names : Level(m) = 0 /\ (mpc = "drop" => m \notin listed)}
    <3>1. CASE SameRows
      BY <3>1 DEF SameRows
    <3>2. CASE UpsertSegment
      <4>1. Written \in Names /\ Level(Written) = 0
        BY <3>2, SealedInterval DEF UpsertSegment
      <4>2. Written \notin listed \/ mpc # "drop"
        <5>1. mpc = "drop" => \A n \in listed : Level(n) >= 1
          BY DEF StoreInv, Tasks, Archive
        <5> QED  BY <4>1, <5>1
      <4> QED  BY <3>2, <4>1, <4>2, UpsertEffect
    <3>3. CASE CommitSwap
      BY <2>1, <3>3 DEF CommitSwap, AtSplice
    <3>4. CASE MarkUploaded
      BY <3>4, MarkEffect
    <3>5. CASE EvictSegment
      BY <3>5, EvictEffect
    <3>6. CASE LoseDisk
      BY <3>6 DEF LoseDisk
    <3> QED  BY <1>5, <3>1, <3>2, <3>3, <3>4, <3>5, <3>6, CatalogSteps
  <2> QED  BY <1>5, <2>1, <2>2 DEF Orphans
<1> QED  BY <1>1, <1>2, <1>3, <1>4, <1>5, DropSteps

LEMMA NextOrphans ==
  ASSUME Tidy, StoreInv, TidyInv, Next
  PROVE  Orphans'
<1>1. mode' # "register" \/ mpc' = "reseed" =>
        \A n \in DOMAIN bucket' \ DOMAIN cat' : \E m \in DOMAIN cat' : Below(n, m, cat[m].hi)'
  BY NextCovered
<1>2. mode' = "register" => Registering'
  BY NextRegistering
<1>3. /\ mpc' = "drop" => listed' \cap DOMAIN cat' = {}
      /\ mpc' = "drop" /\ mode' # "register" => listed' = {}
      /\ mpc' \in {"drop", "orphans"} => \A n \in todo' : n \notin DOMAIN cat' /\ Level(n) >= 1
  BY NextDropped
<1> QED  BY <1>1, <1>2, <1>3 DEF Orphans
-----------------------------------------------------------------------------
(* Where the acknowledged rows are. *)

LEMMA ServedKept ==
  ASSUME Tidy, StoreInv, TidyInv, Next, mode # "register", ~LoseDisk,
         NEW r \in Nat, NEW n \in Served, Within(r, n)
  PROVE  \E m \in Served' : Within(r, m)'
<1> USE DEF TidyInv
<1>1. n \in DOMAIN cat /\ (fpc = "cataloged" => n # Written)
  BY DEF Served
<1>2. fpc' = "cataloged" /\ ~UpsertSegment => fpc = "cataloged" /\ Written' = Written
  <2> SUFFICES ASSUME fpc' = "cataloged", ~UpsertSegment
               PROVE  fpc = "cataloged" /\ Written' = Written
    OBVIOUS
  <2>1. fpc = "cataloged" /\ sealed' = sealed
    BY BufferSteps DEF AppendRow, Seal, WriteSegment, RestoreFlush, CommitFlush, Publish,
       Reseed, Stopped, Down, Open
  <2> QED  BY <2>1 DEF Written
<1>3. UpsertSegment => Written \notin DOMAIN cat /\ Written' = Written
  BY WrittenFresh DEF UpsertSegment, Written
<1>4. fpc' = "cataloged" => n # Written'
  BY <1>1, <1>2, <1>3
<1>5. CASE n \in DOMAIN cat' /\ cat'[n].hi = cat[n].hi
  <2>1. n \in Served'
    BY <1>4, <1>5 DEF Served
  <2> QED  BY <1>5, <2>1 DEF Within
<1>6. CASE SameRows
  BY <1>1, <1>5, <1>6 DEF SameRows
<1>7. CASE UpsertSegment
  BY <1>1, <1>3, <1>5, <1>7, UpsertEffect
<1>8. CASE CommitSwap
  <2>1. /\ mpc \in Working /\ DOMAIN cat' = (DOMAIN cat \ job.inputs) \cup {job.out}
        /\ cat'[job.out].hi = job.hi
        /\ \A m \in DOMAIN cat \ job.inputs : cat'[m] = cat[m]
    BY <1>8, SwapEffect
  <2>2. CASE n \in job.inputs
    <3>1. /\ MinSeq(job.out) <= MinSeq(n) /\ cat[n].hi <= job.hi /\ Level(job.out) >= 1
          /\ MinSeq(job.out) \in Nat /\ job.hi \in Nat
      BY <2>1, <2>2, JobRows
    <3>2. MinSeq(n) \in Nat /\ cat[n].hi \in Nat
      BY <1>1, RowTypes
    <3>3. MinSeq(job.out) <= r /\ r <= job.hi
      BY <3>1, <3>2 DEF Within
    <3>4. fpc' = fpc /\ sealed' = sealed
      BY <1>8 DEF CommitSwap
    <3>5. fpc' = "cataloged" => job.out # Written'
      <4>1. fpc = "cataloged" => Level(Written) = 0
        BY SealedInterval
      <4> QED  BY <3>1, <3>4, <4>1 DEF Written
    <3>6. \E m \in Served' : m = job.out
      BY <2>1, <3>5 DEF Served
    <3>7. PICK m \in Served' : m = job.out
      BY <3>6
    <3>8. MinSeq(m) <= r /\ r <= cat'[m].hi
      BY <2>1, <3>3, <3>7
    <3> QED  BY <3>8 DEF Within
  <2>3. CASE n \notin job.inputs
    BY <1>1, <1>5, <2>1, <2>3
  <2> QED  BY <2>2, <2>3
<1>9. CASE MarkUploaded
  BY <1>1, <1>5, <1>9, MarkEffect
<1>10. CASE EvictSegment
  BY <1>1, <1>5, <1>10, EvictEffect
<1>11. CASE ReconcileAdopt
  BY <1>11, AdoptEffect
<1> QED  BY <1>6, <1>7, <1>8, <1>9, <1>10, <1>11, CatalogSteps

LEMMA AckedSteps ==
  ASSUME Tidy, StoreInv, TidyInv, Next
  PROVE  UNCHANGED acked \/ Publish \/ LoseDisk
BY TidySteps DEF AppendRow, Seal, WriteSegment, UpsertSegment, RestoreFlush, CommitFlush,
   StartCycle, StartStop, NothingToFlush, PlanJob, Merge, BumpRename, CommitSwap, UnlinkInput,
   ListBucket, Upload, UploadFails, MarkUploaded, MarkDeque, EndUploads, DeleteOrphan,
   ChooseEviction, EvictSegment, UnlinkEvicted, EndEviction, ReconcileList, ReconcileDrop,
   ReconcileAdopt, EndReconcile, Reseed, StartQuery, EndQuery, Stopped, Open

LEMMA NextServed ==
  ASSUME Tidy, StoreInv, TidyInv, Next, mode' # "register", NEW r \in acked'
  PROVE  \E n \in Served' : Within(r, n)'
<1> USE DEF TidyInv
<1>1. CASE mode # "register"
  <2>1. ~LoseDisk
    BY DEF LoseDisk
  <2>2. \E n \in Served : Within(r, n)
    <3>1. CASE Publish
      BY <1>1, <3>1 DEF Publish, MayPublish, Acknowledged
    <3>2. CASE UNCHANGED acked
      BY <1>1, <3>2 DEF Acknowledged
    <3> QED  BY <2>1, <3>1, <3>2, AckedSteps
  <2>3. r \in Nat
    <3>1. acked \subseteq Seqs /\ sealed \subseteq Nat
      BY BufferNats DEF StoreInv, Data
    <3>2. Seqs \subseteq Nat
      BY StoreAssumption DEF Seqs
    <3>3. acked' = acked \/ acked' = acked \cup sealed
      BY <2>1, AckedSteps DEF Publish
    <3> QED  BY <3>1, <3>2, <3>3
  <2> QED  BY <1>1, <2>1, <2>2, <2>3, ServedKept
<1>2. CASE mode = "register"
  <2>1. Reseed
    BY <1>2, RegisterSteps DEF Open, LoseDisk, ReconcileList, ReconcileDrop, ReconcileAdopt,
       EndReconcile, EndQuery
  <2>2. mpc = "reseed" /\ UNCHANGED <<cat, acked, fpc>>
    BY <2>1 DEF Reseed
  <2>3. fpc = "idle" /\ \A n \in DOMAIN cat : cat[n].loc = "REMOTE"
    BY <1>2 DEF Orphans, Registering
  <2>4. PICK n \in DOMAIN cat : r \in bucket[n]
    BY <1>2, <2>2 DEF Acknowledged
  <2>5. bucket[n] = MinSeq(n)..cat[n].hi
    BY <2>3 DEF Archive
  <2>6. n \in Served'
    BY <2>2, <2>3 DEF Served
  <2>7. MinSeq(n) <= r /\ r <= cat[n].hi
    BY <2>4, <2>5, RowTypes
  <2> QED  BY <2>2, <2>6, <2>7 DEF Within
<1> QED  BY <1>1, <1>2

LEMMA NextCommitted ==
  ASSUME Tidy, StoreInv, TidyInv, Next, fpc' = "committed", NEW r \in sealed'
  PROVE  \E n \in Served' : Within(r, n)'
<1> USE DEF TidyInv
<1>1. CASE CommitFlush
  <2>1. fpc = "cataloged" /\ UNCHANGED <<cat, sealed>>
    BY <1>1 DEF CommitFlush
  <2>2. Written \in DOMAIN cat /\ cat[Written].hi = Max(sealed)
    BY <2>1 DEF Younger
  <2>3. MinSeq(Written) <= r /\ r <= cat[Written].hi
    BY <2>1, <2>2, SealedInterval
  <2>4. \E n \in Served' : n = Written
    BY <2>1, <2>2 DEF Served
  <2>5. PICK n \in Served' : n = Written
    BY <2>4
  <2>6. MinSeq(n) <= r /\ r <= cat'[n].hi
    BY <2>1, <2>3, <2>5
  <2> QED  BY <2>6 DEF Within
<1>2. CASE ~CommitFlush
  <2>1. fpc = "committed" /\ sealed' = sealed
    BY <1>2, BufferSteps DEF AppendRow, Seal, WriteSegment, UpsertSegment, RestoreFlush, Publish,
       Reseed, Stopped, Down, Open
  <2>2. mode # "register" /\ ~LoseDisk
    BY <2>1 DEF Orphans, Registering, LoseDisk, StoreInv, Tasks
  <2>3. r \in Nat /\ \E n \in Served : Within(r, n)
    BY <2>1, BufferNats DEF Acknowledged
  <2> QED  BY <2>2, <2>3, ServedKept
<1> QED  BY <1>1, <1>2

LEMMA NextAdopted ==
  ASSUME Tidy, StoreInv, TidyInv, Next, mode' = "register", NEW r \in acked'
  PROVE  /\ mpc' \in {"idle", "reconcile"} => \E n \in DOMAIN bucket' : r \in bucket'[n]
         /\ mpc' = "drop" => \E n \in DOMAIN cat' \cup listed' : r \in bucket'[n]
         /\ mpc' = "reseed" => \E n \in DOMAIN cat' : r \in bucket'[n]
<1> USE DEF TidyInv
<1>1. CASE LoseDisk
  <2>1. mpc' = "idle" /\ bucket' = bucket /\ r \in Rows(bucket)
    BY <1>1 DEF LoseDisk, StoreInv, Tasks
  <2> QED  BY <2>1 DEF Rows
<1>2. CASE ~LoseDisk
  <2>1. mode = "register"
    BY <1>2, ModeSteps DEF StartStop, Stopped, Down, Open, Reseed
  <2>2. r \in acked
    BY <1>2, <2>1, AckedSteps DEF Publish, MayPublish, Orphans, Registering
  <2>3. /\ mpc \in {"idle", "reconcile"} => \E n \in DOMAIN bucket : r \in bucket[n]
        /\ mpc = "drop" => \E n \in DOMAIN cat \cup listed : r \in bucket[n]
        /\ mpc = "reseed" => \E n \in DOMAIN cat : r \in bucket[n]
    BY <2>1, <2>2 DEF Acknowledged
  <2>4. CASE Open
    BY <2>3, <2>4 DEF Open, StoreInv, Tasks
  <2>5. CASE ReconcileList
    <3>1. mpc = "reconcile" /\ mpc' = "drop" /\ bucket' = bucket
      BY <2>5 DEF ReconcileList
    <3>2. PICK n \in DOMAIN bucket : r \in bucket[n]
      BY <2>3, <3>1
    <3>3. /\ \A m \in listed' : m \in DOMAIN bucket
          /\ \A k \in DOMAIN bucket \ listed' : \E m \in listed' : Below(k, m, Top(m))
      BY <2>1, <2>5, RegisterList
    <3>4. CASE n \in listed'
      BY <3>1, <3>2, <3>4
    <3>5. CASE n \notin listed'
      <4>1. PICK m \in listed' : m \in DOMAIN bucket /\ Below(n, m, Top(m))
        BY <3>3, <3>5
      <4>2. bucket[n] = MinSeq(n)..Top(n) /\ bucket[m] = MinSeq(m)..Top(m)
        BY <4>1 DEF Archive
      <4>3. MinSeq(n) \in Int /\ MinSeq(m) \in Int /\ Top(n) \in Int /\ Top(m) \in Int
        BY <4>1, ObjectTypes
      <4>4. r \in bucket[m]
        BY <3>2, <4>1, <4>2, <4>3 DEF Below
      <4> QED  BY <3>1, <4>1, <4>4
    <3> QED  BY <3>4, <3>5
  <2>6. CASE ReconcileDrop
    <3>1. mpc = "drop" /\ mpc' = "drop" /\ listed' = listed
      BY <2>6 DEF ReconcileDrop
    <3>2. /\ SameRows /\ First(todo) \in todo /\ First(todo) \notin DOMAIN cat
          /\ DOMAIN bucket \ {First(todo)} \subseteq DOMAIN bucket'
          /\ \A m \in DOMAIN bucket' : bucket'[m] = bucket[m]
      BY <2>6, DropEffect
    <3>3. PICK n \in DOMAIN cat \cup listed : r \in bucket[n]
      BY <2>3, <3>1
    <3>4. n # First(todo) /\ n \in DOMAIN bucket
      BY <2>1, <3>1, <3>2 DEF StoreInv, Tasks, Orphans, Registering, Archive
    <3> QED  BY <3>1, <3>2, <3>3, <3>4 DEF SameRows
  <2>7. CASE ReconcileAdopt
    <3> DEFINE n == First(listed)
    <3>1. mpc = "drop" /\ DOMAIN cat' = DOMAIN cat \cup {n} /\ listed' = listed \ {n} /\ n \in listed
      BY <2>7, AdoptEffect
    <3>2. mpc' = "drop" /\ bucket' = bucket
      BY <2>7 DEF ReconcileAdopt
    <3> HIDE DEF n
    <3> QED  BY <2>3, <3>1, <3>2
  <2>8. CASE EndReconcile
    <3>1. mpc = "drop" /\ listed = {} /\ mpc' = "reseed" /\ UNCHANGED <<bucket, cat>>
      BY <2>8 DEF EndReconcile
    <3> QED  BY <2>3, <3>1
  <2>9. CASE EndQuery
    <3>1. UNCHANGED <<mpc, bucket, cat, listed>>
      BY <2>9 DEF EndQuery
    <3> QED  BY <2>3, <3>1
  <2>10. ~Reseed
    BY DEF Reseed
  <2> QED  BY <1>2, <2>1, <2>4, <2>5, <2>6, <2>7, <2>8, <2>9, <2>10, RegisterSteps
<1> QED  BY <1>1, <1>2

LEMMA NextAcknowledged ==
  ASSUME Tidy, StoreInv, TidyInv, Next
  PROVE  Acknowledged'
<1>1. mode' # "register" => \A r \in acked' : \E n \in Served' : Within(r, n)'
  BY NextServed
<1>2. fpc' = "committed" => \A r \in sealed' : \E n \in Served' : Within(r, n)'
  BY NextCommitted
<1>3. mode' = "register" => \A r \in acked' :
        /\ mpc' \in {"idle", "reconcile"} => \E n \in DOMAIN bucket' : r \in bucket'[n]
        /\ mpc' = "drop" => \E n \in DOMAIN cat' \cup listed' : r \in bucket'[n]
        /\ mpc' = "reseed" => \E n \in DOMAIN cat' : r \in bucket'[n]
  BY NextAdopted
<1> QED  BY <1>1, <1>2, <1>3 DEF Acknowledged
-----------------------------------------------------------------------------
(* The job in hand keeps the rows it was planned with. *)

LEMMA PlanRows ==
  ASSUME StoreInv, TidyInv, PlanJob, mpc' \in Working
  PROVE  Planned'
<1> USE DEF StoreInv, TidyInv
<1> DEFINE q == local_segments
<1>1. /\ cat' = cat /\ job' \in plan(q)
      /\ mpc' = "bump" => Cardinality(job'.inputs) = 1
  BY DEF PlanJob, Working
<1>2. q \in Seq(Segs) /\ Ordered(q)
  BY DEF Data
<1>3. PICK P \in SUBSET DOMAIN q :
        /\ job'.inputs = {q[k].name : k \in P}
        /\ \A k \in P : MinSeq(job'.out) <= MinSeq(q[k].name) /\ q[k].hi <= job'.hi
        /\ \A r \in MinSeq(job'.out)..job'.hi : \E k \in P : MinSeq(q[k].name) <= r /\ r <= q[k].hi
  BY <1>1, <1>2, PlannedRows
<1>4. \A k \in P : cat[q[k].name].hi = q[k].hi
  <2> SUFFICES ASSUME NEW k \in P
               PROVE  cat[q[k].name].hi = q[k].hi
    OBVIOUS
  <2>1. q[k] \in Entries(local_segments)
    BY DEF Entries
  <2>2. cat[q[k].name] = [hi |-> q[k].hi, loc |-> q[k].loc]
    BY <2>1 DEF Mirrored
  <2> QED  BY <2>2
<1>5. job'.out \in Names /\ job'.hi \in Seqs
  BY <1>1, <1>2, PlannedJob
<1>6. MinSeq(job'.out) \in Int /\ job'.hi \in Int /\ Seqs \subseteq Int
  BY <1>5, NameTypes, StoreAssumption DEF Seqs
<1>7. \A k \in P : MinSeq(q[k].name) \in Int /\ q[k].hi \in Int
  BY <1>2, <1>6, EntryTypes
<1>8. ASSUME NEW r \in Seqs
      PROVE  (\E n \in job'.inputs : Within(r, n)') <=> (MinSeq(job'.out) <= r /\ r <= job'.hi)
  <2>1. \A k \in P : Within(r, q[k].name) <=> MinSeq(q[k].name) <= r /\ r <= q[k].hi
    BY <1>4 DEF Within
  <2>2. (\E n \in job'.inputs : Within(r, n)') <=> \E k \in P : MinSeq(q[k].name) <= r /\ r <= q[k].hi
    BY <1>1, <1>3, <2>1 DEF Within
  <2>3. r \in Int
    BY <1>6
  <2> QED  BY <1>3, <1>6, <1>7, <2>2, <2>3
<1>9. mpc' = "bump" => \A m, n \in job'.inputs : m = n
  <2> SUFFICES ASSUME mpc' = "bump"
               PROVE  \A m, n \in job'.inputs : m = n
    OBVIOUS
  <2>1. IsFiniteSet(job'.inputs)
    <3>1. job'.inputs \subseteq Names
      BY <1>1, <1>2, PlannedJob
    <3>2. IsFiniteSet(0..Terminal) /\ IsFiniteSet(Seqs)
      BY FS_Interval, PlannerAssumption, StoreAssumption DEF Terminal, Seqs
    <3>3. IsFiniteSet(Names)
      BY <3>2, FS_Product DEF Names
    <3> QED  BY <3>1, <3>3, FS_Subset
  <2>2. \E n : job'.inputs = {n}
    BY <1>1, <2>1, FS_Singleton
  <2> QED  BY <2>2
<1> QED  BY <1>8, <1>9 DEF Planned

LEMMA NextPlanned ==
  ASSUME Tidy, StoreInv, TidyInv, Next
  PROVE  Planned'
<1> USE DEF TidyInv
<1> SUFFICES ASSUME mpc' \in Working
             PROVE  Planned'
  BY DEF Planned
<1>1. CASE PlanJob
  BY <1>1, PlanRows
<1>2. CASE ~PlanJob
  <2>1. mpc \in Working /\ job' = job /\ (mpc' = "bump" => mpc = "bump")
    BY <1>2, JobSteps DEF Merge, BumpRename, Working
  <2>2. \A n \in job.inputs : n \in DOMAIN cat
    BY <2>1, JobRows
  <2>3. \A n \in job.inputs : cat'[n].hi = cat[n].hi
    <3>1. CASE SameRows
      BY <2>2, <3>1 DEF SameRows
    <3>2. CASE UpsertSegment
      <4>1. Written \notin DOMAIN cat
        BY <3>2, WrittenFresh DEF UpsertSegment
      <4> QED  BY <2>2, <3>2, <4>1, UpsertEffect
    <3>3. ~CommitSwap /\ ~MarkUploaded /\ ~EvictSegment /\ ~ReconcileAdopt /\ ~LoseDisk
      BY <2>1 DEF CommitSwap, AtSplice, MarkUploaded, MarkDeque, EvictSegment, ReconcileAdopt,
         LoseDisk, Working, StoreInv, Tasks
    <3> QED  BY <3>1, <3>2, <3>3, CatalogSteps
  <2>4. \A r, n : n \in job.inputs => (Within(r, n)' <=> Within(r, n))
    BY <2>3 DEF Within
  <2> QED  BY <2>1, <2>4 DEF Planned
<1> QED  BY <1>1, <1>2

-----------------------------------------------------------------------------
(* What the maintenance task has in its hands. *)

LEMMA StageModes ==
  ASSUME Tidy, StoreInv, TidyInv, Next
  PROVE  /\ crashes' = 0
         /\ mode' = "boot" => mpc' \in {"reconcile", "drop", "reseed"}
         /\ mpc' \in {"reconcile", "drop", "reseed"} => mode' \in {"boot", "register"}
         /\ mode' = "stop" /\ fpc' # "idle" => fby' = "maintenance"
         /\ mpc' = "down" => mode' = "stop"
<1> USE DEF TidyInv
<1>0. /\ crashes = 0
      /\ mode = "boot" => mpc \in {"reconcile", "drop", "reseed"}
      /\ mpc \in {"reconcile", "drop", "reseed"} => mode \in {"boot", "register"}
      /\ mode = "stop" /\ fpc # "idle" => fby = "maintenance"
      /\ mpc = "down" => mode = "stop"
      /\ fby = "task" \/ (fby = "maintenance" /\ mpc = "flush" /\ fpc # "idle")
      /\ ~up => fpc = "idle" /\ mpc = "idle"
      /\ mode \in {"cycle", "stop", "boot", "register"}
  BY DEF Stages, StoreInv, Tasks, Data
<1>1. CASE \/ AppendRow \/ Seal("task") \/ Seal("maintenance") \/ WriteSegment \/ UpsertSegment
           \/ CommitFlush
  BY <1>0, <1>1 DEF AppendRow, Seal, WriteSegment, UpsertSegment, CommitFlush
<1>2. CASE RestoreFlush \/ Publish
  BY <1>0, <1>2 DEF RestoreFlush, Publish, AfterFlush
<1>3. CASE \/ StartCycle \/ StartStop \/ NothingToFlush \/ StartQuery \/ EndQuery
  BY <1>0, <1>3 DEF StartCycle, StartStop, NothingToFlush, StartQuery, EndQuery
<1>4. CASE Stopped \/ LoseDisk \/ Open
  BY <1>0, <1>4 DEF Stopped, Down, LoseDisk, Open
<1>5. CASE PlanJob \/ Merge \/ BumpRename \/ CommitSwap \/ UnlinkInput
  BY <1>0, <1>5 DEF PlanJob, Merge, BumpRename, CommitSwap, UnlinkInput, AtSplice
<1>6. CASE ListBucket \/ Upload \/ UploadFails \/ MarkUploaded \/ EndUploads \/ DeleteOrphan
  BY <1>0, <1>6 DEF ListBucket, Upload, UploadFails, MarkUploaded, MarkDeque, EndUploads,
     DeleteOrphan, AfterSync
<1>7. CASE UnlinkEvicted \/ EndEviction \/ EvictSegment \/ \E n \in Evictable : ChooseEviction(n)
  BY <1>0, <1>7 DEF EvictSegment, UnlinkEvicted, EndEviction, ChooseEviction
<1>8. CASE ReconcileList \/ ReconcileDrop \/ ReconcileAdopt \/ EndReconcile \/ Reseed
  BY <1>0, <1>8 DEF ReconcileList, ReconcileDrop, ReconcileAdopt, EndReconcile, Reseed
<1> QED  BY <1>1, <1>2, <1>3, <1>4, <1>5, <1>6, <1>7, <1>8, TidySteps

LEMMA HeldSteps ==
  ASSUME Tidy, StoreInv, TidyInv, Next, mpc' \in {"upload", "mark", "evwait"}
  PROVE  \/ ListBucket \/ Upload \/ UploadFails \/ MarkUploaded
         \/ (\E n \in Evictable : ChooseEviction(n)) \/ UNCHANGED <<mpc, todo, listed>>
<1>1. CASE \/ AppendRow \/ Seal("task") \/ Seal("maintenance") \/ WriteSegment \/ UpsertSegment
           \/ RestoreFlush \/ CommitFlush \/ Publish \/ StartCycle \/ StartStop \/ NothingToFlush
           \/ StartQuery \/ EndQuery
  BY <1>1 DEF AppendRow, Seal, WriteSegment, UpsertSegment, RestoreFlush, CommitFlush, Publish,
     AfterFlush, StartCycle, StartStop, NothingToFlush, StartQuery, EndQuery
<1>2. CASE Stopped \/ LoseDisk \/ Open
  BY <1>2 DEF Stopped, Down, LoseDisk, Open
<1>3. CASE PlanJob \/ Merge \/ BumpRename \/ CommitSwap \/ UnlinkInput
  BY <1>3 DEF PlanJob, Merge, BumpRename, CommitSwap, UnlinkInput
<1>4. CASE \/ EndUploads \/ DeleteOrphan \/ UnlinkEvicted \/ EndEviction \/ EvictSegment
           \/ ReconcileList \/ ReconcileDrop \/ ReconcileAdopt \/ EndReconcile \/ Reseed
  BY <1>4 DEF EndUploads, DeleteOrphan, AfterSync, EvictSegment, UnlinkEvicted, EndEviction,
     ReconcileList, ReconcileDrop, ReconcileAdopt, EndReconcile, Reseed
<1> QED  BY <1>1, <1>2, <1>3, <1>4, TidySteps

\* A row of a file that is up to be uploaded or evicted is that of a segment.
LEMMA ArchivableNamed ==
  ASSUME StoreInv, TidyInv, up, NEW n \in Archivable, cat[n].loc # "REMOTE"
  PROVE  n \in SegmentNames
<1>1. n \in DOMAIN cat /\ Level(n) >= 1
  BY DEF Archivable
<1>2. fpc = "cataloged" => Level(Written) = 0
  BY SealedInterval DEF TidyInv
<1> QED  BY <1>1, <1>2 DEF TidyInv, Mirrored

LEMMA NextHeld ==
  ASSUME Tidy, StoreInv, TidyInv, Next, mpc' \in {"upload", "mark", "evwait"}
  PROVE  /\ mpc' \in {"upload", "mark"} =>
              /\ listed' \subseteq DOMAIN bucket'
              /\ \A n \in todo' : n \in SegmentNames' /\ Level(n) >= 1
         /\ mpc' = "mark" => First(todo') \in DOMAIN bucket'
         /\ mpc' = "evwait" => \A n \in todo' : n \in SegmentNames' /\ cat'[n].loc = "BOTH"
<1> USE DEF TidyInv
<1>1. CASE ListBucket
  <2>1. /\ up /\ mpc' = "upload" /\ listed' = DOMAIN bucket /\ bucket' = bucket
        /\ todo' = {n \in Archivable : cat[n].loc = "LOCAL"} /\ local_segments' = local_segments
    BY <1>1 DEF ListBucket
  <2>2. \A n \in todo' : n \in SegmentNames /\ Level(n) >= 1
    BY <2>1, ArchivableNamed DEF Archivable
  <2> QED  BY <2>1, <2>2 DEF SegmentNames
<1>2. CASE Upload
  <2>1. mpc = "upload" /\ mpc' = "mark" /\ UNCHANGED <<todo, listed, local_segments>>
    BY <1>2 DEF Upload
  <2>2. PICK n \in todo : n = First(todo) /\ DOMAIN bucket' = DOMAIN bucket \cup {n}
    BY <1>2, UploadEffect DEF Uploads
  <2>3. listed \subseteq DOMAIN bucket /\ \A m \in todo : m \in SegmentNames /\ Level(m) >= 1
    BY <2>1 DEF Stages
  <2> QED  BY <2>1, <2>2, <2>3 DEF SegmentNames
<1>3. CASE UploadFails
  <2>1. /\ mpc = "upload" /\ mpc' = "upload" /\ todo' \subseteq todo
        /\ UNCHANGED <<listed, local_segments>>
    BY <1>3 DEF UploadFails
  <2>2. DOMAIN bucket \subseteq DOMAIN bucket'
    <3>1. CASE bucket' = bucket
      BY <3>1
    <3>2. CASE bucket' # bucket
      BY <1>3, <3>2, UploadEffect DEF Uploads
    <3> QED  BY <3>1, <3>2
  <2> QED  BY <2>1, <2>2 DEF Stages, SegmentNames
<1>4. CASE MarkUploaded
  <2>1. /\ mpc = "mark" /\ mpc' = "upload" /\ todo' \subseteq todo /\ UNCHANGED <<bucket, listed>>
    BY <1>4 DEF MarkUploaded, MarkDeque
  <2>2. SegmentNames' = SegmentNames
    BY <1>4, MarkNames
  <2> QED  BY <2>1, <2>2 DEF Stages
<1>5. CASE \E n \in Evictable : ChooseEviction(n)
  <2>1. PICK n \in Evictable : ChooseEviction(n)
    BY <1>5
  <2>2. up /\ mpc' = "evwait" /\ todo' = {n} /\ UNCHANGED <<cat, local_segments>>
    BY <2>1 DEF ChooseEviction
  <2>3. n \in Archivable /\ cat[n].loc = "BOTH"
    BY DEF Evictable
  <2>4. n \in SegmentNames
    BY <2>2, <2>3, ArchivableNamed
  <2> QED  BY <2>2, <2>3, <2>4 DEF SegmentNames
<1>6. CASE UNCHANGED <<mpc, todo, listed>> /\ ~Upload /\ ~MarkUploaded
  <2>1. mpc \in {"upload", "mark", "evwait"} /\ up
    BY <1>6 DEF StoreInv, Tasks
  <2>a. ~UploadFails
    <3>1. UploadFails => todo # {} /\ todo' = todo \ {First(todo)}
      BY DEF UploadFails
    <3> QED  BY <1>6, <3>1, TodoNames DEF StoreInv
  <2>2. bucket' = bucket
    BY <1>6, <2>1, <2>a, BucketSteps DEF Uploads, ReconcileDrop, DeleteOrphan
  <2>3. SegmentNames \subseteq SegmentNames'
    <3>1. CASE UNCHANGED local_segments
      BY <3>1 DEF SegmentNames
    <3>2. CASE CommitFlush
      <4> DEFINE s == Segment(<<0, Min(sealed)>>, Max(sealed), "LOCAL")
      <4>1. local_segments' = Append(local_segments, s)
        BY <3>2 DEF CommitFlush
      <4>2. local_segments \in Seq(Segs)
        BY DEF StoreInv, Data
      <4> HIDE DEF s
      <4>3. \A i \in DOMAIN local_segments :
              i \in DOMAIN local_segments' /\ local_segments'[i] = local_segments[i]
        BY <4>1, <4>2
      <4> QED  BY <4>3 DEF SegmentNames
    <3>3. ~CommitSwap /\ ~EvictSegment /\ ~Stopped /\ ~Open
      BY <2>1 DEF CommitSwap, AtSplice, EvictSegment, Stopped, Open, StoreInv, Tasks
    <3> QED  BY <1>6, <3>1, <3>2, <3>3, DequeSteps
  <2>4. ASSUME NEW n \in SegmentNames
        PROVE  cat'[n] = cat[n]
    <3>1. n \in DOMAIN cat
      BY EntryRow
    <3>2. CASE SameRows
      BY <3>1, <3>2 DEF SameRows
    <3>3. CASE UpsertSegment
      <4>1. Written \notin SegmentNames
        BY <3>3, WrittenFresh DEF UpsertSegment
      <4> QED  BY <3>1, <3>3, <4>1, UpsertEffect
    <3>4. ~CommitSwap /\ ~EvictSegment /\ ~ReconcileAdopt /\ ~LoseDisk
      BY <1>6, <2>1 DEF CommitSwap, AtSplice, EvictSegment, ReconcileAdopt, LoseDisk, StoreInv, Tasks
    <3> QED  BY <1>6, <3>2, <3>3, <3>4, CatalogSteps
  <2>5. /\ mpc \in {"upload", "mark"} => /\ listed \subseteq DOMAIN bucket
                                         /\ \A n \in todo : n \in SegmentNames /\ Level(n) >= 1
        /\ mpc = "mark" => First(todo) \in DOMAIN bucket
        /\ mpc = "evwait" => \A n \in todo : n \in SegmentNames /\ cat[n].loc = "BOTH"
    BY DEF Stages
  <2> QED  BY <1>6, <2>2, <2>3, <2>4, <2>5
<1> QED  BY <1>1, <1>2, <1>3, <1>4, <1>5, <1>6, HeldSteps

LEMMA NextStages ==
  ASSUME Tidy, StoreInv, TidyInv, Next
  PROVE  Stages'
<1>1. /\ mpc' \in {"upload", "mark"} => /\ listed' \subseteq DOMAIN bucket'
                                        /\ \A n \in todo' : n \in SegmentNames' /\ Level(n) >= 1
      /\ mpc' = "mark" => First(todo') \in DOMAIN bucket'
      /\ mpc' = "evwait" => \A n \in todo' : n \in SegmentNames' /\ cat'[n].loc = "BOTH"
  BY NextHeld
<1> QED  BY <1>1, StageModes DEF Stages
-----------------------------------------------------------------------------
(* The theorems. *)

LEMMA InitTidy ==
  ASSUME Init
  PROVE  TidyInv
<1> USE DEF Init, Idle
<1>1. Extents(cat) /\ Younger /\ Mirrored /\ Content
  BY DEF Extents, Younger, Above, Mirrored, Entries, Distinct, Content
<1>2. Archive /\ Orphans
  BY DEF Archive, Orphans
<1>3. Acknowledged /\ Planned /\ Stages
  BY DEF Acknowledged, Planned, Working, Stages
<1> QED  BY <1>1, <1>2, <1>3 DEF TidyInv

LEMMA TidyStep ==
  ASSUME Tidy, StoreInv, TidyInv, [Next]_vars
  PROVE  TidyInv'
<1>1. CASE Next
  BY <1>1, NextExtents, NextYounger, NextMirrored, NextContent, NextArchive, NextOrphans,
     NextAcknowledged, NextPlanned, NextStages DEF TidyInv
<1>2. CASE UNCHANGED vars
  <2> USE DEF vars, TidyInv
  <2>1. /\ SegmentNames' = SegmentNames /\ Entries(local_segments') = Entries(local_segments)
        /\ Written' = Written /\ Served' = Served
    BY <1>2 DEF SegmentNames, Written, Served
  <2>2. /\ \A n : Top(n)' = Top(n)
        /\ \A r, n : Within(r, n)' <=> Within(r, n)
        /\ \A m, n, top : Below(m, n, top)' <=> Below(m, n, top)
    BY <1>2 DEF Top, Within, Below
  <2>3. Extents(cat') /\ Younger' /\ Mirrored' /\ Content'
    BY <1>2, <2>1 DEF Extents, Younger, Above, Mirrored, Content
  <2>4. Archive'
    BY <1>2, <2>2 DEF Archive, Below
  <2>5. Orphans'
    <3>1. Registering => Registering'
      BY <1>2, <2>2 DEF Registering, Below
    <3> QED  BY <1>2, <2>2, <3>1 DEF Orphans, Below
  <2>6. Acknowledged' /\ Planned' /\ Stages'
    BY <1>2, <2>1, <2>2 DEF Acknowledged, Planned, Stages
  <2> QED  BY <2>3, <2>4, <2>5, <2>6
<1> QED  BY <1>1, <1>2

LEMMA TidyInvariant ==
  ASSUME Tidy
  PROVE  Spec => []TidyInv
BY StoreInvariant, InitTidy, TidyStep, PTL DEF Spec

\* No row twice: the segments a query reads do not overlap, and a merge replaces its
\* inputs by an output that has their rows and no others (namespace.rs, commit_swap).
THEOREM FinelogSeenOnce ==
  ASSUME Tidy
  PROVE  Spec => []SeenOnce
<1>1. StoreInv /\ TidyInv => SeenOnce
  <2> SUFFICES ASSUME StoreInv, TidyInv, NEW i \in DOMAIN local_segments,
                      NEW k \in DOMAIN local_segments, i < k
               PROVE  local_segments[i].hi < MinSeq(local_segments[k].name)
    BY DEF SeenOnce
  <2> USE DEF StoreInv, TidyInv
  <2> DEFINE d == local_segments[i]
             e == local_segments[k]
  <2>1. d \in Entries(local_segments) /\ e \in Entries(local_segments)
    BY DEF Entries
  <2>2. /\ d.name \in DOMAIN cat /\ cat[d.name].hi = d.hi
        /\ e.name \in DOMAIN cat /\ cat[e.name].hi = e.hi
    <3> HIDE DEF d, e
    <3>1. /\ d.name \in DOMAIN cat /\ cat[d.name] = [hi |-> d.hi, loc |-> d.loc]
          /\ e.name \in DOMAIN cat /\ cat[e.name] = [hi |-> e.hi, loc |-> e.loc]
      BY <2>1 DEF Mirrored
    <3> QED  BY <3>1
  <2>3. DOMAIN local_segments = 1..Len(local_segments)
    BY DEF Data
  <2>4. d.name # e.name /\ MinSeq(d.name) <= MinSeq(e.name)
    BY <2>3 DEF Mirrored, Distinct, Data, Ordered
  <2>5. d.hi < MinSeq(e.name) \/ e.hi < MinSeq(d.name)
    BY <2>2, <2>4 DEF Extents
  <2>6. MinSeq(e.name) <= e.hi /\ MinSeq(d.name) \in Int /\ MinSeq(e.name) \in Int /\ e.hi \in Int
    BY <2>2, RowTypes DEF Extents
  <2> HIDE DEF d, e
  <2>7. d.hi < MinSeq(e.name)
    BY <2>4, <2>5, <2>6
  <2> QED  BY <2>7 DEF d, e
<1> QED  BY <1>1, StoreInvariant, TidyInvariant, PTL

\* The archive holds what the catalog says it holds: an eviction destroys nothing, as
\* the object of a row that is BOTH or REMOTE has all rows the file had (namespace.rs,
\* mark_uploaded and evict_segment).
THEOREM FinelogArchivedHeld ==
  ASSUME Tidy
  PROVE  Spec => []ArchivedHeld
<1>1. TidyInv => ArchivedHeld
  BY DEF TidyInv, Archive, ArchivedHeld
<1> QED  BY <1>1, TidyInvariant, PTL

\* The file or the object that has a row of the catalog.
LEMMA ServedRow ==
  ASSUME StoreInv, TidyInv, up, NEW n \in Served, NEW r \in Int, Within(r, n)
  PROVE  \/ n \in DOMAIN bucket /\ cat[n].loc = "REMOTE" /\ r \in bucket[n]
         \/ n \in SegmentNames \cap DOMAIN disk /\ r \in disk[n]
         \/ mpc = "splice" /\ job.out \in DOMAIN disk /\ r \in disk[job.out]
<1> USE DEF TidyInv
<1>1. n \in DOMAIN cat /\ (fpc = "cataloged" => n # Written)
  BY DEF Served
<1>2. MinSeq(n) \in Nat /\ cat[n].hi \in Nat /\ r \in MinSeq(n)..cat[n].hi
  BY <1>1, RowTypes DEF Within
<1>3. CASE cat[n].loc = "REMOTE"
  BY <1>1, <1>2, <1>3 DEF Archive
<1>4. CASE cat[n].loc # "REMOTE"
  <2>1. n \in SegmentNames
    BY <1>1, <1>4 DEF Mirrored
  <2>2. CASE n \in DOMAIN disk
    BY <1>1, <1>2, <2>1, <2>2 DEF Content
  <2>3. CASE n \notin DOMAIN disk
    <3>1. mpc = "splice" /\ n \in job.inputs
      BY <1>1, <1>4, <2>3 DEF Content
    <3>2. job.out \in DOMAIN disk /\ disk[job.out] = MinSeq(job.out)..job.hi
      BY <3>1 DEF StoreInv, Files, Content
    <3>3. /\ MinSeq(job.out) <= MinSeq(n) /\ cat[n].hi <= job.hi
          /\ MinSeq(job.out) \in Nat /\ job.hi \in Nat
      BY <3>1, JobRows DEF Working
    <3> QED  BY <1>2, <3>1, <3>2, <3>3
  <2> QED  BY <2>2, <2>3
<1> QED  BY <1>3, <1>4

LEMMA AckedInt ==
  ASSUME StoreInv
  PROVE  acked \subseteq Int
BY StoreAssumption DEF StoreInv, Data, Seqs

\* An acknowledged row is where the store looks for it: a writer that has been
\* answered finds its row by a query or, evicted, in the archive, through flush, merge,
\* bump, upload, eviction and reopening (namespace.rs).
THEOREM FinelogAckedReachable ==
  ASSUME Tidy
  PROVE  Spec => []AckedReachable
<1>1. StoreInv /\ TidyInv => AckedReachable
  <2> SUFFICES ASSUME StoreInv, TidyInv, up, mode # "register", mpc # "splice", NEW r \in acked
               PROVE  r \in Reachable
    BY DEF AckedReachable
  <2>1. PICK n \in Served : Within(r, n)
    BY DEF TidyInv, Acknowledged
  <2>2. r \in Int
    BY AckedInt
  <2>3. \/ n \in DOMAIN bucket /\ cat[n].loc = "REMOTE" /\ r \in bucket[n]
        \/ n \in SegmentNames \cap DOMAIN disk /\ r \in disk[n]
    BY <2>1, <2>2, ServedRow
  <2>4. n \in DOMAIN cat
    BY DEF Served
  <2> QED  BY <2>3, <2>4 DEF Reachable
<1> QED  BY <1>1, StoreInvariant, TidyInvariant, PTL

\* No acknowledged row is destroyed: it is in a file or in an object at every moment, also
\* while the process is down and while a namespace that has lost its volume is
\* registered anew (namespace.rs, reconcile.rs).
THEOREM FinelogAckedDurable ==
  ASSUME Tidy
  PROVE  Spec => []AckedDurable
<1>1. StoreInv /\ TidyInv => AckedDurable
  <2> SUFFICES ASSUME StoreInv, TidyInv, NEW r \in acked
               PROVE  r \in Rows(disk) \cup Rows(bucket)
    BY DEF AckedDurable
  <2> USE DEF TidyInv
  <2>0. r \in Int
    BY AckedInt
  <2>1. CASE mode # "register" /\ up
    <3>1. PICK n \in Served : Within(r, n)
      BY <2>1 DEF Acknowledged
    <3>2. \/ n \in DOMAIN bucket /\ r \in bucket[n]
          \/ n \in DOMAIN disk /\ r \in disk[n]
          \/ job.out \in DOMAIN disk /\ r \in disk[job.out]
      BY <2>0, <2>1, <3>1, ServedRow
    <3> QED  BY <3>2 DEF Rows
  <2>2. CASE mode # "register" /\ ~up
    <3>1. PICK n \in DOMAIN cat : Within(r, n)
      BY <2>2 DEF Acknowledged, Served
    <3>2. MinSeq(n) \in Nat /\ cat[n].hi \in Nat /\ r \in MinSeq(n)..cat[n].hi
      BY <2>0, <3>1, RowTypes DEF Within
    <3>3. CASE cat[n].loc = "REMOTE"
      BY <3>2, <3>3 DEF Archive, Rows
    <3>4. CASE cat[n].loc # "REMOTE"
      <4>1. n \in DOMAIN disk
        BY <2>2, <3>4 DEF Content, StoreInv, Tasks
      <4> QED  BY <3>2, <4>1 DEF Content, Rows
    <3> QED  BY <3>3, <3>4
  <2>3. CASE mode = "register"
    <3>1. mpc \in {"idle", "reconcile", "drop", "reseed"}
      BY <2>3 DEF Orphans, Registering, StoreInv, Tasks
    <3>2. \A n \in DOMAIN cat : n \in DOMAIN bucket
      BY <2>3 DEF Orphans, Registering, Archive
    <3>3. mpc = "drop" => listed \subseteq DOMAIN bucket
      BY DEF StoreInv, Tasks
    <3>4. \E n \in DOMAIN bucket : r \in bucket[n]
      BY <2>3, <3>1, <3>2, <3>3 DEF Acknowledged
    <3> QED  BY <3>4 DEF Rows
  <2> QED  BY <2>1, <2>2, <2>3
<1> QED  BY <1>1, StoreInvariant, TidyInvariant, PTL

\* The rows of the bucket are those of the catalog, once it has been read.
LEMMA ArchiveBounded ==
  ASSUME StoreInv, TidyInv, up, mode # "register"
  PROVE  \A n \in DOMAIN bucket : \A r \in bucket[n] : r < next_seq
<1> SUFFICES ASSUME NEW n \in DOMAIN bucket, NEW r \in bucket[n]
             PROVE  r < next_seq
  OBVIOUS
<1> USE DEF TidyInv
<1>1. bucket[n] = MinSeq(n)..Top(n) /\ Top(n) \in Nat /\ MinSeq(n) \in Nat
  BY ObjectTypes DEF Archive
<1>2. PICK m \in DOMAIN cat : Top(n) <= cat[m].hi
  <2>1. CASE n \in DOMAIN cat
    <3>1. Top(n) <= cat[n].hi
      BY <1>1, <2>1 DEF Archive
    <3> QED  BY <2>1, <3>1
  <2>2. CASE n \notin DOMAIN cat
    BY <2>2 DEF Orphans, Below
  <2> QED  BY <2>1, <2>2
<1>3. cat[m].hi < next_seq /\ cat[m].hi \in Nat
  BY RowTypes DEF Younger, Above
<1>4. next_seq \in Nat
  BY BufferNats
<1> QED  BY <1>1, <1>2, <1>3, <1>4

\* No seq in use is given again: a new row is not that of a row on disk or in the bucket,
\* whatever was flushed, merged or evicted, and also after the volume was lost and the
\* namespace registered from its archive (recover_next_seq, ensure_next_seq_at_least).
THEOREM FinelogFreshSeqs ==
  ASSUME Tidy
  PROVE  Spec => FreshSeqs
<1>1. StoreInv /\ TidyInv /\ [Next]_vars =>
        [\A r \in ram' \ (ram \cup sealed) : r \notin Rows(disk) \cup Rows(bucket)]_vars
  <2> SUFFICES ASSUME StoreInv, TidyInv, Next, NEW r \in ram' \ (ram \cup sealed)
               PROVE  r \notin Rows(disk) \cup Rows(bucket)
    OBVIOUS
  <2>1. AppendRow
    BY BufferSteps DEF Seal, WriteSegment, UpsertSegment, RestoreFlush, CommitFlush, Publish,
       Reseed, Stopped, Down, Open
  <2>2. up /\ mode # "register" /\ r = next_seq
    BY <2>1 DEF AppendRow
  <2>3. \A n \in DOMAIN disk : \A q \in disk[n] : q < next_seq
    BY <2>2 DEF TidyInv, Younger
  <2>4. \A n \in DOMAIN bucket : \A q \in bucket[n] : q < next_seq
    BY <2>2, ArchiveBounded
  <2>5. next_seq \in Nat
    BY BufferNats
  <2> QED  BY <2>2, <2>3, <2>4, <2>5 DEF Rows
<1> QED  BY <1>1, StoreInvariant, TidyInvariant, PTL DEF Spec, FreshSeqs
-----------------------------------------------------------------------------
(* The bucket, when no upload fails. *)

Pending == {n \in Archivable : cat[n].loc = "LOCAL"}

\* Objects are deleted only while everything that is to be uploaded is up, also after
\* a shutdown and an opening.
Archived ==
  /\ mpc \in {"upload", "mark"} => all_durable /\ Pending \subseteq todo
  /\ mpc \in {"orphans", "reconcile", "drop", "down"} \/ ~up => Pending = {}

\* An upload fails only where the put does: the file of a segment is there.
LEMMA UploadsHold ==
  ASSUME StoreInv, TidyInv, "upload" \notin Faults
  PROVE  ~UploadFails
<1> SUFFICES ASSUME UploadFails PROVE FALSE
  OBVIOUS
<1>1. mpc = "upload" /\ todo # {} /\ First(todo) \notin DOMAIN disk
  BY DEF UploadFails
<1>2. First(todo) \in SegmentNames
  BY <1>1, TodoNames DEF StoreInv, TidyInv, Stages
<1> QED  BY <1>1, <1>2 DEF StoreInv, Files

LEMMA ArchivedSteps ==
  ASSUME Tidy, StoreInv, TidyInv, Next,
         mpc' \in {"upload", "mark", "orphans", "reconcile", "drop", "down"}
  PROVE  \/ ListBucket \/ Upload \/ UploadFails \/ MarkUploaded \/ EndUploads \/ DeleteOrphan
         \/ Open \/ ReconcileList \/ ReconcileDrop \/ ReconcileAdopt
         \/ UNCHANGED <<mpc, todo, all_durable>>
<1>1. CASE \/ AppendRow \/ Seal("task") \/ Seal("maintenance") \/ WriteSegment \/ UpsertSegment
           \/ RestoreFlush \/ CommitFlush \/ Publish \/ StartCycle \/ StartStop \/ NothingToFlush
           \/ StartQuery \/ EndQuery
  BY <1>1 DEF AppendRow, Seal, WriteSegment, UpsertSegment, RestoreFlush, CommitFlush, Publish,
     AfterFlush, StartCycle, StartStop, NothingToFlush, StartQuery, EndQuery
<1>2. CASE Stopped \/ LoseDisk
  BY <1>2 DEF Stopped, Down, LoseDisk, StoreInv, Tasks
<1>3. CASE PlanJob \/ Merge \/ BumpRename \/ CommitSwap \/ UnlinkInput
  BY <1>3 DEF PlanJob, Merge, BumpRename, CommitSwap, UnlinkInput
<1>4. CASE \/ UnlinkEvicted \/ EndEviction \/ EvictSegment \/ EndReconcile \/ Reseed
  BY <1>4 DEF EvictSegment, UnlinkEvicted, EndEviction, EndReconcile, Reseed
<1>5. CASE \E n \in Evictable : ChooseEviction(n)
  BY <1>5 DEF ChooseEviction
<1> QED  BY <1>1, <1>2, <1>3, <1>4, <1>5, TidySteps

\* A process ends by a shutdown that has synced.
LEMMA EndSteps ==
  ASSUME Tidy, StoreInv, TidyInv, Next, ~up'
  PROVE  (~up \/ mpc = "down") /\ ~CommitSwap
<1>1. up => Stopped
  BY TidySteps DEF AppendRow, Seal, WriteSegment, UpsertSegment, RestoreFlush, CommitFlush, Publish,
     StartCycle, StartStop, NothingToFlush, PlanJob, Merge, BumpRename, CommitSwap, AtSplice,
     UnlinkInput, ListBucket, Upload, UploadFails, MarkUploaded, MarkDeque, EndUploads,
     DeleteOrphan, ChooseEviction, EvictSegment, UnlinkEvicted, EndEviction, ReconcileList,
     ReconcileDrop, ReconcileAdopt, EndReconcile, Reseed, StartQuery, EndQuery, LoseDisk, Open
<1> QED  BY <1>1 DEF Stopped, CommitSwap, AtSplice

\* Only a merge makes new segments to upload.
LEMMA PendingShrinks ==
  ASSUME Tidy, StoreInv, TidyInv, Next, ~CommitSwap
  PROVE  /\ Pending' \subseteq Pending
         /\ MarkUploaded => First(todo) \notin Pending'
<1>1. ASSUME NEW n \in Pending'
      PROVE  n \in Pending /\ (MarkUploaded => n # First(todo))
  <2>1. n \in DOMAIN cat' /\ Level(n) >= 1 /\ cat'[n].loc = "LOCAL"
    BY DEF Pending, Archivable
  <2>2. n \in DOMAIN cat /\ cat[n].loc = "LOCAL"
    <3>1. CASE SameRows
      BY <2>1, <3>1 DEF SameRows
    <3>2. CASE UpsertSegment
      <4>1. Level(Written) = 0
        BY <3>2, SealedInterval DEF UpsertSegment, TidyInv
      <4> QED  BY <2>1, <3>2, <4>1, UpsertEffect
    <3>3. CASE MarkUploaded
      BY <2>1, <3>3, MarkEffect
    <3>4. CASE EvictSegment
      BY <2>1, <3>4, EvictEffect
    <3>5. CASE ReconcileAdopt
      BY <2>1, <3>5, AdoptEffect
    <3>6. CASE LoseDisk
      BY <2>1, <3>6 DEF LoseDisk
    <3> QED  BY <3>1, <3>2, <3>3, <3>4, <3>5, <3>6, CatalogSteps
  <2>3. MarkUploaded => n # First(todo)
    BY <2>1, MarkEffect
  <2> QED  BY <2>1, <2>2, <2>3 DEF Pending, Archivable
<1> QED  BY <1>1

LEMMA NextArchived ==
  ASSUME Tidy, StoreInv, TidyInv, Archived, "upload" \notin Faults, Next
  PROVE  Archived'
<1>1. CASE mpc' \in {"upload", "mark"}
  <2>1. ~CommitSwap
    BY <1>1 DEF CommitSwap
  <2>2. up'
    BY <1>1, StoreStep DEF StoreInv, Tasks
  <2>3. SUFFICES all_durable' /\ Pending' \subseteq todo'
    BY <1>1, <2>2 DEF Archived
  <2>4. CASE ListBucket
    <3>1. all_durable' /\ todo' = Pending
      BY <2>4 DEF ListBucket, Pending
    <3> QED  BY <2>1, <3>1, PendingShrinks
  <2>5. CASE Upload \/ UNCHANGED <<mpc, todo, all_durable>>
    <3>1. mpc \in {"upload", "mark"} /\ all_durable' = all_durable /\ todo' = todo
      BY <1>1, <2>5 DEF Upload
    <3> QED  BY <2>1, <3>1, PendingShrinks DEF Archived
  <2>6. CASE MarkUploaded
    <3>1. mpc = "mark" /\ all_durable' = all_durable /\ todo' = todo \ {First(todo)}
      BY <2>6 DEF MarkUploaded, MarkDeque
    <3> QED  BY <2>1, <2>6, <3>1, PendingShrinks DEF Archived
  <2>7. CASE EndUploads \/ DeleteOrphan \/ Open \/ ReconcileList \/ ReconcileDrop \/ ReconcileAdopt
    BY <1>1, <2>7 DEF EndUploads, AfterSync, DeleteOrphan, Open, ReconcileList, ReconcileDrop,
       ReconcileAdopt
  <2> QED  BY <1>1, <2>4, <2>5, <2>6, <2>7, ArchivedSteps, UploadsHold
<1>2. CASE mpc' \in {"orphans", "reconcile", "drop", "down"}
  <2>1. ~CommitSwap
    BY <1>2 DEF CommitSwap
  <2>2. ~ListBucket /\ ~Upload /\ ~UploadFails /\ ~MarkUploaded
    BY <1>2 DEF ListBucket, Upload, UploadFails, MarkUploaded
  <2>3. EndUploads => Pending = {}
    BY DEF EndUploads, Archived
  <2>4. DeleteOrphan \/ Open \/ ReconcileList \/ ReconcileDrop \/ ReconcileAdopt => Pending = {}
    BY DEF DeleteOrphan, Open, ReconcileList, ReconcileDrop, ReconcileAdopt, Archived
  <2>5. UNCHANGED <<mpc, todo, all_durable>> => Pending = {}
    BY <1>2 DEF Archived
  <2>6. Pending = {}
    BY <1>2, <2>2, <2>3, <2>4, <2>5, ArchivedSteps
  <2>7. Pending' = {}
    BY <2>1, <2>6, PendingShrinks
  <2> QED  BY <1>2, <2>7 DEF Archived
<1>3. CASE ~up' /\ mpc' \notin {"upload", "mark", "orphans", "reconcile", "drop", "down"}
  <2>1. ~CommitSwap /\ Pending = {}
    BY <1>3, EndSteps DEF Archived
  <2> QED  BY <1>3, <2>1, PendingShrinks DEF Archived
<1>4. CASE up' /\ mpc' \notin {"upload", "mark", "orphans", "reconcile", "drop", "down"}
  BY <1>4 DEF Archived
<1> QED  BY <1>1, <1>2, <1>3, <1>4

\* What is deleted from the bucket is in another object.
LEMMA DroppedIsCovered ==
  ASSUME StoreInv, TidyInv, Archived, ReconcileDrop \/ DeleteOrphan,
         NEW n, n = First(todo), n \in DOMAIN bucket
  PROVE  \E m \in DOMAIN bucket : m # n /\ bucket[n] \subseteq bucket[m]
<1> USE DEF TidyInv
<1>1. mpc \in {"drop", "orphans"} /\ n \in todo /\ n \notin DOMAIN cat /\ Pending = {}
  BY DropEffect DEF Archived
<1>2. \E m \in DOMAIN bucket : m # n /\ Below(n, m, Top(m))
  <2>1. CASE mode = "register"
    <3>1. mpc = "drop" /\ \A m \in DOMAIN cat : m \in DOMAIN bucket
      BY <1>1, <2>1 DEF Orphans, Registering, Archive, StoreInv, Tasks
    <3>2. n \notin listed /\ listed \subseteq DOMAIN bucket
      BY <1>1, <3>1 DEF StoreInv, Tasks
    <3>3. PICK m \in DOMAIN cat \cup listed : Below(n, m, Top(m))
      BY <1>1, <2>1, <3>1, <3>2 DEF Orphans, Registering
    <3> QED  BY <1>1, <3>1, <3>2, <3>3
  <2>2. CASE mode # "register"
    <3>1. PICK m \in DOMAIN cat : Below(n, m, cat[m].hi)
      BY <1>1, <2>2 DEF Orphans
    <3>2. Level(m) >= 1
      BY <3>1, RowTypes, ObjectTypes DEF Below
    <3>3. cat[m].loc # "LOCAL"
      BY <1>1, <3>2 DEF Pending, Archivable
    <3>4. m \in DOMAIN bucket /\ Top(m) = cat[m].hi
      BY <3>3 DEF Archive
    <3> QED  BY <1>1, <3>1, <3>4
  <2> QED  BY <2>1, <2>2
<1>3. PICK m \in DOMAIN bucket : m # n /\ Below(n, m, Top(m))
  BY <1>2
<1>4. /\ bucket[n] = MinSeq(n)..Top(n) /\ bucket[m] = MinSeq(m)..Top(m)
      /\ MinSeq(n) \in Nat /\ Top(n) \in Nat /\ MinSeq(m) \in Nat /\ Top(m) \in Nat
  BY ObjectTypes DEF Archive
<1>5. MinSeq(m) <= MinSeq(n) /\ Top(n) <= Top(m)
  BY <1>3 DEF Below
<1> QED  BY <1>3, <1>4, <1>5

\* The bucket never loses a row: an object is deleted only when an object of a higher
\* level has its rows, by the sync that uploaded that one or by the reconcile of an opening
\* (namespace.rs, sync_step; reconcile.rs).  Uploads must not fail: the sync that ends a
\* process goes on without what it could not upload.
THEOREM FinelogArchiveGrows ==
  ASSUME Tidy, "upload" \notin Faults
  PROVE  Spec => ArchiveGrows
<1>1. Init => Archived
  BY DEF Init, Idle, Archived, Pending, Archivable
<1>2. StoreInv /\ TidyInv /\ Archived /\ [Next]_vars => Archived'
  <2>1. UNCHANGED vars /\ Archived => Archived'
    BY DEF vars, Archived, Pending, Archivable
  <2> QED  BY <2>1, NextArchived
<1>3. StoreInv /\ TidyInv /\ Archived /\ [Next]_vars => [Rows(bucket) \subseteq Rows(bucket')]_vars
  <2> SUFFICES ASSUME StoreInv, TidyInv, Archived, Next, NEW n \in DOMAIN bucket, NEW r \in bucket[n]
               PROVE  \E m \in DOMAIN bucket' : r \in bucket'[m]
    BY DEF Rows
  <2>1. CASE UNCHANGED bucket
    BY <2>1
  <2>2. CASE Uploads
    <3>1. PICK u \in todo :
            /\ u \in DOMAIN cat /\ DOMAIN bucket' = DOMAIN bucket \cup {u}
            /\ \A m \in DOMAIN bucket : m # u => bucket'[m] = bucket[m]
            /\ bucket'[u] = MinSeq(u)..cat[u].hi
      BY <2>2, UploadEffect
    <3>2. u = n => bucket'[n] = bucket[n]
      BY <3>1 DEF TidyInv, Archive
    <3> QED  BY <3>1, <3>2
  <2>3. CASE ReconcileDrop \/ DeleteOrphan
    <3>1. PICK d : d = First(todo)
      OBVIOUS
    <3>2. /\ DOMAIN bucket \ {d} \subseteq DOMAIN bucket'
          /\ \A m \in DOMAIN bucket' : bucket'[m] = bucket[m]
      BY <2>3, <3>1, DropEffect
    <3>3. CASE n = d
      BY <2>3, <3>1, <3>2, <3>3, DroppedIsCovered
    <3>4. CASE n # d
      BY <3>2, <3>4
    <3> QED  BY <3>3, <3>4
  <2> QED  BY <2>1, <2>2, <2>3, BucketSteps
<1> QED  BY <1>1, <1>2, <1>3, StoreInvariant, TidyInvariant, PTL DEF Spec, ArchiveGrows
=============================================================================
