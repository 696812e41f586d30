--------------------------- MODULE FinelogPlanner ---------------------------
(***************************************************************************)
(* The leveled-compaction policy of Finelog (compaction/planner.rs): which *)
(* segments of a namespace are merged next, and into what.                 *)
(*                                                                         *)
(* A segment is [name, hi, loc].  Its name <<level, lo>> is the file name  *)
(* seg_L{level}_{min_seq}; it holds the rows lo..hi.  One row is one byte, *)
(* so the bytes of an adjacent run are the length of its row interval.     *)
(***************************************************************************)
EXTENDS Integers, Sequences, FiniteSetsExt

CONSTANTS LevelTargets,         \* bytes that promote level n, at n + 1
          MaxSegmentsPerLevel   \* run length that promotes regardless of bytes

ASSUME PlannerAssumption ==
  /\ LevelTargets \in Seq(Nat \ {0})
  /\ MaxSegmentsPerLevel \in Nat \ {0}

Level(name) == name[1]
MinSeq(name) == name[2]
Terminal == Len(LevelTargets)
NoJob == [inputs |-> {}, out |-> <<0, 0>>, hi |-> 0]

\* The places of the segments of a level in the deque, which has them in min_seq
\* order (TypeOK of FinelogStore).
AtLevel(segs, n) == {i \in DOMAIN segs : Level(segs[i].name) = n}
Stretch(segs, n, i, k) == AtLevel(segs, n) \cap i..k

\* k is next to i in its level, and prev.max_seq + 1 == next.min_seq.
Adjacent(segs, n, i, k) ==
  /\ i < k /\ Stretch(segs, n, i + 1, k - 1) = {}
  /\ segs[i].hi + 1 = MinSeq(segs[k].name)

\* The maximal adjacent stretches of a level, each as the set of its places.
contiguous_runs(segs, n) ==
  {Stretch(segs, n, r[1], r[2]) : r \in
     {r \in AtLevel(segs, n) \X AtLevel(segs, n) :
        /\ r[1] <= r[2]
        /\ \A i \in Stretch(segs, n, r[1], r[2] - 1) :
             \E k \in AtLevel(segs, n) : Adjacent(segs, n, i, k)
        /\ \A k \in AtLevel(segs, n) :
             ~Adjacent(segs, n, k, r[1]) /\ ~Adjacent(segs, n, r[2], k)}}

run_bytes(segs, run) == Cardinality(UNION {MinSeq(segs[k].name)..segs[k].hi : k \in run})

Due(segs, n, run) ==
  \/ run_bytes(segs, run) >= LevelTargets[n + 1]
  \/ Cardinality(run) >= MaxSegmentsPerLevel

due_runs(segs) ==
  UNION {{n} \X {run \in contiguous_runs(segs, n) : Due(segs, n, run)} :
           n \in 0..(Terminal - 1)}

\* The shortest prefix of the run whose bytes reach the target.
take_until_target(segs, n, run) ==
  {k \in run : run_bytes(segs, {l \in run : l < k}) < LevelTargets[n + 1]}

build_job(segs, run, level) ==
  [inputs |-> {segs[k].name : k \in run},
   out    |-> <<level, Min({MinSeq(segs[k].name) : k \in run})>>,
   hi     |-> Max({segs[k].hi : k \in run})]

\* The job for the first due run of the lowest level that has one, or no element.
plan(segs) ==
  {build_job(segs, take_until_target(segs, d[1], d[2]), d[1] + 1) : d \in
     {d \in due_runs(segs) : \A e \in due_runs(segs) :
        d[1] < e[1] \/ (d[1] = e[1] /\ Min(d[2]) <= Min(e[2]))}}
=============================================================================
