---------------------------- MODULE FinelogStore ----------------------------
(***************************************************************************)
(* One disk-backed namespace of the Finelog store: rows are appended to a  *)
(* RAM buffer, flushed to L0 segment files, compacted upwards, uploaded to *)
(* a bucket and evicted from the local disk (store/namespace.rs, with the  *)
(* catalog, the boot reconcile and the compaction executor it calls).      *)
(*                                                                         *)
(* A flusher, a maintenance task, queries and writers run concurrently; a  *)
(* process can crash between any two of their steps and reopens from what  *)
(* disk, catalog and bucket hold.  A row is its seq; a file is the set of  *)
(* rows in it, under a name <<level, min_seq>>.                            *)
(*                                                                         *)
(* An operator whose comment begins with "Bug:" is a mutant: a plausible   *)
(* mistake, used by no other definition.                                   *)
(***************************************************************************)
EXTENDS FinelogPlanner, Functions

CONSTANTS MaxSeq,        \* bound: rows ever appended
          MaxLocal,      \* max_segments of the storage policy
          AgeTrim,       \* whether the policy sets max_age_seconds
          Faults,        \* which calls may fail
          MaxFaults, MaxCrashes, MaxLosses   \* bounds on failures

FaultKinds == {"write", "catalog", "locate", "upload", "list", "delete", "timeout"}

ASSUME StoreAssumption ==
  /\ MaxSeq \in Nat /\ MaxLocal \in Nat /\ AgeTrim \in BOOLEAN
  /\ Faults \subseteq FaultKinds
  /\ MaxFaults \in Nat /\ MaxCrashes \in Nat /\ MaxLosses \in Nat

VARIABLES
  disk,       \* file name -> rows: the namespace directory
  bucket,     \* object name -> rows: the remote store
  cat,        \* file name -> [hi, loc]: the segments table
  up,         \* whether the process runs
  next_seq, ram, local_segments, persisted_seq,
  sealed,     \* the flusher: the SealedBuffer it writes,
  fpc, fby,   \*   its step, and whether the task or maintenance called it
  mpc, mode,  \* the maintenance task: its step, and what it is doing
  job,        \*   the compaction job,
  listed,     \*   bucket names listed (sync) or footers to adopt (reconcile),
  todo,       \*   names left in the current loop,
  all_durable,
  snap,       \* the files a running query has snapshotted, or NoSnap
  acked,      \* history: rows a writer has been told are durable
  faults, crashes, losses

durable == <<disk, bucket, cat>>
memory  == <<next_seq, ram, local_segments, persisted_seq>>
flusher == <<sealed, fpc, fby>>
loop    == <<job, listed, todo, all_durable>>
history == <<acked, faults, crashes, losses>>
vars == <<durable, up, memory, flusher, mpc, mode, loop, snap, history>>

NoSnap == {<<-1, -1>>}
Seqs == 1..MaxSeq
Names == (0..Terminal) \X Seqs

Rows(files) == UNION {files[n] : n \in DOMAIN files}
Put(f, n, v) == [m \in DOMAIN f \cup {n} |-> IF m = n THEN v ELSE f[m]]
Drop(f, S) == Restrict(f, DOMAIN f \ S)
Segment(n, hi, loc) == [name |-> n, hi |-> hi, loc |-> loc]
\* The deque's entries at the given places, in their order.
Picked(q, places) ==
  [i \in 1..Cardinality(places) |->
     q[CHOOSE k \in places : Cardinality({l \in places : l <= k}) = i]]

Places(names) == {i \in DOMAIN local_segments : local_segments[i].name \in names}
SegmentNames == {local_segments[i].name : i \in DOMAIN local_segments}
Archivable == {n \in DOMAIN cat : Level(n) >= 1}   \* list_segments_min_level(1)

SetLocation(n, loc) == IF n \in DOMAIN cat THEN [cat EXCEPT ![n].loc = loc] ELSE cat

\* max_seq of a file as its footer gives it: min_seq + row_count - 1.
FooterMax(n, rows) == MinSeq(n) + Cardinality(rows) - 1

\* The first of a set of names in min_seq order.
First(S) == CHOOSE n \in S : \A m \in S : MinSeq(n) <= MinSeq(m)

Fault(kind) ==
  /\ kind \in Faults /\ faults < MaxFaults
  /\ faults' = faults + 1
  /\ UNCHANGED <<acked, crashes, losses>>

-----------------------------------------------------------------------------
(* Opening a namespace. *)

Idle ==
  /\ up = TRUE /\ next_seq = 1 /\ ram = {} /\ local_segments = <<>>
  /\ persisted_seq = -1 /\ sealed = {} /\ fpc = "idle" /\ fby = "task"
  /\ mpc = "idle" /\ mode = "cycle" /\ job = NoJob /\ listed = {} /\ todo = {}
  /\ all_durable = TRUE /\ snap = NoSnap

Init ==
  /\ disk = <<>> /\ bucket = <<>> /\ cat = <<>>
  /\ Idle
  /\ acked = {} /\ faults = 0 /\ crashes = 0 /\ losses = 0

\* What a process leaves behind when it ends: nothing that is in memory.
Down ==
  /\ up' = FALSE /\ next_seq' = 1 /\ ram' = {} /\ local_segments' = <<>>
  /\ persisted_seq' = -1 /\ sealed' = {} /\ fpc' = "idle" /\ fby' = "task"
  /\ mpc' = "idle" /\ mode' = "cycle" /\ job' = NoJob /\ listed' = {}
  /\ todo' = {} /\ all_durable' = TRUE /\ snap' = NoSnap

Crash ==
  /\ up /\ crashes < MaxCrashes
  /\ crashes' = crashes + 1
  /\ Down
  /\ UNCHANGED <<durable, acked, faults, losses>>

\* The volume is lost while the process is down; the bucket survives.  What
\* was promised of rows that were only local is lost with it.
LoseDisk ==
  /\ ~up /\ losses < MaxLosses
  /\ losses' = losses + 1
  /\ disk' = <<>> /\ cat' = <<>>
  /\ acked' = acked \cap Rows(bucket)
  /\ mode' = "register"
  /\ UNCHANGED <<bucket, up, memory, flusher, mpc, loop, snap, faults, crashes>>

\* Catalog rows once a boot has compared them with the directory.
AdoptedRow(n) ==
  IF n \in DOMAIN disk
  THEN [hi  |-> FooterMax(n, disk[n]),
        loc |-> IF n \notin DOMAIN cat THEN "LOCAL"
                ELSE IF cat[n].loc = "REMOTE" THEN "BOTH" ELSE cat[n].loc]
  ELSE [hi |-> cat[n].hi, loc |-> "REMOTE"]

KeptRows == {n \in DOMAIN cat : n \in DOMAIN disk \/ cat[n].loc # "LOCAL"}

\* Bug: the catalog alone, without the footers of files it does not list.
NextSeqFromCatalog == 1 + Max({0} \cup {cat[n].hi : n \in KeptRows})

recover_next_seq ==
  1 + Max({0} \cup {FooterMax(n, disk[n]) : n \in DOMAIN disk}
              \cup {cat[n].hi : n \in KeptRows})

\* By min_seq, rows the catalog has before files it has not.
Before(m, n) ==
  \/ MinSeq(m) < MinSeq(n)
  \/ /\ MinSeq(m) = MinSeq(n)
     /\ IF (m \in DOMAIN cat) = (n \in DOMAIN cat)
        THEN Level(m) <= Level(n) ELSE m \in DOMAIN cat

\* adopt_local_segments then the refresh of the catalog from the deque.
Open ==
  /\ ~up
  /\ up' = TRUE
  /\ cat' = [n \in KeptRows \cup DOMAIN disk |-> AdoptedRow(n)]
  /\ next_seq' = recover_next_seq
  /\ local_segments' =
       LET at(i) == CHOOSE n \in DOMAIN disk :
                      Cardinality({m \in DOMAIN disk : Before(m, n)}) = i
       IN [i \in 1..Cardinality(DOMAIN disk) |->
             Segment(at(i), AdoptedRow(at(i)).hi, AdoptedRow(at(i)).loc)]
  /\ persisted_seq' = Max({-1} \cup {FooterMax(n, disk[n]) : n \in DOMAIN disk})
  /\ mode' = IF mode = "register" THEN "register" ELSE "boot"
  /\ mpc' = "reconcile"
  /\ UNCHANGED <<disk, bucket, ram, flusher, loop, snap, history>>

-----------------------------------------------------------------------------
(* Writers and the flusher. *)

\* append_aligned_batch, append_log_batch.  A namespace that is being
\* registered is not served before its reconcile has ended.
AppendRow ==
  /\ up /\ mode \notin {"register", "stop"}
  /\ next_seq <= MaxSeq
  /\ ram' = ram \cup {next_seq}
  /\ next_seq' = next_seq + 1
  /\ UNCHANGED <<durable, up, local_segments, persisted_seq, flusher, mpc, mode,
                 loop, snap, history>>

\* Bug: a flush that takes the newest row first.
SealNewest(by) ==
  /\ up /\ fpc = "idle" /\ ram # {}
  /\ IF by = "task" THEN mode # "stop" ELSE mpc = "flush"
  /\ sealed' = {Max(ram)} /\ ram' = ram \ {Max(ram)}
  /\ fpc' = "sealed" /\ fby' = by
  /\ UNCHANGED <<durable, up, next_seq, local_segments, persisted_seq, mpc, mode,
                 loop, snap, history>>

\* flush_once is entered with the flush lock held, by the flush task or by the
\* maintenance cycle (and by a shutdown).
Seal(by) ==
  /\ up /\ fpc = "idle" /\ ram # {}
  /\ IF by = "task" THEN mode # "stop" ELSE mpc = "flush"
  /\ sealed' = ram /\ ram' = {}
  /\ fpc' = "sealed" /\ fby' = by
  /\ UNCHANGED <<durable, up, next_seq, local_segments, persisted_seq, mpc, mode,
                 loop, snap, history>>

\* Where the maintenance task goes when the flush it called has returned.
AfterFlush(ok) ==
  mpc' = IF fby = "task" THEN mpc
         ELSE IF mode = "stop" THEN "list" ELSE IF ok THEN "compact" ELSE "idle"

WriteSegment ==
  /\ fpc = "sealed"
  /\ disk' = Put(disk, <<0, Min(sealed)>>, sealed)
  /\ fpc' = "written"
  /\ UNCHANGED <<bucket, cat, up, memory, sealed, fby, mpc, mode, loop, snap, history>>

UpsertSegment ==
  /\ fpc = "written"
  /\ cat' = Put(cat, <<0, Min(sealed)>>, [hi |-> Max(sealed), loc |-> "LOCAL"])
  /\ fpc' = "cataloged"
  /\ UNCHANGED <<disk, bucket, up, memory, sealed, fby, mpc, mode, loop, snap, history>>

\* Bug: a failed flush forgets the rows it sealed.
RestoreFlushDrops ==
  /\ \/ fpc = "sealed" /\ Fault("write")
     \/ fpc = "written" /\ Fault("catalog")
  /\ sealed' = {}
  /\ fpc' = "idle" /\ fby' = "task"
  /\ AfterFlush(FALSE)
  /\ UNCHANGED <<durable, up, next_seq, ram, local_segments, persisted_seq, mode, loop, snap>>

\* The write or the upsert fails: the sealed rows go back to the buffer.
RestoreFlush ==
  /\ \/ fpc = "sealed" /\ Fault("write")
     \/ fpc = "written" /\ Fault("catalog")
  /\ ram' = sealed \cup ram /\ sealed' = {}
  /\ fpc' = "idle" /\ fby' = "task"
  /\ AfterFlush(FALSE)
  /\ UNCHANGED <<durable, up, next_seq, local_segments, persisted_seq, mode, loop, snap>>

CommitFlush ==
  /\ fpc = "cataloged"
  /\ local_segments' =
       Append(local_segments, Segment(<<0, Min(sealed)>>, Max(sealed), "LOCAL"))
  /\ fpc' = "committed"
  /\ UNCHANGED <<durable, up, next_seq, ram, persisted_seq, sealed, fby, mpc, mode,
                 loop, snap, history>>

\* Bug: the watch moves before the deque changes.
PublishesUncommitted == fpc \in {"cataloged", "committed"}

MayPublish == fpc = "committed"

\* The watch moves last; every writer waiting for a row up to it is answered.
Publish ==
  /\ MayPublish
  /\ persisted_seq' = Max(sealed)
  /\ acked' = acked \cup sealed
  /\ sealed' = {} /\ fpc' = "idle" /\ fby' = "task"
  /\ AfterFlush(TRUE)
  /\ UNCHANGED <<durable, up, next_seq, ram, local_segments, mode, loop, snap,
                 faults, crashes, losses>>

-----------------------------------------------------------------------------
(* The maintenance task: flush, compact, sync, evict, and over again.  The
   boot reconcile comes first, a stopping engine flushes and syncs only. *)

Maintenance == <<mpc, mode, loop>>
At(step) == up /\ mpc = step
Goto(step) == mpc' = step /\ UNCHANGED mode
NoFault == UNCHANGED history

\* The write side of the query-visibility lock: free of readers, and a reader
\* that comes while a writer waits is queued behind it.
Waiting == {"swap", "bump", "evwait"}
Holding == {"splice", "unlink", "evunlink"}
Drained == snap = NoSnap

\* Bug: files are changed under running queries.
WithoutReaders(step) == At(step)

WriteLocked(step) == At(step) /\ Drained

StartCycle ==
  /\ At("idle") /\ mode = "cycle"
  /\ Goto("flush")
  /\ UNCHANGED <<durable, up, memory, flusher, loop, snap, history>>

\* stop_and_join, then the final flush_once and sync_step of a shutdown.
StartStop ==
  /\ At("idle") /\ mode = "cycle" /\ fpc = "idle"
  /\ mode' = "stop" /\ mpc' = "flush"
  /\ UNCHANGED <<durable, up, memory, flusher, loop, snap, history>>

NothingToFlush ==
  /\ At("flush") /\ fpc = "idle" /\ ram = {}
  /\ Goto(IF mode = "stop" THEN "list" ELSE "compact")
  /\ UNCHANGED <<durable, up, memory, flusher, loop, snap, history>>

\* compaction_step: the drain ends when no job is due.
PlanJob ==
  /\ At("compact")
  /\ IF plan(local_segments) = {} THEN job' = NoJob /\ Goto("list")
     ELSE \E planned \in plan(local_segments) :
            /\ job' = planned
            /\ Goto(IF Cardinality(planned.inputs) = 1 THEN "bump" ELSE "merge")
  /\ UNCHANGED <<durable, up, memory, flusher, listed, todo, all_durable, snap, history>>

\* apply_merge: the inputs are read and the output renamed into place, over a
\* file of that name if there is one.  A missing input ends the cycle.
Merge ==
  /\ At("merge")
  /\ IF job.inputs \subseteq DOMAIN disk
     THEN /\ disk' = Put(disk, job.out, UNION {disk[n] : n \in job.inputs})
          /\ Goto("swap")
     ELSE UNCHANGED disk /\ Goto("idle")
  /\ UNCHANGED <<bucket, cat, up, memory, flusher, loop, snap, history>>

\* A one-input job renames its file, under the write lock.
BumpRename ==
  /\ WriteLocked("bump")
  /\ IF job.inputs \subseteq DOMAIN disk
     THEN /\ disk' = Put(Drop(disk, job.inputs), job.out, disk[First(job.inputs)])
          /\ Goto("splice")
     ELSE UNCHANGED disk /\ Goto("idle")
  /\ UNCHANGED <<bucket, cat, up, memory, flusher, loop, snap, history>>

\* Bug: the output goes to the end.
SplicedAtEnd ==
  Append(Picked(local_segments, DOMAIN local_segments \ Places(job.inputs)),
         Segment(job.out, job.hi, "LOCAL"))

\* Bug: only the first input leaves.
SplicedOverFirst ==
  [i \in DOMAIN local_segments |->
     IF local_segments[i].name = First(job.inputs)
     THEN Segment(job.out, job.hi, "LOCAL") ELSE local_segments[i]]

\* The deque with the first removed segment replaced by the output and the
\* others dropped (appended when none was there).
Spliced ==
  LET added == Segment(job.out, job.hi, "LOCAL")
      hit   == Places(job.inputs)
  IN IF hit = {} THEN Append(local_segments, added)
     ELSE Picked([local_segments EXCEPT ![Min(hit)] = added],
                 (DOMAIN local_segments \ hit) \cup {Min(hit)})

AtSplice == At("splice") \/ WriteLocked("swap")

\* commit_swap: deque and catalog change together; merge inputs go last.
CommitSwap ==
  /\ AtSplice
  /\ local_segments' = Spliced
  /\ cat' = Put(Drop(cat, job.inputs), job.out, [hi |-> job.hi, loc |-> "LOCAL"])
  /\ IF mpc = "splice" THEN Goto("compact") /\ UNCHANGED todo
     ELSE Goto("unlink") /\ todo' = job.inputs
  /\ UNCHANGED <<disk, bucket, up, next_seq, ram, persisted_seq, flusher, job,
                 listed, all_durable, snap, history>>

\* replace_segments fails after the deque was spliced; the inputs stay.
CommitSwapFails ==
  /\ AtSplice
  /\ Fault("catalog")
  /\ local_segments' = Spliced
  /\ Goto("idle")
  /\ UNCHANGED <<durable, up, next_seq, ram, persisted_seq, flusher, loop, snap>>

UnlinkInput ==
  /\ At("unlink")
  /\ disk' = Drop(disk, {First(todo)})
  /\ todo' = todo \ {First(todo)}
  /\ Goto(IF todo' = {} THEN "compact" ELSE "unlink")
  /\ UNCHANGED <<bucket, cat, up, memory, flusher, job, listed, all_durable, snap, history>>

-----------------------------------------------------------------------------
(* sync_step *)

AfterSync == IF mode = "stop" THEN "down" ELSE "evict"

ListBucket ==
  /\ At("list")
  /\ listed' = DOMAIN bucket
  /\ todo' = {n \in Archivable : cat[n].loc = "LOCAL"}
  /\ all_durable' = TRUE
  /\ Goto("upload")
  /\ UNCHANGED <<durable, up, memory, flusher, job, snap, history>>

ListBucketFails ==
  /\ At("list")
  /\ Fault("list")
  /\ Goto(AfterSync)
  /\ UNCHANGED <<durable, up, memory, flusher, loop, snap>>

\* A name the listing has is not uploaded again.
Upload ==
  /\ At("upload") /\ todo # {}
  /\ \/ First(todo) \in listed /\ UNCHANGED bucket
     \/ /\ First(todo) \in DOMAIN disk \ listed
        /\ bucket' = Put(bucket, First(todo), disk[First(todo)])
  /\ Goto("mark")
  /\ UNCHANGED <<disk, cat, up, memory, flusher, loop, snap, history>>

\* Bug: a failed upload is taken for a success.
UploadFailsMarked ==
  /\ At("upload") /\ todo # {} /\ First(todo) \notin listed
  /\ IF First(todo) \in DOMAIN disk THEN Fault("upload") ELSE NoFault
  /\ Goto("mark")
  /\ UNCHANGED <<durable, up, memory, flusher, loop, snap>>

\* The file cannot be read, or the put fails or is applied without an answer; the
\* next sync tries again.
UploadFails ==
  /\ At("upload") /\ todo # {} /\ First(todo) \notin listed
  /\ \/ First(todo) \notin DOMAIN disk /\ UNCHANGED bucket /\ NoFault
     \/ /\ First(todo) \in DOMAIN disk
        /\ \/ UNCHANGED bucket
           \/ bucket' = Put(bucket, First(todo), disk[First(todo)])
        /\ Fault("upload")
  /\ todo' = todo \ {First(todo)}
  /\ all_durable' = FALSE
  /\ UNCHANGED <<disk, cat, up, memory, flusher, mpc, mode, job, listed, snap>>

\* mark_uploaded: the first deque entry of the path, and the catalog row.
MarkDeque ==
  LET at == Places({First(todo)})
  IN /\ At("mark")
     /\ local_segments' = IF at = {} THEN local_segments
                          ELSE [local_segments EXCEPT ![Min(at)].loc = "BOTH"]

MarkUploaded ==
  /\ MarkDeque
  /\ cat' = SetLocation(First(todo), "BOTH")
  /\ todo' = todo \ {First(todo)}
  /\ Goto("upload")
  /\ UNCHANGED <<disk, bucket, up, next_seq, ram, persisted_seq, flusher, job,
                 listed, all_durable, snap, history>>

\* set_location fails: the sync returns the error, which ends the cycle.
MarkUploadedFails ==
  /\ MarkDeque
  /\ Fault("locate")
  /\ Goto(IF mode = "stop" THEN "down" ELSE "idle")
  /\ UNCHANGED <<durable, up, next_seq, ram, persisted_seq, flusher, loop, snap>>

\* Bug: orphans are deleted although an upload has failed.
EndUploadsAlways ==
  /\ At("upload") /\ todo = {}
  /\ todo' = listed \ Archivable
  /\ Goto(IF todo' = {} THEN AfterSync ELSE "orphans")
  /\ UNCHANGED <<durable, up, memory, flusher, job, listed, all_durable, snap, history>>

\* Phase 2 runs only when every upload of phase 1 succeeded.
EndUploads ==
  /\ At("upload") /\ todo = {}
  /\ todo' = IF all_durable THEN listed \ Archivable ELSE {}
  /\ Goto(IF todo' = {} THEN AfterSync ELSE "orphans")
  /\ UNCHANGED <<durable, up, memory, flusher, job, listed, all_durable, snap, history>>

\* remote.delete logs and swallows its errors.
DeleteOrphan ==
  /\ At("orphans")
  /\ \/ bucket' = Drop(bucket, {First(todo)}) /\ NoFault
     \/ UNCHANGED bucket /\ Fault("delete")
  /\ todo' = todo \ {First(todo)}
  /\ Goto(IF todo' = {} THEN AfterSync ELSE "orphans")
  /\ UNCHANGED <<disk, cat, up, memory, flusher, job, listed, all_durable, snap>>

Stopped ==
  /\ At("down")
  /\ Down
  /\ UNCHANGED <<durable, history>>

\* Where the maintenance task and the final sync await the bucket.
Awaiting == {"list", "upload", "mark", "orphans", "reconcile", "drop"}

\* The join of a shutdown runs into its timeout: the task is aborted where it awaits
\* the bucket, and the final flush and sync begin.
AbortTask ==
  /\ up /\ mode \in {"cycle", "boot"} /\ mpc \in Awaiting
  /\ Fault("timeout")
  /\ mode' = "stop" /\ mpc' = "flush"
  /\ UNCHANGED <<durable, up, memory, flusher, loop, snap>>

\* The final sync runs into its timeout: the process ends without the rest of it.
CutSync ==
  /\ up /\ mode = "stop" /\ mpc \in Awaiting
  /\ Fault("timeout")
  /\ Down
  /\ UNCHANGED durable

-----------------------------------------------------------------------------
(* eviction_step *)

OverCap == Len(local_segments) > MaxLocal
\* Bug: segments that have no copy are evicted too.
EvictableLocal == {n \in Archivable : cat[n].loc # "REMOTE"}

Evictable == {n \in Archivable : cat[n].loc = "BOTH"}
Oldest(n) == \A m \in Evictable : MinSeq(n) <= MinSeq(m)

\* The cap trims oldest first; the age trim may take any copied segment.
ChooseEviction(n) ==
  /\ At("evict") /\ n \in Evictable
  /\ AgeTrim \/ (OverCap /\ Oldest(n))
  /\ todo' = {n}
  /\ Goto("evwait")
  /\ UNCHANGED <<durable, up, memory, flusher, job, listed, all_durable, snap, history>>

\* evict_segment: a copied segment stays in the catalog, a local one is dropped.
\* Its location is that of the last deque entry with its path.  An error of the
\* catalog is ignored.
EvictSegment ==
  LET n  == First(todo)
      at == Places({n})
      copied == at # {} /\ local_segments[Max(at)].loc = "BOTH"
  IN /\ WriteLocked("evwait")
     /\ local_segments' = Picked(local_segments, DOMAIN local_segments \ at)
     /\ \/ /\ cat' = IF copied THEN SetLocation(n, "REMOTE") ELSE Drop(cat, {n})
           /\ NoFault
        \/ UNCHANGED cat /\ Fault("locate")
     /\ Goto("evunlink")
     /\ UNCHANGED <<disk, bucket, up, next_seq, ram, persisted_seq, flusher, loop,
                    snap>>

UnlinkEvicted ==
  /\ At("evunlink")
  /\ disk' = Drop(disk, todo)
  /\ todo' = {}
  /\ Goto("evict")
  /\ UNCHANGED <<bucket, cat, up, memory, flusher, job, listed, all_durable, snap, history>>

EndEviction ==
  /\ At("evict")
  /\ AgeTrim \/ ~OverCap \/ Evictable = {}
  /\ Goto("idle")
  /\ UNCHANGED <<durable, up, memory, flusher, loop, snap, history>>

-----------------------------------------------------------------------------
(* boot_reconcile *)

\* max_seq of an L>=1 row of the catalog or of an object unknown to it.
KnownMax(n) == IF n \in Archivable THEN cat[n].hi ELSE FooterMax(n, bucket[n])

\* Covered by a segment of a strictly higher level.
Redundant(n) ==
  \E m \in Archivable \cup DOMAIN bucket :
     /\ Level(m) > Level(n)
     /\ MinSeq(m) <= MinSeq(n) /\ KnownMax(m) >= KnownMax(n)

ReconcileList ==
  /\ At("reconcile")
  /\ todo' = {n \in Archivable \cup DOMAIN bucket : Redundant(n)}
  /\ listed' = {n \in DOMAIN bucket \ Archivable : ~Redundant(n)}
  /\ Goto("drop")
  /\ UNCHANGED <<durable, up, memory, flusher, job, all_durable, snap, history>>

ReconcileListFails ==
  /\ At("reconcile")
  /\ Fault("list")
  /\ Goto("reseed")
  /\ UNCHANGED <<durable, up, memory, flusher, loop, snap>>

ReconcileDrop ==
  /\ At("drop") /\ todo # {}
  /\ cat' = Drop(cat, {First(todo)})
  /\ \/ bucket' = Drop(bucket, {First(todo)}) /\ NoFault
     \/ UNCHANGED bucket /\ Fault("delete")
  /\ todo' = todo \ {First(todo)}
  /\ UNCHANGED <<disk, up, memory, flusher, mpc, mode, job, listed, all_durable, snap>>

ReconcileAdopt ==
  /\ At("drop") /\ todo = {} /\ listed # {}
  /\ LET n == First(listed)
     IN /\ cat' = Put(cat, n, [hi |-> FooterMax(n, bucket[n]), loc |-> "REMOTE"])
        /\ listed' = listed \ {n}
  /\ UNCHANGED <<disk, bucket, up, memory, flusher, mpc, mode, job, todo,
                 all_durable, snap, history>>

EndReconcile ==
  /\ At("drop") /\ todo = {} /\ listed = {}
  /\ Goto("reseed")
  /\ UNCHANGED <<durable, up, memory, flusher, loop, snap, history>>

\* Bug: next_seq stays where the local files left it.
ReseedNot ==
  /\ At("reseed")
  /\ mpc' = "idle" /\ mode' = "cycle"
  /\ UNCHANGED <<durable, up, memory, flusher, loop, snap, history>>

\* ensure_next_seq_at_least, over the catalog as it is now.
Reseed ==
  /\ At("reseed")
  /\ next_seq' = Max({next_seq} \cup {cat[n].hi + 1 : n \in DOMAIN cat})
  /\ mpc' = "idle" /\ mode' = "cycle"
  /\ UNCHANGED <<durable, up, ram, local_segments, persisted_seq, flusher, loop,
                 snap, history>>

-----------------------------------------------------------------------------
(* Queries: the read side of the visibility lock is held over the whole scan. *)

\* Bug: a reader overtakes a waiting writer.
StartQueryBarging ==
  /\ up /\ mode \notin {"register", "stop"} /\ Drained
  /\ mpc \notin Holding
  /\ snap' = SegmentNames
  /\ UNCHANGED <<durable, up, memory, flusher, mpc, mode, loop, history>>

StartQuery ==
  /\ up /\ mode \notin {"register", "stop"} /\ Drained
  /\ mpc \notin Waiting \cup Holding
  /\ snap' = SegmentNames
  /\ UNCHANGED <<durable, up, memory, flusher, mpc, mode, loop, history>>

EndQuery ==
  /\ snap # NoSnap
  /\ snap' = NoSnap
  /\ UNCHANGED <<durable, up, memory, flusher, mpc, mode, loop, history>>

-----------------------------------------------------------------------------

Flush == \/ Seal("task") \/ WriteSegment \/ UpsertSegment \/ RestoreFlush
         \/ CommitFlush \/ Publish
Compact == PlanJob \/ Merge \/ BumpRename \/ CommitSwap \/ CommitSwapFails \/ UnlinkInput
Sync == \/ ListBucket \/ ListBucketFails \/ Upload \/ UploadFails \/ MarkUploaded
        \/ MarkUploadedFails \/ EndUploads \/ DeleteOrphan
Evict == \/ (\E n \in Evictable : ChooseEviction(n))
         \/ EvictSegment \/ UnlinkEvicted \/ EndEviction
Reconcile == \/ ReconcileList \/ ReconcileListFails \/ ReconcileDrop
             \/ ReconcileAdopt \/ EndReconcile \/ Reseed
Maintain == \/ StartCycle \/ Seal("maintenance") \/ NothingToFlush
            \/ Compact \/ Sync \/ Evict \/ Reconcile

Shutdown == StartStop \/ Stopped \/ AbortTask \/ CutSync

Next == \/ AppendRow \/ Flush \/ Maintain \/ Shutdown
        \/ StartQuery \/ EndQuery \/ Crash \/ LoseDisk \/ Open

Spec == Init /\ [][Next]_vars

\* The flush task and the maintenance task keep running, and queries end.  Nothing is
\* assumed of a process that is down: it need not be started again.
Fairness == WF_vars(Flush) /\ WF_vars(Maintain \/ Stopped) /\ WF_vars(EndQuery)
FairSpec == Spec /\ Fairness

-----------------------------------------------------------------------------
(* Properties. *)

Loc == {"LOCAL", "BOTH", "REMOTE"}

\* The types, and that the deque stays oldest first through flushes, splices,
\* evictions and boots, as the planner expects.
TypeOK ==
  /\ \A f \in {disk, bucket} : /\ DOMAIN f \subseteq Names
                              /\ \A n \in DOMAIN f : f[n] \subseteq Seqs /\ f[n] # {}
  /\ DOMAIN cat \subseteq Names
  /\ \A n \in DOMAIN cat : cat[n] \in [hi : Seqs, loc : Loc]
  /\ up \in BOOLEAN /\ next_seq \in 1..(MaxSeq + 1) /\ ram \subseteq Seqs
  /\ \A i \in DOMAIN local_segments :
       /\ local_segments[i] \in [name : Names, hi : Seqs, loc : {"LOCAL", "BOTH"}]
       /\ \A k \in 1..i : MinSeq(local_segments[k].name) <= MinSeq(local_segments[i].name)
  /\ persisted_seq \in Seqs \cup {-1}
  /\ sealed \subseteq Seqs /\ acked \subseteq Seqs
  /\ fpc \in {"idle", "sealed", "written", "cataloged", "committed"}
  /\ mode \in {"cycle", "stop", "boot", "register"}
  /\ listed \subseteq Names /\ todo \subseteq Names

\* A row whose writer was told it is durable is in a local file or in the bucket:
\* no flush, merge, upload, eviction, orphan deletion or restart removes the last
\* copy of it.
AckedDurable == acked \subseteq Rows(disk) \cup Rows(bucket)

\* An acknowledged row is where the store looks for it: in the file of a segment
\* of the deque or, evicted, in the object of a REMOTE row.  A level bump holds
\* the write lock between its rename and the splice; a namespace being registered
\* is not served.
Reachable ==
  (UNION {disk[n] : n \in SegmentNames \cap DOMAIN disk}) \cup
  (UNION {bucket[n] : n \in {m \in DOMAIN cat \cap DOMAIN bucket : cat[m].loc = "REMOTE"}})

AckedReachable == up /\ mode # "register" /\ mpc # "splice" => acked \subseteq Reachable

\* The paths a query snapshotted stay openable until it has finished: neither a
\* compaction nor an eviction takes a file away under a scan.
ReadSafe == snap = NoSnap \/ snap \subseteq DOMAIN disk

\* A query sees no row twice: the segments of the deque do not overlap.  It holds
\* while no process dies and no catalog write fails between a merge and its commit.
SeenOnce ==
  \A i, k \in DOMAIN local_segments :
     i < k => local_segments[i].hi < MinSeq(local_segments[k].name)

\* A BOTH or REMOTE row is backed by an object that holds every row it claims, so
\* that the eviction of its file destroys nothing.
ArchivedHeld ==
  \A n \in DOMAIN cat : cat[n].loc # "LOCAL" =>
      n \in DOMAIN bucket /\ MinSeq(n)..cat[n].hi \subseteq bucket[n]

\* A seq given to a new row is not that of a row on disk or in the bucket, whatever
\* was flushed, evicted or lost before the namespace was opened.
FreshSeqs ==
  [][\A r \in ram' \ (ram \cup sealed) : r \notin Rows(disk) \cup Rows(bucket)]_vars

\* The bucket never loses a row: an object is deleted only once a merged output
\* that holds its rows is up (the ordering sync_step calls its data-safety
\* invariant).
ArchiveGrows == [][Rows(bucket) \subseteq Rows(bucket')]_vars

\* Within the life of a process rows become visible in seq order, so that a reader that
\* polls for rows above the last one it saw misses none.  Nothing is compared across the
\* end of a process: after a lost volume the seqs start lower again.
Visible ==
  UNION {MinSeq(local_segments[i].name)..local_segments[i].hi : i \in DOMAIN local_segments}
TailMonotone ==
  [][up /\ up' => \A r \in Visible' \ Visible : \A q \in Visible : q < r]_vars

\* Every row appended is acknowledged, unless the process ends first: a failed
\* flush is retried with the rows it had sealed.
EventuallyAcked == \A r \in Seqs : r \in ram ~> (r \in acked \/ ~up)

\* A maintenance cycle ends although queries keep coming and it needs the write
\* side of the visibility lock.
CycleEnds == mpc # "idle" ~> (mpc = "idle" \/ ~up)
=============================================================================
