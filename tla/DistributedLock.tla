-------------------------- MODULE DistributedLock --------------------------
(***************************************************************************)
(* The lease of lib/rigging/src/rigging/distributed_lock.py: one object in *)
(* a store that names its holder, read and written by threads that know    *)
(* nothing of each other.  The protocol of DistributedLease (try_acquire,  *)
(* refresh, release, has_active_holder) is a read followed, in a later     *)
(* step, by a conditional write or by a delete; what the condition of the  *)
(* write is depends on the backend that create_lock chooses.               *)
(*                                                                         *)
(* Time is abstracted: a lease is fresh until the step LeaseExpires of the *)
(* module that extends this one says that HEARTBEAT_TIMEOUT has passed.    *)
(* The generation (GCS) or etag (S3) that a thread has read is abstracted  *)
(* to what its comparison with the stored object can answer.               *)
(*                                                                         *)
(* An operator whose comment begins with "Bug:" is a mutant.               *)
(***************************************************************************)
EXTENDS Naturals, FiniteSets

CONSTANTS
  Workers,   \* worker ids
  Backend,   \* what create_lock answers: "gcs", "s3" or "local"
  NoLease    \* the lock file does not exist

Lease == [owner : Workers, fresh : BOOLEAN]
Threads == {"main", "heartbeat"}

ASSUME LockAssumption ==
  /\ Backend \in {"gcs", "s3", "local"}
  /\ NoLease \notin Lease

VARIABLES
  lease,   \* the lock file
  known    \* the generation each thread has read: "none" | "absent" | "current" | "replaced"

lockVars == <<lease, known>>

LockInit ==
  /\ lease = NoLease
  /\ known = [w \in Workers |-> [t \in Threads |-> "none"]]

Active == lease # NoLease /\ lease.fresh
HeldBy(w) == lease # NoLease /\ lease.owner = w

\* S3Lease keeps the etag of the last read in the object, not in the thread.
ReadersOf(t) == IF Backend = "s3" THEN Threads ELSE {t}

\* _read_with_generation by thread t of w.
Reads(w, t) ==
  /\ known' = [known EXCEPT ![w] =
       [u \in Threads |-> IF u \notin ReadersOf(t) THEN known[w][u]
                          ELSE IF lease = NoLease THEN "absent" ELSE "current"]]
  /\ UNCHANGED lease

\* Every write and every delete gives the object another generation.
Supersede(k) == [w \in Workers |-> [t \in Threads |->
                   IF k[w][t] = "current" THEN "replaced" ELSE k[w][t]]]

\* Bug: the write does not carry if_generation_match.
WriteAlwaysMatches(w, t) == TRUE

\* The precondition of _write.
WriteMatches(w, t) ==
  IF Backend = "local"
  THEN ~Active \/ HeldBy(w)
  ELSE \/ known[w][t] = "absent" /\ lease = NoLease
       \/ known[w][t] = "current"

Writes(w, t) ==
  /\ lease' = [owner |-> w, fresh |-> TRUE]
  /\ known' = Supersede(known)

(* try_acquire                                                             *)

AcquireBlocked(w) == Active /\ ~HeldBy(w) /\ UNCHANGED lockVars

AcquireAlreadyHeld(w) == Active /\ HeldBy(w) /\ UNCHANGED lockVars

\* Bug: a lease of another worker is taken over without asking is_stale.
AcquireReadsIgnoresFreshness(w) == ~(Active /\ HeldBy(w)) /\ Reads(w, "main")

AcquireReads(w) == ~Active /\ Reads(w, "main")

AcquireWrites(w) == WriteMatches(w, "main") /\ Writes(w, "main")

\* S3 answers an If-Match write with 404 when the object has been deleted since it
\* was read; _write passes that on and try_acquire does not catch it.
DeletedSince(w) == Backend = "s3" /\ lease = NoLease /\ known[w]["main"] # "absent"

AcquireRaced(w) == ~WriteMatches(w, "main") /\ ~DeletedSince(w) /\ UNCHANGED lockVars

AcquireRaises(w) == ~WriteMatches(w, "main") /\ DeletedSince(w) /\ UNCHANGED lockVars

(* refresh                                                                 *)

RefreshReads(w) == HeldBy(w) /\ Reads(w, "heartbeat")

RefreshFindsLost(w) == ~HeldBy(w) /\ UNCHANGED lockVars

\* S3: an absent etag under a generation of 1 fails the assertion of _write.
RefreshWrites(w) ==
  /\ WriteMatches(w, "heartbeat")
  /\ ~(Backend = "s3" /\ known[w]["heartbeat"] = "absent")
  /\ Writes(w, "heartbeat")

RefreshRaises(w) ==
  /\ \/ ~WriteMatches(w, "heartbeat")
     \/ Backend = "s3" /\ known[w]["heartbeat"] = "absent"
  /\ UNCHANGED lockVars

(* release                                                                 *)

ReleaseReads(w) == HeldBy(w) /\ Reads(w, "main")

ReleaseFindsOther(w) == ~HeldBy(w) /\ Reads(w, "main")

\* Bug: the release blanks the lock file and does not delete it.
ReleaseBlanks(w) ==
  /\ lease' = [owner |-> NoLease, fresh |-> FALSE]
  /\ known' = Supersede(known)

\* _delete has no precondition.
ReleaseDeletes(w) ==
  /\ lease' = NoLease
  /\ known' = Supersede(known)

LockTypeOK ==
  /\ lease \in Lease \cup {NoLease}
  /\ known \in [Workers -> [Threads -> {"none", "absent", "current", "replaced"}]]
=============================================================================
