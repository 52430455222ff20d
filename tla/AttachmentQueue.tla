--------------------------- MODULE AttachmentQueue ---------------------------
(***************************************************************************)
(* The Redis job queue of the attachment pipeline (RedisAttachmentQueue in *)
(* runtime_api/app/attachments/queue.py).  Each operator below is ONE      *)
(* Redis command, or the run of commands of one method between which no    *)
(* other client can tell the difference; the methods that are not atomic   *)
(* (claim, recover_expired, enqueue) are put together step by step by the  *)
(* processes of module Attachments, so that another worker, or a crash,    *)
(* can come between their commands.                                        *)
(*                                                                         *)
(* A job is <<attachment, processing version>> (QueueItem).  The two       *)
(* seven-day TTLs of the "known" and "done" keys are longer than anything  *)
(* modelled here and never run out.                                        *)
(***************************************************************************)
EXTENDS Naturals, SequencesExt

CONSTANTS
  Atts,         \* attachment ids
  MaxVersion,   \* bound: version 1 is the upload's, each user retry adds one
  Workers,      \* attachment worker processes
  NoWorker      \* "nobody", the owner recorded in an absent lease

ASSUME QueueAssumption ==
  /\ MaxVersion \in Nat \ {0}
  /\ NoWorker \notin Workers

VARIABLES
  pending,      \* the list nomi:attachments:pending
  inflight,     \* the list nomi:attachments:inflight
  lease,        \* the hash nomi:attachments:leases
  known,        \* jobs with a key nomi:attachments:known:<job>
  done          \* jobs with a key nomi:attachments:done:<job>

queueVars == <<pending, inflight, lease, known, done>>

Versions == 1..MaxVersion
Jobs == Atts \X Versions

NoLease == [owner |-> NoWorker, live |-> FALSE]
Leases == [owner : Workers \cup {NoWorker}, live : BOOLEAN]

QueueTypeOK ==
  /\ pending \in Seq(Jobs)
  /\ inflight \in Seq(Jobs)
  /\ lease \in [Jobs -> Leases]
  /\ known \subseteq Jobs
  /\ done \subseteq Jobs

QueueInit ==
  /\ pending = <<>>
  /\ inflight = <<>>
  /\ lease = [j \in Jobs |-> NoLease]
  /\ known = {}
  /\ done = {}

-----------------------------------------------------------------------------
(* enqueue *)

\* enqueue returns False: the job is done, or SET known NX finds the key.
IsDuplicate(j) == j \in done \/ j \in known

\* SET known NX
AcquireKnown(j) ==
  /\ ~IsDuplicate(j)
  /\ known' = known \cup {j}
  /\ UNCHANGED <<pending, inflight, lease, done>>

\* RPUSH to the pending list
PushPending(j) ==
  /\ pending' = Append(pending, j)
  /\ UNCHANGED <<inflight, lease, known, done>>

\* RPUSH raised: the known key is deleted and the exception goes on.  The
\* command may all the same have reached Redis before its reply was lost.
PushRaised(j, applied) ==
  /\ pending' = IF applied THEN Append(pending, j) ELSE pending
  /\ known' = known \ {j}
  /\ UNCHANGED <<inflight, lease, done>>

-----------------------------------------------------------------------------
(* claim: LMOVE, then HSET of the lease *)

\* Mutant: LPOP.
MovePops ==
  /\ pending # <<>>
  /\ pending' = Tail(pending)
  /\ UNCHANGED <<inflight, lease, known, done>>

MoveToInflight ==
  /\ pending # <<>>
  /\ pending' = Tail(pending)
  /\ inflight' = Append(inflight, Head(pending))
  /\ UNCHANGED <<lease, known, done>>

SetLease(j, w) ==
  /\ lease' = [lease EXCEPT ![j] = [owner |-> w, live |-> TRUE]]
  /\ UNCHANGED <<pending, inflight, known, done>>

-----------------------------------------------------------------------------
(* ack: HGET, and only the owner of the lease goes on to LREM, HDEL, DEL   *)
(* known and SET done                                                      *)

OwnsLease(j, w) == lease[j].owner = w

\* Mutant: the known key is not deleted.
AcknowledgeKeepsKnown(j) ==
  /\ inflight' = RemoveFirst(inflight, j)
  /\ lease' = [lease EXCEPT ![j] = NoLease]
  /\ done' = done \cup {j}
  /\ UNCHANGED <<pending, known>>

Acknowledge(j) ==
  /\ inflight' = RemoveFirst(inflight, j)
  /\ lease' = [lease EXCEPT ![j] = NoLease]
  /\ known' = known \ {j}
  /\ done' = done \cup {j}
  /\ UNCHANGED pending

-----------------------------------------------------------------------------
(* recover_expired: LRANGE of the inflight list; for each job without a    *)
(* running lease LREM and HDEL, then RPUSH                                 *)

LeaseRunning(j) == lease[j].live

DropInflight(j) ==
  /\ inflight' = RemoveFirst(inflight, j)
  /\ lease' = [lease EXCEPT ![j] = NoLease]
  /\ UNCHANGED <<pending, known, done>>

\* The clock passes the expires_at of a lease.
LeaseExpires(j) ==
  /\ lease[j].live
  /\ lease' = [lease EXCEPT ![j].live = FALSE]
  /\ UNCHANGED <<pending, inflight, known, done>>
=============================================================================
