-------------------------- MODULE AttachmentsProofs --------------------------
(***************************************************************************)
(* The attachment pipeline, for any number of attachments and workers, any *)
(* versions and any faults: types, and the safety of rows in use.          *)
(*                                                                         *)
(* TypeOK is not inductive alone: the job a worker pushes or leases must   *)
(* be one (not NoJob), and a retry must not run past the last version.     *)
(* TypeInv adds these two facts.                                           *)
(*                                                                         *)
(* The original of a live row stays on disk, a ready row has the result of *)
(* its version, what is sent stays bound.  None of the three is inductive. *)
(* SafeInv adds why they hold: until its upload has stored a row nobody    *)
(* else works on it (UploadInv, ParseInv), the files that are unlinked     *)
(* belong to rows marked deleted before (DeleteInv), to removed rows       *)
(* (RowsInv) or to a worker's own parse (OwnInv).                          *)
(*                                                                         *)
(* Each lemma about a step shows that the actions of one part of Next      *)
(* preserve the invariant.                                                 *)
(***************************************************************************)
EXTENDS Attachments, FiniteSetTheorems, SequenceTheorems, TLAPS

-----------------------------------------------------------------------------
(* What LREM (RemoveFirst of SequencesExt) preserves.                       *)

(* A non-empty set of positions has a least one, and Min finds it.  Initial *)
(* segments are ordered by strict inclusion, which is well-founded.          *)
LEMMA MinOfNat ==
  ASSUME NEW n \in Nat, NEW I \in SUBSET (1..n), I # {}
  PROVE  Min(I) \in I
<1>. DEFINE R == StrictSubsetOrdering(Nat)
            T == {1..i : i \in I}
<1>1. T \subseteq FiniteSubsetsOf(Nat)
  <2>1. \A i \in I : 1..i \subseteq Nat /\ IsFiniteSet(1..i)
    BY FS_Interval
  <2>. QED BY <2>1 DEF FiniteSubsetsOf
<1>2. PICK t \in T : \A u \in T : ~(<<u, t>> \in R)
  <2>1. IsWellFoundedOn(R, FiniteSubsetsOf(Nat))
    BY FS_StrictSubsetOrderingWellFounded
  <2>2. T # {}
    <3>1. PICK i \in I : TRUE
      OBVIOUS
    <3>2. 1..i \in T
      OBVIOUS
    <3>. QED BY <3>2
  <2>. HIDE DEF R, T
  <2>. QED BY <1>1, <2>1, <2>2, WFMin, Zenon
<1>3. PICK x \in I : t = 1..x
  BY <1>2
<1>4. ASSUME NEW y \in I PROVE x <= y
  <2>1. ~(<<1..y, 1..x>> \in R)
    BY <1>2, <1>3
  <2>2. SUFFICES ASSUME y < x PROVE FALSE
    OBVIOUS
  <2>3. 1..y \subseteq 1..x /\ x \in 1..x /\ x \notin 1..y
    BY <2>2
  <2>. QED BY <2>1, <2>3 DEF StrictSubsetOrdering
<1>. QED BY <1>4 DEF Min

(* LREM keeps a list of jobs a list of jobs.                                *)
LEMMA RemoveFirstType ==
  ASSUME NEW S, NEW s \in Seq(S), NEW e
  PROVE  RemoveFirst(s, e) \in Seq(S)
<1>. DEFINE I == {i \in 1..Len(s) : s[i] = e}
<1>1. CASE I = {}
  BY <1>1 DEF RemoveFirst
<1>2. CASE I # {}
  <2>1. Len(s) \in Nat /\ I \subseteq 1..Len(s)
    BY LenProperties
  <2>2. Min(I) \in I
    BY <1>2, <2>1, MinOfNat, LenProperties
  <2>3. RemoveFirst(s, e) = SubSeq(s, 1, Min(I) - 1) \o SubSeq(s, Min(I) + 1, Len(s))
    BY <1>2 DEF RemoveFirst, RemoveAt, SelectInSeq
  <2>. HIDE DEF I
  <2>. DEFINE m == Min(I)
  <2>4. m \in 1..Len(s)
    BY <2>2 DEF I
  <2>5. SubSeq(s, 1, m - 1) \in Seq(S) /\ SubSeq(s, m + 1, Len(s)) \in Seq(S)
    <3>1. \A i \in 1..Len(s) : s[i] \in S
      BY ElementOfSeq
    <3>. QED BY <2>1, <2>4, <3>1, SubSeqProperties
  <2>. QED BY <2>3, <2>5, ConcatProperties
<1>. QED BY <1>1, <1>2

-----------------------------------------------------------------------------

USE QueueAssumption, AttachmentAssumption

(* Every lease the queue writes is a lease.                                  *)
LEMMA NewLeases ==
  /\ NoLease \in Leases
  /\ \A w \in Workers : [owner |-> w, live |-> TRUE] \in Leases
  /\ \A l \in Leases : [l EXCEPT !.live = FALSE] \in Leases
  BY DEF NoLease, Leases

(* The original of an attachment is one of the files.                        *)
LEMMA OriginalIsFile ==
  ASSUME NEW a \in Atts PROVE Original(a) \in Files
  BY DEF Original, Files

(* So is a derivative.                                                       *)
LEMMA DerivativeIsFile ==
  ASSUME NEW a \in Atts, NEW v \in Versions, NEW n \in 0..MaxDerivatives
  PROVE  Derivative(a, v, n) \in Files
  BY DEF Derivative, Files, Versions

(* A job is an attachment and a version.                                     *)
LEMMA JobIsPair ==
  ASSUME NEW a \in Atts, NEW v \in Versions PROVE <<a, v>> \in Jobs
  BY DEF Jobs

(* What the handlers enqueue is a job.                                       *)
LEMMA EnqueuedIsJob ==
  ASSUME TypeOK, NEW h \in Handlers, NEW a \in Atts
  PROVE  <<a, EnqueuedVersion(h, a)>> \in Jobs
<1>1. EnqueuedVersion(h, a) \in Versions
  BY DEF TypeOK, EnqueuedVersion, Versions
<1>. QED BY <1>1, JobIsPair

(* A fault keeps the count of faults in its bound.                           *)
LEMMA FaultCounted ==
  ASSUME TypeOK, NEW kind, Fault(kind) PROVE faults' \in 0..MaxFaults
  BY DEF TypeOK, Fault

(* The invariant holds at the start.                                         *)
LEMMA InitType == Init => TypeInv
  BY EmptySeq DEF Init, QueueInit, TypeInv, TypeOK, QueueTypeOK, JobHeld, Holding, RetryBounded, Handlers, HandlerPC, WorkerPC,
     Versions, Leases, NoLease, Files, RowStatus

(* Preserved by the upload handler.                                          *)
LEMMA UploadType ==
  ASSUME TypeInv, NEW a \in Atts, UploadStep(a)
  PROVE  TypeInv'
<1>. USE DEF TypeInv, TypeOK, QueueTypeOK, JobHeld, Holding, RetryBounded, queueVars, rowVars, resultVars,
             apiVars, workerVars, HandlerAt, Update, WorkerAt, Handlers, HandlerPC,
             RowStatus, WorkerPC
<1>1. CASE CreateReceiving(a)
  BY <1>1 DEF CreateReceiving
<1>2. CASE WriteOriginal(a)
  BY <1>2, OriginalIsFile DEF WriteOriginal
<1>3. CASE RejectUpload(a)
  BY <1>3 DEF RejectUpload, MarkRejected
<1>4. CASE UnlinkRejected(a)
  BY <1>4 DEF UnlinkRejected
<1>5. CASE StoreOriginal(a)
  BY <1>5 DEF StoreOriginal, MarkStored
<1>. QED BY <1>1, <1>2, <1>3, <1>4, <1>5 DEF UploadStep

(* Preserved by the retry handler.                                           *)
LEMMA RetryType ==
  ASSUME TypeInv, NEW a \in Atts, RetryReads(a) \/ RetryStep(a)
  PROVE  TypeInv'
<1>. USE DEF TypeInv, TypeOK, QueueTypeOK, JobHeld, Holding, RetryBounded, queueVars, rowVars, resultVars,
             apiVars, workerVars, HandlerAt, Update, WorkerAt, Handlers, HandlerPC,
             RowStatus, WorkerPC
<1>1. CASE RetryReads(a)
  BY <1>1 DEF RetryReads
<1>2. CASE PrepareRetry(a)
  <2>1. rver[a] + 1 \in Versions
    BY <1>2 DEF PrepareRetry, Versions
  <2>. QED BY <1>2, <2>1 DEF PrepareRetry
<1>3. CASE RetryRefused(a)
  BY <1>3 DEF RetryRefused
<1>. QED BY <1>1, <1>2, <1>3 DEF RetryStep

(* Preserved by the enqueueing of a job.                                     *)
LEMMA EnqueueType ==
  ASSUME TypeInv, NEW h \in Handlers, NEW a \in Atts, EnqueueStep(h, a)
  PROVE  TypeInv'
<1>. USE DEF TypeInv, TypeOK, QueueTypeOK, JobHeld, Holding, RetryBounded, queueVars, rowVars, resultVars,
             apiVars, workerVars, HandlerAt, Update, WorkerAt, Handlers, HandlerPC,
             RowStatus, WorkerPC
<1>1. CASE EnqueueAcquires(h, a)
  BY <1>1, EnqueuedIsJob DEF EnqueueAcquires, AcquireKnown
<1>2. CASE EnqueuePushes(h, a)
  BY <1>2, EnqueuedIsJob DEF EnqueuePushes, Finished, PushPending
<1>3. CASE EnqueueFailed(h, a)
  <2>1. Finished(h) \in {"done", "none"}
    BY DEF Finished
  <2>2. CASE Exists(a)
    <3>1. status' = [status EXCEPT ![a] = "failed"] /\ UNCHANGED <<life, ver, path, gone, expired>>
      BY <1>3, <2>2 DEF EnqueueFailed, MarkFailed
    <3>2. HandlerAt(h, a, "unqueued", Finished(h))
      BY <1>3 DEF EnqueueFailed
    <3>. QED BY <1>3, <2>1, <3>1, <3>2 DEF EnqueueFailed
  <2>3. CASE ~Exists(a)
    BY <1>3, <2>1, <2>3 DEF EnqueueFailed
  <2>. QED BY <2>2, <2>3
<1>. QED BY <1>1, <1>2, <1>3 DEF EnqueueStep

(* Preserved by the DELETE handler.                                          *)
LEMMA DeleteType ==
  ASSUME TypeInv, NEW a \in Atts, DeleteReads(a) \/ DeleteStep(a)
  PROVE  TypeInv'
<1>. USE DEF TypeInv, TypeOK, QueueTypeOK, JobHeld, Holding, RetryBounded, queueVars, rowVars, resultVars,
             apiVars, workerVars, HandlerAt, Update, WorkerAt, Handlers, HandlerPC,
             RowStatus, WorkerPC
<1>1. CASE DeleteReads(a)
  BY <1>1 DEF DeleteReads, DeleteAt
<1>2. CASE DeleteMarks(a)
  BY <1>2 DEF DeleteMarks, DeleteAt, MarkLifecycleDeleted
<1>3. CASE DeleteRefused(a)
  BY <1>3 DEF DeleteRefused, DeleteAt
<1>4. CASE DeleteUnlinks(a)
  BY <1>4 DEF DeleteUnlinks, DeleteAt
<1>5. CASE DeleteCompletes(a)
  BY <1>5 DEF DeleteCompletes, CompleteDeleted, DeleteAt
<1>. QED BY <1>1, <1>2, <1>3, <1>4, <1>5 DEF DeleteStep

(* Preserved by a submission and a conversation delete.                      *)
LEMMA SubmitType ==
  ASSUME TypeInv, NEW S \in SUBSET Atts, SubmitLocks(S) \/ SubmitEnds \/ DeleteConversation(S)
  PROVE  TypeInv'
<1>. USE DEF TypeInv, TypeOK, QueueTypeOK, JobHeld, Holding, RetryBounded, queueVars, rowVars, resultVars,
             apiVars, workerVars, HandlerAt, Update, WorkerAt, Handlers, HandlerPC,
             RowStatus, WorkerPC
<1>1. CASE SubmitLocks(S)
  BY <1>1 DEF SubmitLocks
<1>2. CASE SubmitBinds
  BY <1>2 DEF SubmitBinds
<1>3. CASE SubmitRollsBack
  BY <1>3 DEF SubmitRollsBack
<1>4. CASE DeleteConversation(S)
  BY <1>4 DEF DeleteConversation
<1>. QED BY <1>1, <1>2, <1>3, <1>4 DEF SubmitEnds

(* Preserved by queue recovery.                                              *)
LEMMA RecoverType ==
  ASSUME TypeInv, NEW w \in Workers, RecoverStep(w)
  PROVE  TypeInv'
<1>. USE DEF TypeInv, TypeOK, QueueTypeOK, JobHeld, Holding, RetryBounded, queueVars, rowVars, resultVars,
             apiVars, workerVars, HandlerAt, Update, WorkerAt, Handlers, HandlerPC,
             RowStatus, WorkerPC
<1>1. CASE RecoverLists(w)
  BY <1>1 DEF RecoverLists
<1>2. CASE RecoverLooks(w)
  BY <1>2 DEF RecoverLooks
<1>3. CASE RecoverDrops(w)
  BY <1>3, RemoveFirstType, NewLeases DEF RecoverDrops, DropInflight
<1>4. CASE RecoverPushes(w)
  BY <1>4 DEF RecoverPushes, PushPending
<1>5. CASE SkipCleanup(w)
  BY <1>5 DEF SkipCleanup
<1>. QED BY <1>1, <1>2, <1>3, <1>4, <1>5 DEF RecoverStep

(* Preserved by the two cleaners.                                            *)
LEMMA CleanType ==
  ASSUME TypeInv, NEW w \in Workers, CleanStep(w)
  PROVE  TypeInv'
<1>. USE DEF TypeInv, TypeOK, QueueTypeOK, JobHeld, Holding, RetryBounded, queueVars, rowVars, resultVars,
             apiVars, workerVars, HandlerAt, Update, WorkerAt, Handlers, HandlerPC,
             RowStatus, WorkerPC
<1>1. CASE CleanupLists(w)
  BY <1>1 DEF CleanupLists
<1>2. ASSUME NEW a \in Atts, CleanerMarks(w, a) PROVE TypeInv'
  <2>. DEFINE left == cand[w] \ {a}
  <2>1. cand' = [cand EXCEPT ![w] = left] /\ left \subseteq Atts
    BY <1>2 DEF CleanerMarks
  <2>. HIDE DEF left
  <2>2. CASE wpc' = [wpc EXCEPT ![w] = "marked"] /\ target' = [target EXCEPT ![w] = a]
             /\ MarkLifecycleDeleted(a)
    BY <1>2, <2>1, <2>2 DEF CleanerMarks, MarkLifecycleDeleted
  <2>3. CASE wpc' = [wpc EXCEPT ![w] = "cleaning"] /\ UNCHANGED <<rowVars, target>>
    BY <1>2, <2>1, <2>3 DEF CleanerMarks
  <2>. QED BY <1>2, <2>2, <2>3 DEF CleanerMarks
<1>3. CASE CleanerUnlinks(w)
  BY <1>3 DEF CleanerUnlinks
<1>4. CASE CleanerCompletes(w)
  BY <1>4 DEF CleanerCompletes, CompleteDeleted
<1>5. CASE CleanerRaises(w)
  BY <1>5 DEF CleanerRaises, Restarts
<1>6. CASE CleanupEnds(w)
  BY <1>6 DEF CleanupEnds
<1>7. ASSUME NEW f \in Files, OutboxClaims(w, f) PROVE TypeInv'
  BY <1>7 DEF OutboxClaims
<1>8. CASE OutboxUnlinks(w)
  BY <1>8 DEF OutboxUnlinks
<1>9. CASE OutboxCompletes(w)
  BY <1>9 DEF OutboxCompletes, SettleOutbox
<1>10. CASE SweepEnds(w)
  BY <1>10 DEF SweepEnds
<1>. QED BY <1>1, <1>2, <1>3, <1>4, <1>5, <1>6, <1>7, <1>8, <1>9, <1>10 DEF CleanStep

(* Preserved by a claim and an acknowledgement.                              *)
LEMMA ClaimType ==
  ASSUME TypeInv, NEW w \in Workers, ClaimNothing(w) \/ ClaimMoves(w) \/ ClaimLeases(w) \/ ParseFails(w) \/ AckChecks(w) \/ AckClears(w)
  PROVE  TypeInv'
<1>. USE DEF TypeInv, TypeOK, QueueTypeOK, JobHeld, Holding, RetryBounded, queueVars, rowVars, resultVars,
             apiVars, workerVars, HandlerAt, Update, WorkerAt, Handlers, HandlerPC,
             RowStatus, WorkerPC
<1>1. CASE ClaimNothing(w)
  BY <1>1 DEF ClaimNothing
<1>2. CASE ClaimMoves(w)
  BY <1>2 DEF ClaimMoves, MoveToInflight
<1>3. CASE ClaimLeases(w)
  BY <1>3, NewLeases DEF ClaimLeases, SetLease
<1>4. CASE ParseFails(w)
  BY <1>4 DEF ParseFails
<1>5. CASE AckChecks(w)
  BY <1>5 DEF AckChecks
<1>6. CASE AckClears(w)
  BY <1>6, RemoveFirstType, NewLeases DEF AckClears, Acknowledge
<1>. QED BY <1>1, <1>2, <1>3, <1>4, <1>5, <1>6

(* Preserved by the processing of a job.                                     *)
LEMMA JobType ==
  ASSUME TypeInv, NEW w \in Workers, NEW a \in Atts, NEW v \in Versions, JobStep(w, a, v)
  PROVE  TypeInv'
<1>. USE DEF TypeInv, TypeOK, QueueTypeOK, JobHeld, Holding, RetryBounded, queueVars, rowVars, resultVars,
             apiVars, workerVars, HandlerAt, Update, WorkerAt, Handlers, HandlerPC,
             RowStatus, WorkerPC
<1>1. CASE StartProcessing(w, a, v)
  BY <1>1 DEF StartProcessing
<1>2. CASE SkipJob(w, a, v)
  BY <1>2 DEF SkipJob
<1>3. CASE ParseRejects(w, a, v)
  BY <1>3 DEF ParseRejects, MarkRejected
<1>4. CASE Materializes(w, a, v)
  <2>. DEFINE d == Derivative(a, v, made + 1)
  <2>1. CASE UNCHANGED <<files, own, made>>
    BY <1>4, <2>1 DEF Materializes
  <2>2. CASE /\ made < MaxDerivatives /\ made' = made + 1
             /\ files' = files \cup {d} /\ own' = [own EXCEPT ![w] = {d}]
    <3>1. made + 1 \in 0..MaxDerivatives
      BY <2>2
    <3>2. d \in Files
      BY <3>1, DerivativeIsFile
    <3>. HIDE DEF d
    <3>. QED BY <1>4, <2>2, <3>1, <3>2 DEF Materializes
  <2>. QED BY <1>4, <2>1, <2>2 DEF Materializes
<1>5. CASE Persists(w, a, v)
  BY <1>5, JobIsPair DEF Persists, CommitResult
<1>6. CASE PersistRaises(w, a, v)
  BY <1>6 DEF PersistRaises
<1>7. CASE FailJob(w, a, v)
  BY <1>7 DEF FailJob, MarkFailed
<1>8. CASE RowVanished(w, a, v)
  BY <1>8 DEF RowVanished, Restarts
<1>. QED BY <1>1, <1>2, <1>3, <1>4, <1>5, <1>6, <1>7, <1>8 DEF JobStep

(* Preserved by the clock.                                                   *)
LEMMA ClockType ==
  ASSUME TypeInv, ClockStep
  PROVE  TypeInv'
<1>. USE DEF TypeInv, TypeOK, QueueTypeOK, JobHeld, Holding, RetryBounded, queueVars, rowVars, resultVars,
             apiVars, workerVars, HandlerAt, Update, WorkerAt, Handlers, HandlerPC,
             RowStatus, WorkerPC
<1>1. ASSUME NEW a \in Atts, DraftExpires(a) PROVE TypeInv'
  BY <1>1 DEF DraftExpires
<1>2. ASSUME NEW f \in Files, OutboxRowDue(f) PROVE TypeInv'
  BY <1>2 DEF OutboxRowDue
<1>3. ASSUME NEW j \in Jobs, LeaseTimesOut(j) PROVE TypeInv'
  BY <1>3, NewLeases DEF LeaseTimesOut, LeaseExpires
<1>. QED BY <1>1, <1>2, <1>3 DEF ClockStep

(* Preserved by a crash, a failing command or a lost reply.                  *)
LEMMA FaultType ==
  ASSUME TypeInv, FaultStep
  PROVE  TypeInv'
<1>. USE DEF TypeInv, TypeOK, QueueTypeOK, JobHeld, Holding, RetryBounded, queueVars, rowVars, resultVars,
             apiVars, workerVars, HandlerAt, Update, WorkerAt, Handlers, HandlerPC,
             RowStatus, WorkerPC
<1>1. ASSUME NEW a \in Atts, StorageFails(a) PROVE TypeInv'
  BY <1>1 DEF StorageFails, Fault, MarkFailed
<1>2. ASSUME NEW a \in Atts, DeleteUnlinkFails(a) PROVE TypeInv'
  BY <1>2 DEF DeleteUnlinkFails, DeleteAt, Fault
<1>3. ASSUME NEW h \in Handlers, NEW a \in Atts, EnqueueRaises(h, a) PROVE TypeInv'
  <2>. DEFINE j == <<a, EnqueuedVersion(h, a)>>
  <2>1. j \in Jobs
    BY EnqueuedIsJob
  <2>2. PICK applied \in BOOLEAN : PushRaised(j, applied)
    BY <1>3 DEF EnqueueRaises
  <2>3. faults' \in 0..MaxFaults
    BY <1>3, FaultCounted DEF EnqueueRaises
  <2>. HIDE DEF j
  <2>. QED BY <1>3, <2>1, <2>2, <2>3 DEF EnqueueRaises, PushRaised
<1>4. CASE ApiCrash
  BY <1>4 DEF ApiCrash, Fault, Finished
<1>5. ASSUME NEW w \in Workers, CleanerUnlinkFails(w) PROVE TypeInv'
  BY <1>5 DEF CleanerUnlinkFails, Fault
<1>6. ASSUME NEW w \in Workers, OutboxRetries(w) PROVE TypeInv'
  BY <1>6 DEF OutboxRetries, Fault, SettleOutbox
<1>7. ASSUME NEW w \in Workers, WorkerCrash(w) PROVE TypeInv'
  BY <1>7 DEF WorkerCrash, Fault, Restarts
<1>8. ASSUME NEW w \in Workers, NEW a \in Atts, NEW v \in Versions, MaterializeFails(w, a, v) PROVE TypeInv'
  BY <1>8, DerivativeIsFile DEF MaterializeFails, Fault
<1>9. ASSUME NEW w \in Workers, NEW a \in Atts, NEW v \in Versions, PersistUnanswered(w, a, v) PROVE TypeInv'
  BY <1>9, JobIsPair DEF PersistUnanswered, CommitResult, Fault
<1>. QED BY <1>1, <1>2, <1>3, <1>4, <1>5, <1>6, <1>7, <1>8, <1>9 DEF FaultStep

(* Every step preserves it.                                                 *)
LEMMA NextType ==
  ASSUME TypeInv, [Next]_vars
  PROVE  TypeInv'
<1>1. ASSUME NEW a \in Atts, UploadStep(a) PROVE TypeInv'
  BY <1>1, UploadType
<1>2. ASSUME NEW a \in Atts, RetryReads(a) \/ RetryStep(a) PROVE TypeInv'
  BY <1>2, RetryType
<1>3. ASSUME NEW h \in Handlers, NEW a \in Atts, EnqueueStep(h, a) PROVE TypeInv'
  BY <1>3, EnqueueType
<1>4. ASSUME NEW a \in Atts, DeleteReads(a) \/ DeleteStep(a) PROVE TypeInv'
  BY <1>4, DeleteType
<1>5. ASSUME NEW S \in SUBSET Atts, SubmitLocks(S) \/ DeleteConversation(S) PROVE TypeInv'
  BY <1>5, SubmitType
<1>6. CASE SubmitEnds
  BY <1>6, SubmitType
<1>7. ASSUME NEW w \in Workers, WorkerStep(w) PROVE TypeInv'
  <2>1. CASE RecoverStep(w)
    BY <2>1, RecoverType
  <2>2. CASE CleanStep(w)
    BY <2>2, CleanType
  <2>3. ASSUME NEW a \in Atts, NEW v \in Versions, JobStep(w, a, v) PROVE TypeInv'
    BY <2>3, JobType
  <2>4. CASE ClaimNothing(w) \/ ClaimMoves(w) \/ ClaimLeases(w) \/ ParseFails(w)
             \/ AckChecks(w) \/ AckClears(w)
    BY <2>4, ClaimType
  <2>. QED BY <1>7, <2>1, <2>2, <2>3, <2>4 DEF WorkerStep
<1>8. CASE ClockStep
  BY <1>8, ClockType
<1>9. CASE FaultStep
  BY <1>9, FaultType
<1>10. CASE UNCHANGED vars
  BY <1>10 DEF vars, TypeInv, TypeOK, QueueTypeOK, JobHeld, RetryBounded, queueVars, rowVars,
             resultVars, apiVars, workerVars
<1>. QED BY <1>1, <1>2, <1>3, <1>4, <1>5, <1>6, <1>7, <1>8, <1>9, <1>10 DEF Next

(* In every state the program reaches each variable has its type, a worker  *)
(* that handles a job holds one, and a retry stays within the versions.     *)
THEOREM TypeInvariant == Spec => []TypeInv
  BY InitType, NextType, PTL DEF Spec

(* In every state the program reaches each variable has its type.           *)
THEOREM TypeCorrect == Spec => []TypeOK
<1>1. TypeInv => TypeOK
  BY DEF TypeInv
<1>. QED BY <1>1, TypeInvariant, PTL
-----------------------------------------------------------------------------
(* The safety of rows in use.                                               *)


(* What a path says: its attachment, and whether it is the original's.       *)
LEMMA Parts ==
  /\ \A a \in Atts : Original(a)[1] = a /\ Original(a)[2] = 0 /\ Original(a) \in Files
  /\ \A a \in Atts, v \in Versions, n \in Nat :
       Derivative(a, v, n)[1] = a /\ Derivative(a, v, n)[2] # 0
  /\ \A f \in Files : f[1] \in Atts
  /\ \A j \in Jobs : j[1] \in Atts
<1>1. \A a \in Atts : Original(a)[1] = a /\ Original(a)[2] = 0 /\ Original(a) \in Files
  BY OriginalIsFile DEF Original
<1>2. \A a \in Atts, v \in Versions, n \in Nat :
        Derivative(a, v, n)[1] = a /\ Derivative(a, v, n)[2] # 0
  BY DEF Derivative, Versions
<1>3. \A f \in Files : f[1] \in Atts
  BY DEF Files
<1>4. \A j \in Jobs : j[1] \in Atts
  BY DEF Jobs
<1>. QED BY <1>1, <1>2, <1>3, <1>4

(* Originals differ from each other and from derivatives.                    *)
LEMMA OriginalDiffers ==
  /\ \A a, b \in Atts : Original(a) = Original(b) => a = b
  /\ \A a \in Atts : \A f : f[2] # 0 => f # Original(a)
  BY DEF Original

(* What a worker has materialized is no original.                            *)
LEMMA OwnNotOriginal ==
  ASSUME SafeInv, NEW w \in Workers, wpc[w] = "materialized", NEW a \in Atts
  PROVE  Original(a) \notin own[w]
  BY OriginalDiffers DEF SafeInv, OwnInv

(* The only original among the paths of a row is its own.                    *)
LEMMA PathsOf ==
  ASSUME SafeInv, NEW a \in Atts, NEW b \in Atts, Original(b) \in StoragePaths(a)
  PROVE  b = a /\ path[a]
<1>1. Original(b) \notin rows
  BY OriginalDiffers DEF SafeInv, RowsInv
<1>2. path[a] /\ Original(b) = Original(a)
  BY <1>1 DEF StoragePaths
<1>. QED BY <1>2, OriginalDiffers

(* The paths of a row are its own.                                           *)
LEMMA PathsOwner ==
  ASSUME NEW a \in Atts PROVE \A f \in StoragePaths(a) : f[1] = a
  BY DEF StoragePaths, Original, FilesOf

(* The invariant holds at the start.                                         *)
LEMMA InitSafe == Init => SafeInv
  BY DEF Init, SafeInv, UploadInv, DeleteInv, ParseInv, OwnInv, RowsInv, AttachedHasPath,
         OriginalKept, ReadyHasResult, Early, Handlers, Exists, RowStatus

(* Preserved by the upload handler.                                          *)
LEMMA UploadSafe ==
  ASSUME TypeInv, SafeInv, NEW a \in Atts, UploadStep(a)
  PROVE  SafeInv'
<1>. USE DEF TypeInv, TypeOK, JobHeld, Holding, SafeInv, UploadInv, DeleteInv, ParseInv, OwnInv,
             RowsInv, AttachedHasPath, OriginalKept, ReadyHasResult, Early, queueVars,
             rowVars, resultVars, apiVars, workerVars, HandlerAt, DeleteAt, Update, Handlers,
             WorkerAt, Exists, RowStatus
<1>1. CASE CreateReceiving(a)
  BY <1>1, Parts DEF CreateReceiving
<1>2. CASE WriteOriginal(a)
  BY <1>2, Parts DEF WriteOriginal
<1>3. CASE RejectUpload(a)
  <2>a. status[a] # "removed" /\ status' = [status EXCEPT ![a] = "rejected"]
    BY <1>3 DEF RejectUpload, MarkRejected
  <2>1. UploadInv'
    BY <1>3, Parts DEF RejectUpload, MarkRejected
  <2>2. DeleteInv' /\ ParseInv'
    BY <1>3, Parts DEF RejectUpload, MarkRejected
  <2>3. OwnInv'
    BY <1>3, Parts DEF RejectUpload, MarkRejected
  <2>4. RowsInv' /\ AttachedHasPath'
    <3>1. ASSUME NEW f \in Files, outbox'[f] # "none" PROVE status'[f[1]] = "removed"
      BY <1>3, <2>a, <3>1, Parts DEF RejectUpload, MarkRejected
    <3>2. \A f \in rows' : f[2] # 0
      BY <1>3 DEF RejectUpload, MarkRejected
    <3>3. AttachedHasPath'
      BY <1>3 DEF RejectUpload, MarkRejected
    <3>. QED BY <3>1, <3>2, <3>3
  <2>5. OriginalKept'
    BY <1>3, Parts DEF RejectUpload, MarkRejected
  <2>6. ReadyHasResult'
    BY <1>3, Parts DEF RejectUpload, MarkRejected
  <2>. QED BY <2>1, <2>2, <2>3, <2>4, <2>5, <2>6
<1>4. CASE UnlinkRejected(a)
  <2>a. /\ files' = files \ {Original(a)} /\ ~path[a]
       /\ \A b \in Atts \ {a} : Original(b) # Original(a)
    <3>1. files' = files \ {Original(a)} /\ hpc["upload"][a] = "written"
      BY <1>4 DEF UnlinkRejected
    <3>2. ~path[a]
      BY <3>1
    <3>3. \A b \in Atts \ {a} : Original(b) # Original(a)
      BY OriginalDiffers
    <3>. QED BY <3>1, <3>2, <3>3
  <2>1. UploadInv'
    <3>. SUFFICES ASSUME NEW b \in Atts
                  PROVE  /\ Early(b)' => /\ (status[b] \in {"none", "receiving"})' /\ ~path[b]'
                                          /\ (hpc["retry"][b] = "none")'
                         /\ (hpc["upload"][b] = "written")' => Original(b) \in files'
      BY DEF UploadInv
    <3>. QED BY <1>4, <2>a, Parts DEF UnlinkRejected
  <2>2. DeleteInv' /\ ParseInv'
    BY <1>4, Parts DEF UnlinkRejected
  <2>3. OwnInv'
    BY <1>4, Parts DEF UnlinkRejected
  <2>4. RowsInv' /\ AttachedHasPath'
    BY <1>4, Parts DEF UnlinkRejected
  <2>5. OriginalKept'
    <3>. SUFFICES ASSUME NEW b \in Atts, Exists(b)', life'[b] # "deleted", path'[b]
                  PROVE  Original(b) \in files'
      BY DEF OriginalKept
    <3>. QED BY <1>4, <2>a, Parts DEF UnlinkRejected
  <2>6. ReadyHasResult'
    BY <1>4, Parts DEF UnlinkRejected
  <2>. QED BY <2>1, <2>2, <2>3, <2>4, <2>5, <2>6
<1>5. CASE StoreOriginal(a)
  <2>a. status[a] # "removed" /\ status' = [status EXCEPT ![a] = "stored"]
    BY <1>5 DEF StoreOriginal, MarkStored
  <2>1. UploadInv'
    BY <1>5, Parts DEF StoreOriginal, MarkStored
  <2>2. DeleteInv' /\ ParseInv'
    BY <1>5, Parts DEF StoreOriginal, MarkStored
  <2>3. OwnInv'
    BY <1>5, Parts DEF StoreOriginal, MarkStored
  <2>4. RowsInv' /\ AttachedHasPath'
    <3>1. ASSUME NEW f \in Files, outbox'[f] # "none" PROVE status'[f[1]] = "removed"
      BY <1>5, <2>a, <3>1, Parts DEF StoreOriginal, MarkStored
    <3>2. \A f \in rows' : f[2] # 0
      BY <1>5 DEF StoreOriginal, MarkStored
    <3>3. AttachedHasPath'
      BY <1>5 DEF StoreOriginal, MarkStored
    <3>. QED BY <3>1, <3>2, <3>3
  <2>5. OriginalKept'
    BY <1>5, Parts DEF StoreOriginal, MarkStored
  <2>6. ReadyHasResult'
    BY <1>5, Parts DEF StoreOriginal, MarkStored
  <2>. QED BY <2>1, <2>2, <2>3, <2>4, <2>5, <2>6
<1>. QED BY <1>1, <1>2, <1>3, <1>4, <1>5 DEF UploadStep

(* Preserved by the retry handler.                                           *)
LEMMA RetrySafe ==
  ASSUME TypeInv, SafeInv, NEW a \in Atts, RetryReads(a) \/ RetryStep(a)
  PROVE  SafeInv'
<1>. USE DEF TypeInv, TypeOK, JobHeld, Holding, SafeInv, UploadInv, DeleteInv, ParseInv, OwnInv,
             RowsInv, AttachedHasPath, OriginalKept, ReadyHasResult, Early, queueVars,
             rowVars, resultVars, apiVars, workerVars, HandlerAt, DeleteAt, Update, Handlers,
             WorkerAt, Exists, RowStatus
<1>1. CASE RetryReads(a)
  BY <1>1, Parts DEF RetryReads
<1>2. CASE PrepareRetry(a)
  BY <1>2, Parts DEF PrepareRetry, Retryable
<1>3. CASE RetryRefused(a)
  BY <1>3, Parts DEF RetryRefused, Retryable
<1>. QED BY <1>1, <1>2, <1>3 DEF RetryStep

(* Preserved by the enqueueing of a job.                                     *)
LEMMA EnqueueSafe ==
  ASSUME TypeInv, SafeInv, NEW h \in Handlers, NEW a \in Atts, EnqueueStep(h, a)
  PROVE  SafeInv'
<1>. USE DEF TypeInv, TypeOK, JobHeld, Holding, SafeInv, UploadInv, DeleteInv, ParseInv, OwnInv,
             RowsInv, AttachedHasPath, OriginalKept, ReadyHasResult, Early, queueVars,
             rowVars, resultVars, apiVars, workerVars, HandlerAt, DeleteAt, Update, Handlers,
             WorkerAt, Exists, RowStatus
<1>1. CASE EnqueueAcquires(h, a)
  BY <1>1, Parts DEF EnqueueAcquires, AcquireKnown
<1>2. CASE EnqueuePushes(h, a)
  BY <1>2, Parts DEF EnqueuePushes, Finished, PushPending
<1>3. CASE EnqueueFailed(h, a)
  BY <1>3, Parts DEF EnqueueFailed, Exists, Finished, MarkFailed
<1>. QED BY <1>1, <1>2, <1>3 DEF EnqueueStep

(* Preserved by the DELETE handler.                                          *)
LEMMA DeleteSafe ==
  ASSUME TypeInv, SafeInv, NEW a \in Atts, DeleteReads(a) \/ DeleteStep(a)
  PROVE  SafeInv'
<1>. USE DEF TypeInv, TypeOK, JobHeld, Holding, SafeInv, UploadInv, DeleteInv, ParseInv, OwnInv,
             RowsInv, AttachedHasPath, OriginalKept, ReadyHasResult, Early, queueVars,
             rowVars, resultVars, apiVars, workerVars, HandlerAt, DeleteAt, Update, Handlers,
             WorkerAt, Exists, RowStatus
<1>1. CASE DeleteReads(a)
  BY <1>1, Parts DEF DeleteReads, DeleteAt, Exists
<1>2. CASE DeleteMarks(a)
  BY <1>2, Parts DEF DeleteMarks, Deletable, DeleteAt, Exists, MarkLifecycleDeleted
<1>3. CASE DeleteRefused(a)
  BY <1>3, Parts DEF DeleteRefused, Deletable, DeleteAt, Exists
<1>4. CASE DeleteUnlinks(a)
  <2>a. /\ files' = files \ StoragePaths(a) /\ life[a] = "deleted"
       /\ \A b \in Atts : Original(b) \in StoragePaths(a) => b = a /\ path[a]
    <3>1. files' = files \ StoragePaths(a) /\ dpc[a] = "marked"
      BY <1>4 DEF DeleteUnlinks
    <3>2. life[a] = "deleted"
      BY <3>1
    <3>. QED BY <3>1, <3>2, PathsOf
  <2>1. UploadInv'
    <3>. SUFFICES ASSUME NEW b \in Atts
                  PROVE  /\ Early(b)' => /\ (status[b] \in {"none", "receiving"})' /\ ~path[b]'
                                          /\ (hpc["retry"][b] = "none")'
                         /\ (hpc["upload"][b] = "written")' => Original(b) \in files'
      BY DEF UploadInv
    <3>. QED BY <1>4, <2>a, Parts DEF DeleteUnlinks
  <2>2. DeleteInv' /\ ParseInv'
    BY <1>4, Parts DEF DeleteUnlinks
  <2>3. OwnInv'
    BY <1>4, Parts DEF DeleteUnlinks
  <2>4. RowsInv' /\ AttachedHasPath'
    BY <1>4, Parts DEF DeleteUnlinks
  <2>5. OriginalKept'
    <3>. SUFFICES ASSUME NEW b \in Atts, Exists(b)', life'[b] # "deleted", path'[b]
                  PROVE  Original(b) \in files'
      BY DEF OriginalKept
    <3>. QED BY <1>4, <2>a, Parts DEF DeleteUnlinks
  <2>6. ReadyHasResult'
    BY <1>4, Parts DEF DeleteUnlinks
  <2>. QED BY <2>1, <2>2, <2>3, <2>4, <2>5, <2>6
<1>5. CASE DeleteCompletes(a)
  BY <1>5, Parts DEF DeleteCompletes, Completable, CompleteDeleted, DeleteAt, Exists
<1>. QED BY <1>1, <1>2, <1>3, <1>4, <1>5 DEF DeleteStep

(* Preserved by a submission and a conversation delete.                      *)
LEMMA SubmitSafe ==
  ASSUME TypeInv, SafeInv, NEW S \in SUBSET Atts, SubmitLocks(S) \/ SubmitEnds \/ DeleteConversation(S)
  PROVE  SafeInv'
<1>. USE DEF TypeInv, TypeOK, JobHeld, Holding, SafeInv, UploadInv, DeleteInv, ParseInv, OwnInv,
             RowsInv, AttachedHasPath, OriginalKept, ReadyHasResult, Early, queueVars,
             rowVars, resultVars, apiVars, workerVars, HandlerAt, DeleteAt, Update, Handlers,
             WorkerAt, Exists, RowStatus
<1>1. CASE SubmitLocks(S)
  BY <1>1, Parts DEF SubmitLocks, Exists
<1>2. CASE SubmitBinds
  <2>1. UploadInv'
    BY <1>2, Parts DEF SubmitBinds, Submittable
  <2>2. DeleteInv' /\ ParseInv'
    BY <1>2, Parts DEF SubmitBinds, Submittable
  <2>3. OwnInv'
    BY <1>2, Parts DEF SubmitBinds, Submittable
  <2>4. RowsInv' /\ AttachedHasPath'
    BY <1>2, Parts DEF SubmitBinds, Submittable
  <2>5. OriginalKept'
    BY <1>2, Parts DEF SubmitBinds, Submittable
  <2>6. ReadyHasResult'
    BY <1>2, Parts DEF SubmitBinds, Submittable
  <2>. QED BY <2>1, <2>2, <2>3, <2>4, <2>5, <2>6
<1>3. CASE SubmitRollsBack
  BY <1>3, Parts DEF SubmitRollsBack, Submittable
<1>4. CASE DeleteConversation(S)
  BY <1>4, Parts, PathsOwner DEF DeleteConversation, Exists
<1>. QED BY <1>1, <1>2, <1>3, <1>4 DEF SubmitEnds

(* Preserved by queue recovery.                                              *)
LEMMA RecoverSafe ==
  ASSUME TypeInv, SafeInv, NEW w \in Workers, RecoverStep(w)
  PROVE  SafeInv'
<1>. USE DEF TypeInv, TypeOK, JobHeld, Holding, SafeInv, UploadInv, DeleteInv, ParseInv, OwnInv,
             RowsInv, AttachedHasPath, OriginalKept, ReadyHasResult, Early, queueVars,
             rowVars, resultVars, apiVars, workerVars, HandlerAt, DeleteAt, Update, Handlers,
             WorkerAt, Exists, RowStatus
<1>1. CASE RecoverLists(w)
  BY <1>1, Parts DEF RecoverLists
<1>2. CASE RecoverLooks(w)
  BY <1>2, Parts DEF RecoverLooks
<1>3. CASE RecoverDrops(w)
  BY <1>3, Parts DEF RecoverDrops, DropInflight
<1>4. CASE RecoverPushes(w)
  BY <1>4, Parts DEF RecoverPushes, PushPending
<1>5. CASE SkipCleanup(w)
  BY <1>5, Parts DEF SkipCleanup
<1>. QED BY <1>1, <1>2, <1>3, <1>4, <1>5 DEF RecoverStep

(* Preserved by the two cleaners.                                            *)
LEMMA CleanSafe ==
  ASSUME TypeInv, SafeInv, NEW w \in Workers, CleanStep(w)
  PROVE  SafeInv'
<1>. USE DEF TypeInv, TypeOK, JobHeld, Holding, SafeInv, UploadInv, DeleteInv, ParseInv, OwnInv,
             RowsInv, AttachedHasPath, OriginalKept, ReadyHasResult, Early, queueVars,
             rowVars, resultVars, apiVars, workerVars, HandlerAt, DeleteAt, Update, Handlers,
             WorkerAt, Exists, RowStatus
<1>1. CASE CleanupLists(w)
  BY <1>1, Parts DEF CleanupLists, Completable, Exists
<1>2. ASSUME NEW a \in Atts, CleanerMarks(w, a) PROVE SafeInv'
  <2>1. CASE /\ wpc' = [wpc EXCEPT ![w] = "marked"] /\ target' = [target EXCEPT ![w] = a]
             /\ Deletable(a) /\ life' = [life EXCEPT ![a] = "deleted"]
             /\ UNCHANGED <<status, ver, path>>
    <3>1. UploadInv'
      BY <1>2, <2>1, Parts DEF CleanerMarks, Deletable
    <3>2. DeleteInv' /\ ParseInv'
      BY <1>2, <2>1, Parts DEF CleanerMarks, Deletable
    <3>3. OwnInv'
      BY <1>2, <2>1, Parts DEF CleanerMarks, Deletable
    <3>4. RowsInv' /\ AttachedHasPath'
      BY <1>2, <2>1, Parts DEF CleanerMarks, Deletable
    <3>5. OriginalKept'
      BY <1>2, <2>1, Parts DEF CleanerMarks, Deletable
    <3>6. ReadyHasResult'
      BY <1>2, <2>1, Parts DEF CleanerMarks, Deletable
    <3>. QED BY <3>1, <3>2, <3>3, <3>4, <3>5, <3>6
  <2>2. CASE wpc' = [wpc EXCEPT ![w] = "cleaning"] /\ UNCHANGED <<rowVars, target>>
    BY <1>2, <2>2, Parts DEF CleanerMarks
  <2>. QED BY <1>2, <2>1, <2>2 DEF CleanerMarks, MarkLifecycleDeleted
<1>3. CASE CleanerUnlinks(w)
  <2>a. /\ files' = files \ StoragePaths(target[w]) /\ life[target[w]] = "deleted"
       /\ \A b \in Atts : Original(b) \in StoragePaths(target[w]) => b = target[w] /\ path[b]
    <3>1. files' = files \ StoragePaths(target[w]) /\ wpc[w] = "marked"
      BY <1>3 DEF CleanerUnlinks
    <3>2. target[w] \in Atts /\ life[target[w]] = "deleted"
      BY <3>1
    <3>. QED BY <3>1, <3>2, PathsOf
  <2>1. UploadInv'
    <3>. SUFFICES ASSUME NEW b \in Atts
                  PROVE  /\ Early(b)' => /\ (status[b] \in {"none", "receiving"})' /\ ~path[b]'
                                          /\ (hpc["retry"][b] = "none")'
                         /\ (hpc["upload"][b] = "written")' => Original(b) \in files'
      BY DEF UploadInv
    <3>. QED BY <1>3, <2>a, Parts DEF CleanerUnlinks
  <2>2. DeleteInv' /\ ParseInv'
    BY <1>3, Parts DEF CleanerUnlinks
  <2>3. OwnInv'
    BY <1>3, Parts DEF CleanerUnlinks
  <2>4. RowsInv' /\ AttachedHasPath'
    BY <1>3, Parts DEF CleanerUnlinks
  <2>5. OriginalKept'
    <3>. SUFFICES ASSUME NEW b \in Atts, Exists(b)', life'[b] # "deleted", path'[b]
                  PROVE  Original(b) \in files'
      BY DEF OriginalKept
    <3>. QED BY <1>3, <2>a, Parts DEF CleanerUnlinks
  <2>6. ReadyHasResult'
    BY <1>3, Parts DEF CleanerUnlinks
  <2>. QED BY <2>1, <2>2, <2>3, <2>4, <2>5, <2>6
<1>4. CASE CleanerCompletes(w)
  BY <1>4, Parts DEF CleanerCompletes, Completable, CompleteDeleted, Exists
<1>5. CASE CleanerRaises(w)
  BY <1>5, Parts DEF CleanerRaises, Completable, Exists, Restarts
<1>6. CASE CleanupEnds(w)
  BY <1>6, Parts DEF CleanupEnds
<1>7. ASSUME NEW f \in Files, OutboxClaims(w, f) PROVE SafeInv'
  <2>1. UploadInv'
    BY <1>7, Parts DEF OutboxClaims
  <2>2. DeleteInv' /\ ParseInv'
    BY <1>7, Parts DEF OutboxClaims
  <2>3. OwnInv'
    BY <1>7, Parts DEF OutboxClaims
  <2>4. RowsInv' /\ AttachedHasPath'
    <3>1. outbox[f] # "none" /\ outbox' = [outbox EXCEPT ![f] = "processing"]
      BY <1>7 DEF OutboxClaims, Claimable
    <3>2. status[f[1]] = "removed"
      BY <3>1
    <3>. QED BY <1>7, <3>1, <3>2 DEF OutboxClaims
  <2>5. OriginalKept'
    BY <1>7, Parts DEF OutboxClaims
  <2>6. ReadyHasResult'
    BY <1>7, Parts DEF OutboxClaims
  <2>. QED BY <2>1, <2>2, <2>3, <2>4, <2>5, <2>6
<1>8. CASE OutboxUnlinks(w)
  <2>a. /\ files' = files \ own[w]
       /\ \A b \in Atts : Original(b) \in own[w] => status[b] = "removed"
    <3>1. files' = files \ own[w] /\ wpc[w] = "outbox"
      BY <1>8 DEF OutboxUnlinks
    <3>2. \A f \in own[w] : f \in Files /\ outbox[f] # "none"
      BY <3>1
    <3>3. ASSUME NEW b \in Atts, Original(b) \in own[w] PROVE status[b] = "removed"
      <4>1. Original(b) \in Files /\ outbox[Original(b)] # "none"
        BY <3>2, <3>3
      <4>2. status[Original(b)[1]] = "removed"
        BY <4>1
      <4>. QED BY <4>2, Parts
    <3>. QED BY <3>1, <3>3
  <2>1. UploadInv'
    <3>. SUFFICES ASSUME NEW b \in Atts
                  PROVE  /\ Early(b)' => /\ (status[b] \in {"none", "receiving"})' /\ ~path[b]'
                                          /\ (hpc["retry"][b] = "none")'
                         /\ (hpc["upload"][b] = "written")' => Original(b) \in files'
      BY DEF UploadInv
    <3>. QED BY <1>8, <2>a, Parts DEF OutboxUnlinks
  <2>2. DeleteInv' /\ ParseInv'
    BY <1>8, Parts DEF OutboxUnlinks
  <2>3. OwnInv'
    BY <1>8, Parts DEF OutboxUnlinks
  <2>4. RowsInv' /\ AttachedHasPath'
    BY <1>8, Parts DEF OutboxUnlinks
  <2>5. OriginalKept'
    <3>. SUFFICES ASSUME NEW b \in Atts, Exists(b)', life'[b] # "deleted", path'[b]
                  PROVE  Original(b) \in files'
      BY DEF OriginalKept
    <3>. QED BY <1>8, <2>a, Parts DEF OutboxUnlinks
  <2>6. ReadyHasResult'
    BY <1>8, Parts DEF OutboxUnlinks
  <2>. QED BY <2>1, <2>2, <2>3, <2>4, <2>5, <2>6
<1>9. CASE OutboxCompletes(w)
  BY <1>9, Parts DEF OutboxCompletes, SettleOutbox
<1>10. CASE SweepEnds(w)
  BY <1>10, Parts DEF SweepEnds
<1>. QED BY <1>1, <1>2, <1>3, <1>4, <1>5, <1>6, <1>7, <1>8, <1>9, <1>10 DEF CleanStep

(* Preserved by a claim and an acknowledgement.                              *)
LEMMA ClaimSafe ==
  ASSUME TypeInv, SafeInv, NEW w \in Workers, ClaimNothing(w) \/ ClaimMoves(w) \/ ClaimLeases(w) \/ ParseFails(w) \/ AckChecks(w) \/ AckClears(w)
  PROVE  SafeInv'
<1>. USE DEF TypeInv, TypeOK, JobHeld, Holding, SafeInv, UploadInv, DeleteInv, ParseInv, OwnInv,
             RowsInv, AttachedHasPath, OriginalKept, ReadyHasResult, Early, queueVars,
             rowVars, resultVars, apiVars, workerVars, HandlerAt, DeleteAt, Update, Handlers,
             WorkerAt, Exists, RowStatus
<1>1. CASE ClaimNothing(w)
  BY <1>1, Parts DEF ClaimNothing
<1>2. CASE ClaimMoves(w)
  BY <1>2, Parts DEF ClaimMoves, MoveToInflight
<1>3. CASE ClaimLeases(w)
  BY <1>3, Parts DEF ClaimLeases, SetLease
<1>4. CASE ParseFails(w)
  BY <1>4, Parts DEF ParseFails
<1>5. CASE AckChecks(w)
  BY <1>5, Parts DEF AckChecks
<1>6. CASE AckClears(w)
  BY <1>6, Parts DEF AckClears, Acknowledge
<1>. QED BY <1>1, <1>2, <1>3, <1>4, <1>5, <1>6

(* Preserved by the processing of a job.                                     *)
LEMMA JobSafe ==
  ASSUME TypeInv, SafeInv, NEW w \in Workers, NEW a \in Atts, NEW v \in Versions, JobStep(w, a, v)
  PROVE  SafeInv'
<1>. USE DEF TypeInv, TypeOK, JobHeld, Holding, SafeInv, UploadInv, DeleteInv, ParseInv, OwnInv,
             RowsInv, AttachedHasPath, OriginalKept, ReadyHasResult, Early, queueVars,
             rowVars, resultVars, apiVars, workerVars, HandlerAt, DeleteAt, Update, Handlers,
             WorkerAt, Exists, RowStatus
<1>1. CASE StartProcessing(w, a, v)
  BY <1>1, Parts DEF StartProcessing, Processable
<1>2. CASE SkipJob(w, a, v)
  BY <1>2, Parts DEF SkipJob, Processable
<1>3. CASE ParseRejects(w, a, v)
  BY <1>3, Parts DEF ParseRejects, Exists, MarkRejected
<1>4. CASE Materializes(w, a, v)
  BY <1>4, Parts DEF Materializes
<1>5. CASE Persists(w, a, v)
  BY <1>5, Parts DEF Persists, CommitResult, Persistable
<1>6. CASE PersistRaises(w, a, v)
  <2>a. /\ files' = files \ own[w]
       /\ \A b \in Atts : Original(b) \notin own[w]
    <3>1. files' = files \ own[w] /\ wpc[w] = "materialized"
      BY <1>6 DEF PersistRaises, Persistable
    <3>. QED BY <3>1, OwnNotOriginal
  <2>1. UploadInv'
    <3>. SUFFICES ASSUME NEW b \in Atts
                  PROVE  /\ Early(b)' => /\ (status[b] \in {"none", "receiving"})' /\ ~path[b]'
                                          /\ (hpc["retry"][b] = "none")'
                         /\ (hpc["upload"][b] = "written")' => Original(b) \in files'
      BY DEF UploadInv
    <3>. QED BY <1>6, <2>a, Parts DEF PersistRaises, Persistable
  <2>2. DeleteInv' /\ ParseInv'
    BY <1>6, Parts DEF PersistRaises, Persistable
  <2>3. OwnInv'
    BY <1>6, Parts DEF PersistRaises, Persistable
  <2>4. RowsInv' /\ AttachedHasPath'
    BY <1>6, Parts DEF PersistRaises, Persistable
  <2>5. OriginalKept'
    <3>. SUFFICES ASSUME NEW b \in Atts, Exists(b)', life'[b] # "deleted", path'[b]
                  PROVE  Original(b) \in files'
      BY DEF OriginalKept
    <3>. QED BY <1>6, <2>a, Parts DEF PersistRaises, Persistable
  <2>6. ReadyHasResult'
    BY <1>6, Parts DEF PersistRaises, Persistable
  <2>. QED BY <2>1, <2>2, <2>3, <2>4, <2>5, <2>6
<1>7. CASE FailJob(w, a, v)
  BY <1>7, Parts DEF FailJob, Exists, MarkFailed
<1>8. CASE RowVanished(w, a, v)
  BY <1>8, Parts DEF RowVanished, Exists, Restarts
<1>. QED BY <1>1, <1>2, <1>3, <1>4, <1>5, <1>6, <1>7, <1>8 DEF JobStep

(* Preserved by the clock.                                                   *)
LEMMA ClockSafe ==
  ASSUME TypeInv, SafeInv, ClockStep
  PROVE  SafeInv'
<1>. USE DEF TypeInv, TypeOK, JobHeld, Holding, SafeInv, UploadInv, DeleteInv, ParseInv, OwnInv,
             RowsInv, AttachedHasPath, OriginalKept, ReadyHasResult, Early, queueVars,
             rowVars, resultVars, apiVars, workerVars, HandlerAt, DeleteAt, Update, Handlers,
             WorkerAt, Exists, RowStatus
<1>1. ASSUME NEW a \in Atts, DraftExpires(a) PROVE SafeInv'
  BY <1>1, Parts DEF DraftExpires, Exists
<1>2. ASSUME NEW f \in Files, OutboxRowDue(f) PROVE SafeInv'
  BY <1>2, Parts DEF OutboxRowDue
<1>3. ASSUME NEW j \in Jobs, LeaseTimesOut(j) PROVE SafeInv'
  BY <1>3, Parts DEF LeaseTimesOut, LeaseExpires
<1>. QED BY <1>1, <1>2, <1>3 DEF ClockStep

(* Preserved by a crash, a failing command or a lost reply.                  *)
LEMMA FaultSafe ==
  ASSUME TypeInv, SafeInv, FaultStep
  PROVE  SafeInv'
<1>. USE DEF TypeInv, TypeOK, JobHeld, Holding, SafeInv, UploadInv, DeleteInv, ParseInv, OwnInv,
             RowsInv, AttachedHasPath, OriginalKept, ReadyHasResult, Early, queueVars,
             rowVars, resultVars, apiVars, workerVars, HandlerAt, DeleteAt, Update, Handlers,
             WorkerAt, Exists, RowStatus
<1>1. ASSUME NEW a \in Atts, StorageFails(a) PROVE SafeInv'
  <2>a. status[a] # "removed" /\ status' = [status EXCEPT ![a] = "failed"]
    BY <1>1 DEF StorageFails, MarkFailed
  <2>1. UploadInv'
    BY <1>1, Parts DEF StorageFails, Fault, MarkFailed
  <2>2. DeleteInv' /\ ParseInv'
    BY <1>1, Parts DEF StorageFails, Fault, MarkFailed
  <2>3. OwnInv'
    BY <1>1, Parts DEF StorageFails, Fault, MarkFailed
  <2>4. RowsInv' /\ AttachedHasPath'
    <3>1. ASSUME NEW f \in Files, outbox'[f] # "none" PROVE status'[f[1]] = "removed"
      BY <1>1, <2>a, <3>1, Parts DEF StorageFails, MarkFailed
    <3>2. \A f \in rows' : f[2] # 0
      BY <1>1 DEF StorageFails, MarkFailed
    <3>3. AttachedHasPath'
      BY <1>1 DEF StorageFails, MarkFailed
    <3>. QED BY <3>1, <3>2, <3>3
  <2>5. OriginalKept'
    BY <1>1, Parts DEF StorageFails, Fault, MarkFailed
  <2>6. ReadyHasResult'
    BY <1>1, Parts DEF StorageFails, Fault, MarkFailed
  <2>. QED BY <2>1, <2>2, <2>3, <2>4, <2>5, <2>6
<1>2. ASSUME NEW a \in Atts, DeleteUnlinkFails(a) PROVE SafeInv'
  BY <1>2, Parts DEF DeleteUnlinkFails, DeleteAt, Fault
<1>3. ASSUME NEW h \in Handlers, NEW a \in Atts, EnqueueRaises(h, a) PROVE SafeInv'
  BY <1>3, Parts DEF EnqueueRaises, Fault, PushRaised
<1>4. CASE ApiCrash
  BY <1>4, Parts DEF ApiCrash, Fault, Finished
<1>5. ASSUME NEW w \in Workers, CleanerUnlinkFails(w) PROVE SafeInv'
  BY <1>5, Parts DEF CleanerUnlinkFails, Fault
<1>6. ASSUME NEW w \in Workers, OutboxRetries(w) PROVE SafeInv'
  BY <1>6, Parts DEF OutboxRetries, Fault, SettleOutbox
<1>7. ASSUME NEW w \in Workers, WorkerCrash(w) PROVE SafeInv'
  BY <1>7, Parts DEF WorkerCrash, Fault, Restarts
<1>8. ASSUME NEW w \in Workers, NEW a \in Atts, NEW v \in Versions, MaterializeFails(w, a, v) PROVE SafeInv'
  BY <1>8, Parts DEF MaterializeFails, Fault
<1>9. ASSUME NEW w \in Workers, NEW a \in Atts, NEW v \in Versions, PersistUnanswered(w, a, v) PROVE SafeInv'
  <2>a. /\ files' = files \ own[w]
       /\ \A b \in Atts : Original(b) \notin own[w]
    <3>1. files' = files \ own[w] /\ wpc[w] = "materialized"
      BY <1>9 DEF PersistUnanswered, CommitResult, Fault, Persistable
    <3>. QED BY <3>1, OwnNotOriginal
  <2>1. UploadInv'
    <3>. SUFFICES ASSUME NEW b \in Atts
                  PROVE  /\ Early(b)' => /\ (status[b] \in {"none", "receiving"})' /\ ~path[b]'
                                          /\ (hpc["retry"][b] = "none")'
                         /\ (hpc["upload"][b] = "written")' => Original(b) \in files'
      BY DEF UploadInv
    <3>. QED BY <1>9, <2>a, Parts DEF PersistUnanswered, CommitResult, Fault, Persistable
  <2>2. DeleteInv' /\ ParseInv'
    BY <1>9, Parts DEF PersistUnanswered, CommitResult, Fault, Persistable
  <2>3. OwnInv'
    BY <1>9, Parts DEF PersistUnanswered, CommitResult, Fault, Persistable
  <2>4. RowsInv' /\ AttachedHasPath'
    BY <1>9, Parts DEF PersistUnanswered, CommitResult, Fault, Persistable
  <2>5. OriginalKept'
    <3>. SUFFICES ASSUME NEW b \in Atts, Exists(b)', life'[b] # "deleted", path'[b]
                  PROVE  Original(b) \in files'
      BY DEF OriginalKept
    <3>. QED BY <1>9, <2>a, Parts DEF PersistUnanswered, CommitResult, Fault, Persistable
  <2>6. ReadyHasResult'
    BY <1>9, Parts DEF PersistUnanswered, CommitResult, Fault, Persistable
  <2>. QED BY <2>1, <2>2, <2>3, <2>4, <2>5, <2>6
<1>. QED BY <1>1, <1>2, <1>3, <1>4, <1>5, <1>6, <1>7, <1>8, <1>9 DEF FaultStep

(* Every step preserves it.                                                 *)
LEMMA NextSafe ==
  ASSUME TypeInv, SafeInv, [Next]_vars
  PROVE  SafeInv'
<1>1. ASSUME NEW a \in Atts, UploadStep(a) PROVE SafeInv'
  BY <1>1, UploadSafe
<1>2. ASSUME NEW a \in Atts, RetryReads(a) \/ RetryStep(a) PROVE SafeInv'
  BY <1>2, RetrySafe
<1>3. ASSUME NEW h \in Handlers, NEW a \in Atts, EnqueueStep(h, a) PROVE SafeInv'
  BY <1>3, EnqueueSafe
<1>4. ASSUME NEW a \in Atts, DeleteReads(a) \/ DeleteStep(a) PROVE SafeInv'
  BY <1>4, DeleteSafe
<1>5. ASSUME NEW S \in SUBSET Atts, SubmitLocks(S) \/ DeleteConversation(S) PROVE SafeInv'
  BY <1>5, SubmitSafe
<1>6. CASE SubmitEnds
  BY <1>6, SubmitSafe
<1>7. ASSUME NEW w \in Workers, WorkerStep(w) PROVE SafeInv'
  <2>1. CASE RecoverStep(w)
    BY <2>1, RecoverSafe
  <2>2. CASE CleanStep(w)
    BY <2>2, CleanSafe
  <2>3. ASSUME NEW a \in Atts, NEW v \in Versions, JobStep(w, a, v) PROVE SafeInv'
    BY <2>3, JobSafe
  <2>4. CASE ClaimNothing(w) \/ ClaimMoves(w) \/ ClaimLeases(w) \/ ParseFails(w)
             \/ AckChecks(w) \/ AckClears(w)
    BY <2>4, ClaimSafe
  <2>. QED BY <1>7, <2>1, <2>2, <2>3, <2>4 DEF WorkerStep
<1>8. CASE ClockStep
  BY <1>8, ClockSafe
<1>9. CASE FaultStep
  BY <1>9, FaultSafe
<1>10. CASE UNCHANGED vars
  BY <1>10 DEF vars, SafeInv, UploadInv, DeleteInv, ParseInv, OwnInv, RowsInv, AttachedHasPath,
             OriginalKept, ReadyHasResult, Early, Exists, queueVars, rowVars, resultVars,
             apiVars, workerVars
<1>. QED BY <1>1, <1>2, <1>3, <1>4, <1>5, <1>6, <1>7, <1>8, <1>9, <1>10 DEF Next

(* SafeInv holds in every state the program reaches.                        *)
THEOREM SafeInvariant == Spec => []SafeInv
<1>1. TypeInv /\ SafeInv /\ [Next]_vars => SafeInv'
  BY NextSafe
<1>. QED BY <1>1, InitSafe, TypeInvariant, PTL DEF Spec

(* The original of a row in use is on disk: no cleaner, rejected upload or  *)
(* outbox row ever removes it, whatever crashes or is repeated.             *)
THEOREM OriginalsAreKept == Spec => []OriginalKept
<1>1. SafeInv => OriginalKept
  BY DEF SafeInv
<1>. QED BY <1>1, SafeInvariant, PTL

(* A ready attachment has a path and the result rows of its own version.    *)
THEOREM ReadyIsReadable == Spec => []ReadyHasResult
<1>1. SafeInv => ReadyHasResult
  BY DEF SafeInv
<1>. QED BY <1>1, SafeInvariant, PTL

-----------------------------------------------------------------------------
(* The step of AttachedIsFinal. *)
KeepsAttached ==
  \A a \in Atts : Exists(a) /\ life[a] = "attached" =>
    \/ status'[a] = "removed"
    \/ life'[a] = "attached" /\ ver'[a] = ver[a] /\ path'[a]

(* Kept by the upload handler.                                              *)
LEMMA UploadKeepsAttached ==
  ASSUME TypeInv, SafeInv, NEW a \in Atts, UploadStep(a)
  PROVE  KeepsAttached
<1>. USE DEF TypeInv, TypeOK, SafeInv, AttachedHasPath, ReadyHasResult, KeepsAttached, Exists,
             rowVars, Update
<1>1. CASE UNCHANGED rowVars
  BY <1>1
<1>2. CASE CreateReceiving(a)
  BY <1>2 DEF CreateReceiving
<1>3. CASE RejectUpload(a)
  BY <1>3 DEF RejectUpload, MarkRejected
<1>4. CASE StoreOriginal(a)
  BY <1>4 DEF StoreOriginal, MarkStored
<1>. QED BY <1>1, <1>2, <1>3, <1>4 DEF UploadStep, WriteOriginal, UnlinkRejected

(* Kept by the retry handler.                                               *)
LEMMA RetryKeepsAttached ==
  ASSUME TypeInv, SafeInv, NEW a \in Atts, RetryReads(a) \/ RetryStep(a)
  PROVE  KeepsAttached
<1>. USE DEF TypeInv, TypeOK, SafeInv, AttachedHasPath, ReadyHasResult, KeepsAttached, Exists,
             rowVars, Update
<1>1. CASE UNCHANGED rowVars
  BY <1>1
<1>2. CASE PrepareRetry(a)
  BY <1>2 DEF PrepareRetry, Retryable
<1>. QED BY <1>1, <1>2 DEF RetryStep, RetryReads, RetryRefused

(* Kept by the enqueueing of a job.                                         *)
LEMMA EnqueueKeepsAttached ==
  ASSUME TypeInv, SafeInv, NEW h \in Handlers, NEW a \in Atts, EnqueueStep(h, a)
  PROVE  KeepsAttached
<1>. USE DEF TypeInv, TypeOK, SafeInv, AttachedHasPath, ReadyHasResult, KeepsAttached, Exists,
             rowVars, Update
<1>1. CASE UNCHANGED rowVars
  BY <1>1
<1>2. CASE EnqueueFailed(h, a)
  BY <1>2 DEF EnqueueFailed, MarkFailed
<1>. QED BY <1>1, <1>2 DEF EnqueueStep, EnqueueAcquires, EnqueuePushes

(* Kept by the DELETE handler.                                              *)
LEMMA DeleteKeepsAttached ==
  ASSUME TypeInv, SafeInv, NEW a \in Atts, DeleteReads(a) \/ DeleteStep(a)
  PROVE  KeepsAttached
<1>. USE DEF TypeInv, TypeOK, SafeInv, AttachedHasPath, ReadyHasResult, KeepsAttached, Exists,
             rowVars, Update
<1>1. CASE UNCHANGED rowVars
  BY <1>1
<1>2. CASE DeleteMarks(a)
  BY <1>2 DEF DeleteMarks, Deletable, MarkLifecycleDeleted
<1>3. CASE DeleteCompletes(a)
  BY <1>3 DEF DeleteCompletes, CompleteDeleted
<1>. QED BY <1>1, <1>2, <1>3 DEF DeleteStep, DeleteReads, DeleteRefused,
          DeleteUnlinks

(* Kept by a submission and a conversation delete.                          *)
LEMMA SubmitKeepsAttached ==
  ASSUME TypeInv, SafeInv, NEW S \in SUBSET Atts, SubmitLocks(S) \/ SubmitEnds \/ DeleteConversation(S)
  PROVE  KeepsAttached
<1>. USE DEF TypeInv, TypeOK, SafeInv, AttachedHasPath, ReadyHasResult, KeepsAttached, Exists,
             rowVars, Update
<1>1. CASE UNCHANGED rowVars
  BY <1>1
<1>2. CASE SubmitBinds
  BY <1>2 DEF SubmitBinds, Submittable
<1>3. CASE DeleteConversation(S)
  BY <1>3 DEF DeleteConversation
<1>. QED BY <1>1, <1>2, <1>3 DEF SubmitEnds, SubmitLocks, SubmitRollsBack

(* Kept by queue recovery.                                                  *)
LEMMA RecoverKeepsAttached ==
  ASSUME TypeInv, SafeInv, NEW w \in Workers, RecoverStep(w)
  PROVE  KeepsAttached
<1>. USE DEF TypeInv, TypeOK, SafeInv, AttachedHasPath, ReadyHasResult, KeepsAttached, Exists,
             rowVars, Update
<1>1. CASE UNCHANGED rowVars
  BY <1>1
<1>. QED BY <1>1 DEF RecoverStep, RecoverLists, RecoverLooks, RecoverDrops,
          RecoverPushes, SkipCleanup

(* Kept by the two cleaners.                                                *)
LEMMA CleanKeepsAttached ==
  ASSUME TypeInv, SafeInv, NEW w \in Workers, CleanStep(w)
  PROVE  KeepsAttached
<1>. USE DEF TypeInv, TypeOK, SafeInv, AttachedHasPath, ReadyHasResult, KeepsAttached, Exists,
             rowVars, Update
<1>1. CASE UNCHANGED rowVars
  BY <1>1
<1>2. ASSUME NEW a \in Atts, CleanerMarks(w, a) PROVE KeepsAttached
  BY <1>2 DEF CleanerMarks, Deletable, MarkLifecycleDeleted
<1>3. CASE CleanerCompletes(w)
  BY <1>3 DEF CleanerCompletes, CompleteDeleted
<1>. QED BY <1>1, <1>2, <1>3 DEF CleanStep, CleanupLists, CleanerUnlinks,
          CleanerRaises, CleanupEnds, OutboxClaims, OutboxUnlinks, OutboxCompletes,
          SweepEnds, SettleOutbox

(* Kept by a claim and an acknowledgement.                                  *)
LEMMA ClaimKeepsAttached ==
  ASSUME TypeInv, SafeInv, NEW w \in Workers, ClaimNothing(w) \/ ClaimMoves(w) \/ ClaimLeases(w) \/ ParseFails(w) \/ AckChecks(w) \/ AckClears(w)
  PROVE  KeepsAttached
<1>. USE DEF TypeInv, TypeOK, SafeInv, AttachedHasPath, ReadyHasResult, KeepsAttached, Exists,
             rowVars, Update
<1>1. CASE UNCHANGED rowVars
  BY <1>1
<1>. QED BY <1>1 DEF ClaimNothing, ClaimMoves, ClaimLeases, ParseFails, AckChecks,
          AckClears

(* Kept by the processing of a job.                                         *)
LEMMA JobKeepsAttached ==
  ASSUME TypeInv, SafeInv, NEW w \in Workers, NEW a \in Atts, NEW v \in Versions, JobStep(w, a, v)
  PROVE  KeepsAttached
<1>. USE DEF TypeInv, TypeOK, SafeInv, AttachedHasPath, ReadyHasResult, KeepsAttached, Exists,
             rowVars, Update
<1>1. CASE UNCHANGED rowVars
  BY <1>1
<1>2. CASE StartProcessing(w, a, v)
  BY <1>2 DEF StartProcessing
<1>3. CASE ParseRejects(w, a, v)
  BY <1>3 DEF ParseRejects, MarkRejected
<1>4. CASE Persists(w, a, v)
  BY <1>4 DEF Persists, CommitResult
<1>5. CASE FailJob(w, a, v)
  BY <1>5 DEF FailJob, MarkFailed
<1>. QED BY <1>1, <1>2, <1>3, <1>4, <1>5 DEF JobStep, SkipJob, Materializes,
          PersistRaises, RowVanished

(* Kept by the clock.                                                       *)
LEMMA ClockKeepsAttached ==
  ASSUME TypeInv, SafeInv, ClockStep
  PROVE  KeepsAttached
<1>. USE DEF TypeInv, TypeOK, SafeInv, AttachedHasPath, ReadyHasResult, KeepsAttached, Exists,
             rowVars, Update
<1>1. CASE UNCHANGED rowVars
  BY <1>1
<1>2. ASSUME NEW a \in Atts, DraftExpires(a) PROVE KeepsAttached
  BY <1>2 DEF DraftExpires
<1>. QED BY <1>1, <1>2 DEF ClockStep, OutboxRowDue, LeaseTimesOut

(* Kept by a crash, a failing command or a lost reply.                      *)
LEMMA FaultKeepsAttached ==
  ASSUME TypeInv, SafeInv, FaultStep
  PROVE  KeepsAttached
<1>. USE DEF TypeInv, TypeOK, SafeInv, AttachedHasPath, ReadyHasResult, KeepsAttached, Exists,
             rowVars, Update
<1>1. CASE UNCHANGED rowVars
  BY <1>1
<1>2. ASSUME NEW a \in Atts, StorageFails(a) PROVE KeepsAttached
  BY <1>2 DEF StorageFails, MarkFailed
<1>3. ASSUME NEW w \in Workers, NEW a \in Atts, NEW v \in Versions, PersistUnanswered(w, a, v) PROVE KeepsAttached
  BY <1>3 DEF PersistUnanswered, CommitResult
<1>. QED BY <1>1, <1>2, <1>3 DEF FaultStep, DeleteUnlinkFails, EnqueueRaises,
          ApiCrash, CleanerUnlinkFails, OutboxRetries, WorkerCrash,
          MaterializeFails, SettleOutbox

(* Every step keeps what is attached.                                       *)
LEMMA NextKeepsAttached ==
  ASSUME TypeInv, SafeInv, [Next]_vars
  PROVE  KeepsAttached
<1>1. ASSUME NEW a \in Atts, UploadStep(a) PROVE KeepsAttached
  BY <1>1, UploadKeepsAttached
<1>2. ASSUME NEW a \in Atts, RetryReads(a) \/ RetryStep(a) PROVE KeepsAttached
  BY <1>2, RetryKeepsAttached
<1>3. ASSUME NEW h \in Handlers, NEW a \in Atts, EnqueueStep(h, a) PROVE KeepsAttached
  BY <1>3, EnqueueKeepsAttached
<1>4. ASSUME NEW a \in Atts, DeleteReads(a) \/ DeleteStep(a) PROVE KeepsAttached
  BY <1>4, DeleteKeepsAttached
<1>5. ASSUME NEW S \in SUBSET Atts, SubmitLocks(S) \/ DeleteConversation(S) PROVE KeepsAttached
  BY <1>5, SubmitKeepsAttached
<1>6. CASE SubmitEnds
  BY <1>6, SubmitKeepsAttached
<1>7. ASSUME NEW w \in Workers, WorkerStep(w) PROVE KeepsAttached
  <2>1. CASE RecoverStep(w)
    BY <2>1, RecoverKeepsAttached
  <2>2. CASE CleanStep(w)
    BY <2>2, CleanKeepsAttached
  <2>3. ASSUME NEW a \in Atts, NEW v \in Versions, JobStep(w, a, v) PROVE KeepsAttached
    BY <2>3, JobKeepsAttached
  <2>4. CASE ClaimNothing(w) \/ ClaimMoves(w) \/ ClaimLeases(w) \/ ParseFails(w)
             \/ AckChecks(w) \/ AckClears(w)
    BY <2>4, ClaimKeepsAttached
  <2>. QED BY <1>7, <2>1, <2>2, <2>3, <2>4 DEF WorkerStep
<1>8. CASE ClockStep
  BY <1>8, ClockKeepsAttached
<1>9. CASE FaultStep
  BY <1>9, FaultKeepsAttached
<1>10. CASE UNCHANGED vars
  BY <1>10 DEF vars, rowVars, TypeInv, TypeOK, SafeInv, AttachedHasPath, KeepsAttached
<1>. QED BY <1>1, <1>2, <1>3, <1>4, <1>5, <1>6, <1>7, <1>8, <1>9, <1>10 DEF Next

(* What is bound to a message stays bound, at its version and with its      *)
(* file, until its conversation is deleted.                                 *)
THEOREM AttachedStaysFinal == Spec => AttachedIsFinal
<1>1. TypeInv /\ SafeInv /\ [Next]_vars => [KeepsAttached]_vars
  BY NextKeepsAttached
<1>2. [][KeepsAttached]_vars => AttachedIsFinal
  BY PTL DEF AttachedIsFinal, KeepsAttached
<1>. QED BY <1>1, <1>2, TypeInvariant, SafeInvariant, PTL DEF Spec

-----------------------------------------------------------------------------
(* A turn takes all of its attachments or none.                            *)

(* A turn locks rows that are there.                                        *)
LocksHeld == \A a \in submitting : Exists(a)

(* What every step but those of the turn itself does to the rows it holds. *)
LeavesTurn ==
  /\ submitting' \in {submitting, {}}
  /\ \A a \in submitting : /\ status'[a] = status[a] /\ ver'[a] = ver[a]
                           /\ path'[a] = path[a] /\ life'[a] = life[a]
  /\ \A a \in Atts : life'[a] = "attached" => life[a] = "attached"

(* The handlers of an upload, a retry and an enqueueing.                    *)
LEMMA UploadLeavesTurn ==
  ASSUME TypeInv, LocksHeld, NEW a \in Atts, NEW h \in Handlers,
         UploadStep(a) \/ RetryReads(a) \/ RetryStep(a) \/ EnqueueStep(h, a)
  PROVE  LeavesTurn
<1>. USE DEF TypeInv, TypeOK, LocksHeld, LeavesTurn, Exists, RowStatus, rowVars, Update,
             Unlocked, HandlerAt
<1>1. CASE UploadStep(a)
  <2>1. CASE CreateReceiving(a)
    BY <2>1 DEF CreateReceiving
  <2>2. CASE WriteOriginal(a) \/ UnlinkRejected(a)
    BY <2>2 DEF WriteOriginal, UnlinkRejected
  <2>3. CASE RejectUpload(a)
    BY <2>3 DEF RejectUpload, MarkRejected
  <2>4. CASE StoreOriginal(a)
    BY <2>4 DEF StoreOriginal, MarkStored
  <2>. QED BY <1>1, <2>1, <2>2, <2>3, <2>4 DEF UploadStep
<1>2. CASE RetryReads(a)
  BY <1>2 DEF RetryReads
<1>3. CASE PrepareRetry(a)
  BY <1>3 DEF PrepareRetry
<1>4. CASE RetryRefused(a)
  BY <1>4 DEF RetryRefused
<1>5. CASE EnqueueStep(h, a)
  BY <1>5 DEF EnqueueStep, EnqueueAcquires, EnqueuePushes, EnqueueFailed, MarkFailed
<1>. QED BY <1>1, <1>2, <1>3, <1>4, <1>5 DEF RetryStep

(* The two deletions, and a turn that ends without binding.                 *)
LEMMA DeleteLeavesTurn ==
  ASSUME TypeInv, LocksHeld,
         \/ SubmitRollsBack \/ \E S \in SUBSET Atts : DeleteConversation(S)
         \/ \E a \in Atts : DeleteReads(a) \/ DeleteStep(a)
  PROVE  LeavesTurn
<1>. USE DEF TypeInv, TypeOK, LocksHeld, LeavesTurn, rowVars, apiVars, Unlocked, DeleteAt
<1>1. CASE SubmitRollsBack
  BY <1>1 DEF SubmitRollsBack
<1>2. ASSUME NEW S \in SUBSET Atts, DeleteConversation(S)
      PROVE  LeavesTurn
  BY <1>2 DEF DeleteConversation
<1>3. ASSUME NEW a \in Atts, DeleteReads(a) \/ DeleteRefused(a) \/ DeleteUnlinks(a)
      PROVE  LeavesTurn
  BY <1>3 DEF DeleteReads, DeleteRefused, DeleteUnlinks
<1>4. ASSUME NEW a \in Atts, DeleteMarks(a) \/ DeleteCompletes(a)
      PROVE  LeavesTurn
  BY <1>4 DEF DeleteMarks, DeleteCompletes, MarkLifecycleDeleted, CompleteDeleted
<1>. QED BY <1>1, <1>2, <1>3, <1>4 DEF DeleteStep

(* Queue recovery, the cleaners, claims and acknowledgements.               *)
LEMMA CleanLeavesTurn ==
  ASSUME TypeInv, NEW w \in Workers,
         \/ RecoverStep(w) \/ CleanStep(w) \/ ClaimNothing(w) \/ ClaimMoves(w)
         \/ ClaimLeases(w) \/ ParseFails(w) \/ AckChecks(w) \/ AckClears(w)
  PROVE  LeavesTurn
<1>. USE DEF TypeInv, TypeOK, LeavesTurn, rowVars, apiVars, Unlocked
<1>1. CASE UNCHANGED <<rowVars, apiVars>>
  BY <1>1
<1>2. ASSUME NEW a \in Atts, CleanerMarks(w, a)
      PROVE  LeavesTurn
  BY <1>2 DEF CleanerMarks, MarkLifecycleDeleted
<1>3. CASE CleanerCompletes(w)
  BY <1>3 DEF CleanerCompletes, CompleteDeleted
<1>. QED
  BY <1>1, <1>2, <1>3 DEF RecoverStep, RecoverLists, RecoverLooks, RecoverDrops, RecoverPushes,
     SkipCleanup, CleanStep, CleanupLists, CleanerUnlinks, CleanerRaises, CleanupEnds,
     OutboxClaims, OutboxUnlinks, OutboxCompletes, SweepEnds, SettleOutbox, ClaimNothing,
     ClaimMoves, ClaimLeases, ParseFails, AckChecks, AckClears

(* The processing of a job.                                                 *)
LEMMA JobLeavesTurn ==
  ASSUME TypeInv, NEW w \in Workers, NEW a \in Atts, NEW v \in Versions, JobStep(w, a, v)
  PROVE  LeavesTurn
<1>. USE DEF TypeInv, TypeOK, LeavesTurn, rowVars, apiVars, Update, Unlocked
<1>1. CASE UNCHANGED <<rowVars, apiVars>>
  BY <1>1
<1>2. CASE StartProcessing(w, a, v)
  BY <1>2 DEF StartProcessing
<1>3. CASE ParseRejects(w, a, v)
  BY <1>3 DEF ParseRejects, MarkRejected
<1>4. CASE Persists(w, a, v)
  BY <1>4 DEF Persists, CommitResult
<1>5. CASE FailJob(w, a, v)
  BY <1>5 DEF FailJob, MarkFailed
<1>. QED
  BY <1>1, <1>2, <1>3, <1>4, <1>5 DEF JobStep, SkipJob, Materializes, PersistRaises, RowVanished

(* The clock, crashes, failing commands and lost replies.                   *)
LEMMA FaultLeavesTurn ==
  ASSUME TypeInv, ClockStep \/ FaultStep
  PROVE  LeavesTurn
<1>. USE DEF TypeInv, TypeOK, LeavesTurn, rowVars, apiVars, Update, Unlocked
<1>1. CASE UNCHANGED <<rowVars, apiVars>>
  BY <1>1
<1>2. ASSUME NEW a \in Atts, DraftExpires(a)
      PROVE  LeavesTurn
  BY <1>2 DEF DraftExpires
<1>3. ASSUME NEW a \in Atts, StorageFails(a)
      PROVE  LeavesTurn
  BY <1>3 DEF StorageFails, MarkFailed, HandlerAt
<1>4. ASSUME NEW w \in Workers, NEW a \in Atts, NEW v \in Versions, PersistUnanswered(w, a, v)
      PROVE  LeavesTurn
  BY <1>4 DEF PersistUnanswered, CommitResult
<1>5. ASSUME NEW h \in Handlers, NEW a \in Atts, EnqueueRaises(h, a)
      PROVE  LeavesTurn
  BY <1>5 DEF EnqueueRaises, HandlerAt
<1>6. ASSUME NEW a \in Atts, DeleteUnlinkFails(a)
      PROVE  LeavesTurn
  BY <1>6 DEF DeleteUnlinkFails, DeleteAt
<1>7. CASE ApiCrash
  BY <1>7 DEF ApiCrash
<1>. QED
  BY <1>1, <1>2, <1>3, <1>4, <1>5, <1>6, <1>7 DEF ClockStep, OutboxRowDue, LeaseTimesOut,
     FaultStep, CleanerUnlinkFails, OutboxRetries, WorkerCrash, MaterializeFails, SettleOutbox

(* The step of TurnIsWhole. *)
TurnStep ==
  /\ \A a \in submitting :
       status'[a] = status[a] /\ ver'[a] = ver[a] /\ path'[a] = path[a]
  /\ (\E a \in submitting : life'[a] # life[a]) =>
       \A a \in submitting : Submittable(a) /\ life'[a] = "attached"
  /\ \A a \in Atts : life[a] # "attached" /\ life'[a] = "attached" => a \in submitting

(* Every step leaves the rows of a turn alone, but the one that binds them. *)
LEMMA NextTurn ==
  ASSUME TypeInv, LocksHeld, [Next]_vars
  PROVE  LocksHeld' /\ TurnStep
<1>1. CASE LeavesTurn
  <2>1. submitting \subseteq Atts
    BY DEF TypeInv, TypeOK
  <2>. QED BY <1>1, <2>1 DEF LeavesTurn, LocksHeld, TurnStep, Exists
<1>2. CASE SubmitBinds
  BY <1>2 DEF SubmitBinds, TypeInv, TypeOK, LocksHeld, TurnStep
<1>3. ASSUME NEW S \in SUBSET Atts, SubmitLocks(S)
      PROVE  LocksHeld' /\ TurnStep
  BY <1>3 DEF SubmitLocks, rowVars, LocksHeld, TurnStep, Exists
<1>4. CASE UNCHANGED vars
  BY <1>4 DEF vars, rowVars, apiVars, LocksHeld, TurnStep, Exists
<1>5. ASSUME NEW w \in Workers, WorkerStep(w)
      PROVE  LeavesTurn
  BY <1>5, CleanLeavesTurn, JobLeavesTurn DEF WorkerStep
<1>6. Handlers # {}
  BY DEF Handlers
<1>. QED
  BY <1>1, <1>2, <1>3, <1>4, <1>5, <1>6, UploadLeavesTurn, DeleteLeavesTurn, FaultLeavesTurn
     DEF Next, SubmitEnds

(* From its row locks to its end a turn is alone with its attachments, and  *)
(* it binds all of them or none.                                            *)
THEOREM TurnsAreWhole == Spec => TurnIsWhole
<1>1. Init => LocksHeld
  BY DEF Init, LocksHeld
<1>2. TypeInv /\ LocksHeld /\ [Next]_vars => LocksHeld' /\ [TurnStep]_vars
  BY NextTurn
<1>3. [][TurnStep]_vars => TurnIsWhole
  BY PTL DEF TurnIsWhole, TurnStep
<1>. QED BY <1>1, <1>2, <1>3, TypeInvariant, PTL DEF Spec
=============================================================================
