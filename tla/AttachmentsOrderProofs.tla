----------------------- MODULE AttachmentsOrderProofs -----------------------
(***************************************************************************)
(* The jobs of the attachment pipeline, and the order of a row's statuses. *)
(*                                                                         *)
(* NextMoves divides the steps: each leaves the queue alone (QueueAlone) or *)
(* is a step of the queue, and leaves the rows alone (RowsAlone) or is a   *)
(* step of a row.  The proofs below only look at the steps that count.     *)
(*                                                                         *)
(* No job is lost: JobNotLost is inductive by itself, from what the list   *)
(* commands do to the set of jobs (AppendSet, HeadTailSet, RemoveFirstSet), *)
(* as long as no process dies with a job in its hands.                     *)
(*                                                                         *)
(* The lifecycle: with one worker process, and when pushes are answered,   *)
(* nobody works on a row while its job is being enqueued, because there is  *)
(* no job of that version yet (VersionsInv, HandlersInv), and what a worker *)
(* works on is at the version of its job (WorkInv).  So a stale job changes *)
(* nothing.  When commits are answered too, what a worker works on is       *)
(* processing (StatusInv), and every step of a row is one of the            *)
(* lifecycle's.  Without these hypotheses the theorems are false: two       *)
(* workers with copies of one job, or a push that arrives without an        *)
(* answer, move a row against models.py, and so does a worker that does not *)
(* know of its own commit.                                                  *)
(***************************************************************************)
EXTENDS AttachmentsProofs

-----------------------------------------------------------------------------
(* What the commands on a list do to the set of its elements.               *)

(* RPUSH adds one.                                                          *)
LEMMA AppendSet ==
  ASSUME NEW S, NEW s \in Seq(S), NEW e \in S
  PROVE  ToSet(Append(s, e)) = ToSet(s) \cup {e}
<1>. DEFINE t == Append(s, e)
<1>1. /\ Len(s) \in Nat /\ t \in Seq(S) /\ Len(t) = Len(s) + 1 /\ t[Len(s) + 1] = e
      /\ \A i \in 1..Len(s) : t[i] = s[i]
  BY AppendProperties, LenProperties
<1>2. DOMAIN s = 1..Len(s) /\ DOMAIN t = 1..(Len(s) + 1)
  BY <1>1, LenProperties
<1>. HIDE DEF t
<1>. QED BY <1>1, <1>2 DEF ToSet, t

(* LPOP and LMOVE take the head.                                            *)
LEMMA HeadTailSet ==
  ASSUME NEW S, NEW s \in Seq(S), s # <<>>
  PROVE  Head(s) \in S /\ ToSet(s) = ToSet(Tail(s)) \cup {Head(s)}
<1>. DEFINE t == Tail(s)
<1>1. /\ Head(s) \in S /\ t \in Seq(S) /\ Len(t) = Len(s) - 1
      /\ \A i \in 1..Len(t) : t[i] = s[i + 1]
  BY HeadTailProperties
<1>2. Len(s) \in Nat \ {0} /\ Head(s) = s[1]
  BY EmptySeq, LenProperties
<1>3. DOMAIN s = 1..Len(s) /\ DOMAIN t = 1..(Len(s) - 1)
  BY <1>1, LenProperties
<1>. HIDE DEF t
<1>4. \A i \in DOMAIN t : i + 1 \in DOMAIN s /\ t[i] = s[i + 1]
  BY <1>1, <1>2, <1>3
<1>5. \A i \in DOMAIN s : i = 1 \/ (i - 1 \in DOMAIN t /\ s[i] = t[i - 1])
  BY <1>1, <1>2, <1>3
<1>6. 1 \in DOMAIN s
  BY <1>2, <1>3
<1>. QED BY <1>1, <1>2, <1>4, <1>5, <1>6 DEF ToSet, t

(* LREM takes the first occurrence of e and no other element.               *)
LEMMA RemoveFirstSet ==
  ASSUME NEW S, NEW s \in Seq(S), NEW e
  PROVE  /\ ToSet(RemoveFirst(s, e)) \subseteq ToSet(s)
         /\ ToSet(s) \ {e} \subseteq ToSet(RemoveFirst(s, e))
<1>. DEFINE I == {i \in 1..Len(s) : s[i] = e}
<1>1. CASE I = {}
  BY <1>1 DEF RemoveFirst
<1>2. CASE I # {}
  <2>1. Len(s) \in Nat /\ I \subseteq 1..Len(s) /\ DOMAIN s = 1..Len(s)
    BY LenProperties
  <2>2. Min(I) \in I
    BY <1>2, <2>1, MinOfNat
  <2>. DEFINE m == Min(I)
              p == SubSeq(s, 1, m - 1)
              q == SubSeq(s, m + 1, Len(s))
              t == RemoveFirst(s, e)
  <2>3. t = p \o q
    BY <1>2 DEF RemoveFirst, RemoveAt, SelectInSeq
  <2>4. m \in 1..Len(s) /\ s[m] = e
    BY <2>2
  <2>. HIDE DEF m, I
  <2>5. \A i \in 1..Len(s) : s[i] \in S
    BY ElementOfSeq
  <2>6. /\ p \in Seq(S) /\ Len(p) = m - 1
        /\ \A i \in 1..(m - 1) : p[i] = s[i]
    <3>1. 1 \in Int /\ m - 1 \in Int /\ \A i \in 1..(m - 1) : s[i] \in S
      BY <2>1, <2>4, <2>5
    <3>. QED BY <2>4, <3>1, SubSeqProperties
  <2>7. /\ q \in Seq(S) /\ Len(q) = Len(s) - m
        /\ \A i \in 1..(Len(s) - m) : q[i] = s[m + i]
    <3>1. m + 1 \in Int /\ Len(s) \in Int /\ \A i \in (m + 1)..Len(s) : s[i] \in S
      BY <2>1, <2>4, <2>5
    <3>2. /\ q \in Seq(S) /\ Len(q) = (IF m + 1 <= Len(s) THEN Len(s) - (m + 1) + 1 ELSE 0)
          /\ \A i \in 1..(Len(s) - (m + 1) + 1) : q[i] = s[m + 1 + i - 1]
      BY <3>1, SubSeqProperties
    <3>3. \A i \in 1..(Len(s) - m) : m + 1 + i - 1 = m + i
      BY <2>1, <2>4
    <3>4. Len(s) - (m + 1) + 1 = Len(s) - m
      BY <2>1, <2>4
    <3>5. ~(m + 1 <= Len(s)) => Len(s) - m = 0
      <4>1. m \in Int /\ Len(s) \in Int /\ m <= Len(s)
        BY <2>1, <2>4
      <4>2. \A k, n \in Int : k <= n /\ ~(k + 1 <= n) => n - k = 0
        OBVIOUS
      <4>. QED BY <4>1, <4>2
    <3>6. \A i \in 1..(Len(s) - m) : q[i] = s[m + i]
      BY <3>2, <3>3, <3>4
    <3>. QED BY <3>2, <3>4, <3>5, <3>6
  <2>. HIDE DEF p, q
  <2>8. /\ t \in Seq(S) /\ Len(t) = Len(s) - 1
        /\ \A i \in 1..(Len(s) - 1) : t[i] = IF i <= m - 1 THEN p[i] ELSE q[i - (m - 1)]
    <3>. DEFINE u == p \o q
    <3>1. /\ u \in Seq(S) /\ Len(u) = Len(p) + Len(q)
          /\ \A i \in 1..(Len(p) + Len(q)) : u[i] = IF i <= Len(p) THEN p[i] ELSE q[i - Len(p)]
      BY <2>6, <2>7, ConcatProperties
    <3>2. Len(p) = m - 1 /\ Len(p) + Len(q) = Len(s) - 1
      BY <2>1, <2>4, <2>6, <2>7
    <3>3. t = u
      BY <2>3
    <3>. HIDE DEF t, u
    <3>. QED BY <3>1, <3>2, <3>3
  <2>9. DOMAIN t = 1..(Len(s) - 1)
    BY <2>8, LenProperties
  <2>10. \A i \in 1..(Len(s) - 1) : t[i] = IF i < m THEN s[i] ELSE s[i + 1]
    <3>. TAKE i \in 1..(Len(s) - 1)
    <3>1. CASE i < m
      BY <2>1, <2>4, <2>6, <2>8, <3>1
    <3>2. CASE ~(i < m)
      <4>1. i - (m - 1) \in 1..(Len(s) - m) /\ m + (i - (m - 1)) = i + 1
        BY <2>1, <2>4, <3>2
      <4>2. t[i] = q[i - (m - 1)]
        BY <2>1, <2>4, <2>8, <3>2
      <4>. QED BY <2>7, <3>2, <4>1, <4>2
    <3>. QED BY <3>1, <3>2
  <2>. HIDE DEF t
  <2>11. \A i \in DOMAIN t : t[i] \in ToSet(s)
    BY <2>1, <2>4, <2>9, <2>10 DEF ToSet
  <2>12. \A i \in DOMAIN s : s[i] # e => \E k \in DOMAIN t : s[i] = t[k]
    <3>. TAKE i \in DOMAIN s
    <3>1. CASE i < m
      BY <2>1, <2>4, <2>9, <2>10, <3>1
    <3>2. CASE i > m
      <4>1. i - 1 \in DOMAIN t /\ t[i - 1] = s[i]
        BY <2>1, <2>4, <2>9, <2>10, <3>2
      <4>. QED BY <4>1
    <3>. QED BY <2>1, <2>4, <3>1, <3>2
  <2>. QED BY <2>11, <2>12 DEF ToSet, t
<1>. QED BY <1>1, <1>2

-----------------------------------------------------------------------------
(* What a step does to jobs and to rows.                                    *)


\* A step that leaves the two lists and the known keys alone, and every process
\* that is about to push.
QueueAlone ==
  /\ UNCHANGED <<pending, inflight, known>>
  /\ \A h \in Handlers, a \in Atts : hpc[h][a] = "push" =>
       hpc'[h][a] = "push" /\ EnqueuedVersion(h, a)' = EnqueuedVersion(h, a)
  /\ \A w \in Workers : wpc[w] = "pushing" => wpc'[w] = "pushing" /\ job'[w] = job[w]

\* The steps that do not.
QueueMove ==
  \/ \E h \in Handlers, a \in Atts :
       EnqueueAcquires(h, a) \/ EnqueuePushes(h, a) \/ EnqueueRaises(h, a)
  \/ \E w \in Workers :
       RecoverDrops(w) \/ RecoverPushes(w) \/ ClaimMoves(w) \/ AckClears(w) \/ WorkerCrash(w)
  \/ ApiCrash

NoNewJobs == \A j \in Jobs : HasJob(j)' => HasJob(j)

\* A step that changes no status and no version, at most deletes a draft, and
\* lets no worker begin to work on a row and no handler begin to enqueue.
RowsAlone ==
  /\ UNCHANGED <<status, ver>>
  /\ UNCHANGED life \/ \E a \in Atts : Lifecycle!Delete(a)
  /\ NoNewJobs
  /\ \A a \in Atts : Early(a)' => Early(a)
  /\ \A a \in Atts : hpc'["upload"][a] \in {"receiving", "written", "unlinked"} =>
       hpc["upload"][a] \in {"receiving", "written", "unlinked"}
  /\ \A h \in Handlers, a \in Atts : hpc'[h][a] \in Enqueueing =>
       hpc[h][a] \in Enqueueing /\ EnqueuedVersion(h, a)' = EnqueuedVersion(h, a)
  /\ \A w \in Workers : wpc'[w] \in Working => wpc[w] \in Working /\ job'[w] = job[w]

\* The steps that do.
RowMove ==
  \/ \E a \in Atts :
       CreateReceiving(a) \/ RejectUpload(a) \/ StorageFails(a) \/ StoreOriginal(a) \/ PrepareRetry(a)
  \/ \E h \in Handlers, a \in Atts :
       EnqueuePushes(h, a) \/ EnqueueRaises(h, a) \/ EnqueueFailed(h, a)
  \/ SubmitBinds
  \/ \E S \in SUBSET Atts : DeleteConversation(S)
  \/ \E w \in Workers, a \in Atts, v \in Versions :
       \/ StartProcessing(w, a, v) \/ ParseRejects(w, a, v) \/ FailJob(w, a, v)
       \/ Persists(w, a, v) \/ PersistUnanswered(w, a, v)

Moves == (QueueAlone \/ QueueMove) /\ (RowsAlone \/ RowMove)

(* Where a worker may take a job from.                                      *)
LEMMA JobsKept ==
  ASSUME ToSet(pending') \subseteq ToSet(pending) \cup ToSet(inflight) \cup {job[w] : w \in Workers},
         ToSet(inflight') \subseteq ToSet(pending) \cup ToSet(inflight),
         \A w \in Workers : job'[w] \in {NoJob, job[w]} \cup ToSet(pending) \cup ToSet(todo[w]),
         \A w \in Workers : ToSet(todo'[w]) \subseteq ToSet(todo[w]) \cup ToSet(inflight)
  PROVE  NoNewJobs
<1>. SUFFICES ASSUME NEW j \in Jobs, HasJob(j)' PROVE HasJob(j)
  BY DEF NoNewJobs
<1>1. j # NoJob
  BY AttachmentAssumption
<1>2. \/ j \in ToSet(pending') \/ j \in ToSet(inflight')
      \/ \E w \in Workers : job'[w] = j \/ j \in ToSet(todo'[w])
  BY DEF HasJob
<1>. QED BY <1>1, <1>2 DEF HasJob

(* Most often from nowhere.                                                 *)
LEMMA JobsAlone ==
  ASSUME UNCHANGED <<pending, inflight, job, todo>> PROVE NoNewJobs
  BY DEF NoNewJobs, HasJob

LEMMA EmptySet == ToSet(<<>>) = {}
  BY DEF ToSet

(* The upload, retry, enqueue and delete handlers.                          *)
LEMMA HandlerMoves ==
  ASSUME TypeInv,
         \/ \E a \in Atts : UploadStep(a) \/ RetryReads(a) \/ RetryStep(a) \/ DeleteReads(a) \/ DeleteStep(a)
         \/ \E h \in Handlers, a \in Atts : EnqueueStep(h, a)
  PROVE  Moves
<1>. USE DEF TypeInv, TypeOK, QueueAlone, RowsAlone, Early, queueVars, rowVars, resultVars, apiVars, workerVars,
             HandlerAt, DeleteAt, Update, Handlers, EnqueuedVersion, Enqueueing
<1>1. ASSUME NEW a \in Atts, UploadStep(a) PROVE Moves
  <2>1. CASE CreateReceiving(a)
    BY <2>1 DEF CreateReceiving, Moves, RowMove
  <2>2. CASE WriteOriginal(a)
    BY <2>2, JobsAlone DEF WriteOriginal, Moves
  <2>3. CASE RejectUpload(a)
    <3>1. QueueAlone
      BY <2>3 DEF RejectUpload, MarkRejected
    <3>. QED BY <2>3, <3>1 DEF Moves, RowMove
  <2>4. CASE UnlinkRejected(a)
    BY <2>4, JobsAlone DEF UnlinkRejected, Moves
  <2>5. CASE StoreOriginal(a)
    BY <2>5 DEF StoreOriginal, MarkStored, Moves, RowMove
  <2>. QED BY <1>1, <2>1, <2>2, <2>3, <2>4, <2>5 DEF UploadStep
<1>2. ASSUME NEW a \in Atts, RetryReads(a) \/ RetryStep(a) PROVE Moves
  <2>1. CASE RetryReads(a)
    BY <2>1, JobsAlone DEF RetryReads, Moves
  <2>2. CASE PrepareRetry(a)
    BY <2>2 DEF PrepareRetry, Moves, RowMove
  <2>3. CASE RetryRefused(a)
    BY <2>3, JobsAlone DEF RetryRefused, Moves
  <2>. QED BY <1>2, <2>1, <2>2, <2>3 DEF RetryStep
<1>3. ASSUME NEW a \in Atts, DeleteReads(a) \/ DeleteStep(a) PROVE Moves
  <2>1. CASE DeleteReads(a)
    BY <2>1, JobsAlone DEF DeleteReads, Moves
  <2>2. CASE DeleteMarks(a)
    <3>1. QueueAlone
      BY <2>2 DEF DeleteMarks, MarkLifecycleDeleted
    <3>2. UNCHANGED life \/ Lifecycle!Delete(a)
      BY <2>2 DEF DeleteMarks, MarkLifecycleDeleted, Deletable, Exists, RowStatus, Lifecycle!Delete
    <3>3. RowsAlone
      BY <2>2, <3>2, JobsAlone DEF DeleteMarks, MarkLifecycleDeleted
    <3>. QED BY <3>1, <3>3 DEF Moves
  <2>3. CASE DeleteRefused(a)
    BY <2>3, JobsAlone DEF DeleteRefused, Moves
  <2>4. CASE DeleteUnlinks(a)
    BY <2>4, JobsAlone DEF DeleteUnlinks, Moves
  <2>5. CASE DeleteCompletes(a)
    BY <2>5, JobsAlone DEF DeleteCompletes, CompleteDeleted, Moves
  <2>. QED BY <1>3, <2>1, <2>2, <2>3, <2>4, <2>5 DEF DeleteStep
<1>4. ASSUME NEW h \in Handlers, NEW a \in Atts, EnqueueStep(h, a) PROVE Moves
  <2>1. CASE EnqueueAcquires(h, a)
    <3>1. RowsAlone
      BY <2>1, JobsAlone DEF EnqueueAcquires, AcquireKnown
    <3>. QED BY <2>1, <3>1 DEF Moves, QueueMove
  <2>2. CASE EnqueuePushes(h, a)
    BY <2>2 DEF Moves, QueueMove, RowMove
  <2>3. CASE EnqueueFailed(h, a)
    BY <2>3 DEF EnqueueFailed, MarkFailed, Moves, RowMove, Finished
  <2>. QED BY <1>4, <2>1, <2>2, <2>3 DEF EnqueueStep
<1>. QED BY <1>1, <1>2, <1>3, <1>4

(* Submissions and deleted conversations.                                   *)
LEMMA SubmitMoves ==
  ASSUME TypeInv,
         (\E S \in SUBSET Atts : SubmitLocks(S) \/ DeleteConversation(S)) \/ SubmitEnds
  PROVE  Moves
<1>. USE DEF TypeInv, TypeOK, QueueAlone, RowsAlone, Early, queueVars, rowVars, resultVars,
             apiVars, workerVars, Handlers, EnqueuedVersion, Enqueueing
<1>1. ASSUME NEW S \in SUBSET Atts, SubmitLocks(S) PROVE Moves
  BY <1>1, JobsAlone DEF SubmitLocks, Moves
<1>2. ASSUME NEW S \in SUBSET Atts, DeleteConversation(S) PROVE Moves
  <2>1. QueueAlone
    BY <1>2 DEF DeleteConversation
  <2>. QED BY <1>2, <2>1 DEF Moves, RowMove
<1>3. CASE SubmitBinds
  <2>1. QueueAlone
    BY <1>3 DEF SubmitBinds
  <2>. QED BY <1>3, <2>1 DEF Moves, RowMove
<1>4. CASE SubmitRollsBack
  BY <1>4, JobsAlone DEF SubmitRollsBack, Moves
<1>. QED BY <1>1, <1>2, <1>3, <1>4 DEF SubmitEnds

(* A worker that recovers jobs.                                             *)
LEMMA RecoverMoves ==
  ASSUME TypeInv, NEW w \in Workers, RecoverStep(w)
  PROVE  Moves
<1>. USE DEF TypeInv, TypeOK, QueueAlone, RowsAlone, Early, queueVars, rowVars, resultVars,
             apiVars, workerVars, WorkerAt, Working, Handlers, EnqueuedVersion, Enqueueing
<1>1. CASE RecoverLists(w)
  <2>1. NoNewJobs
    <3>1. \A x \in Workers : ToSet(todo'[x]) \subseteq ToSet(todo[x]) \cup ToSet(inflight)
      BY <1>1 DEF RecoverLists
    <3>. QED BY <1>1, <3>1, JobsKept DEF RecoverLists
  <2>. QED BY <1>1, <2>1 DEF RecoverLists, Moves
<1>2. CASE RecoverLooks(w)
  <2>1. NoNewJobs
    <3>1. ToSet(todo[w]) = ToSet(Tail(todo[w])) \cup {Head(todo[w])}
      BY <1>2, HeadTailSet DEF RecoverLooks
    <3>2. \A x \in Workers : job'[x] \in {NoJob, job[x]} \cup ToSet(todo[x])
      BY <1>2, <3>1 DEF RecoverLooks
    <3>3. \A x \in Workers : ToSet(todo'[x]) \subseteq ToSet(todo[x])
      BY <1>2, <3>1 DEF RecoverLooks
    <3>. QED BY <1>2, <3>2, <3>3, JobsKept DEF RecoverLooks
  <2>. QED BY <1>2, <2>1 DEF RecoverLooks, Moves
<1>3. CASE RecoverDrops(w)
  <2>1. NoNewJobs
    <3>1. ToSet(inflight') \subseteq ToSet(inflight)
      BY <1>3, RemoveFirstSet DEF RecoverDrops, DropInflight, QueueTypeOK
    <3>. QED BY <1>3, <3>1, JobsKept DEF RecoverDrops, DropInflight
  <2>2. RowsAlone
    BY <1>3, <2>1 DEF RecoverDrops
  <2>. QED BY <1>3, <2>2 DEF Moves, QueueMove
<1>4. CASE RecoverPushes(w)
  <2>1. NoNewJobs
    <3>1. job[w] \in Jobs
      BY <1>4 DEF RecoverPushes, JobHeld, Holding
    <3>2. ToSet(pending') = ToSet(pending) \cup {job[w]}
      BY <1>4, <3>1, AppendSet DEF RecoverPushes, PushPending, QueueTypeOK
    <3>. QED BY <1>4, <3>2, JobsKept DEF RecoverPushes, PushPending
  <2>2. RowsAlone
    BY <1>4, <2>1 DEF RecoverPushes
  <2>. QED BY <1>4, <2>2 DEF Moves, QueueMove
<1>5. CASE SkipCleanup(w)
  BY <1>5, JobsAlone DEF SkipCleanup, Moves
<1>. QED BY <1>1, <1>2, <1>3, <1>4, <1>5 DEF RecoverStep

(* A process that starts again has no job.                                  *)
LEMMA RestartMoves ==
  ASSUME TypeInv, NEW w \in Workers, Restarts(w),
         UNCHANGED <<queueVars, status, life, ver, hpc, rver>>
  PROVE  RowsAlone /\ (wpc[w] # "pushing" => QueueAlone)
<1>. USE DEF TypeInv, TypeOK, Restarts, queueVars
<1>1. NoNewJobs
  BY JobsKept, EmptySet
<1>2. RowsAlone
  BY <1>1 DEF RowsAlone, Early, Working, Handlers, EnqueuedVersion, Enqueueing
<1>3. ASSUME wpc[w] # "pushing" PROVE QueueAlone
  BY <1>3 DEF QueueAlone, Handlers, EnqueuedVersion
<1>. QED BY <1>2, <1>3

(* A worker that cleans up.                                                 *)
LEMMA CleanMoves ==
  ASSUME TypeInv, NEW w \in Workers, CleanStep(w)
  PROVE  Moves
<1>. USE DEF TypeInv, TypeOK, QueueAlone, RowsAlone, Early, queueVars, rowVars, resultVars,
             apiVars, workerVars, WorkerAt, Working, Handlers, EnqueuedVersion, Enqueueing
<1>1. CASE CleanupLists(w)
  BY <1>1, JobsAlone DEF CleanupLists, Moves
<1>2. ASSUME NEW a \in Atts, CleanerMarks(w, a) PROVE Moves
  <2>1. QueueAlone
    BY <1>2 DEF CleanerMarks, MarkLifecycleDeleted
  <2>2. UNCHANGED life \/ Lifecycle!Delete(a)
    BY <1>2 DEF CleanerMarks, MarkLifecycleDeleted, Deletable, Exists, RowStatus, Lifecycle!Delete
  <2>3. RowsAlone
    BY <1>2, <2>2, JobsAlone DEF CleanerMarks, MarkLifecycleDeleted
  <2>. QED BY <2>1, <2>3 DEF Moves
<1>3. CASE CleanerUnlinks(w)
  BY <1>3, JobsAlone DEF CleanerUnlinks, Moves
<1>4. CASE CleanerCompletes(w)
  BY <1>4, JobsAlone DEF CleanerCompletes, CompleteDeleted, Moves
<1>5. CASE CleanerRaises(w)
  BY <1>5, RestartMoves DEF CleanerRaises, Moves
<1>6. CASE CleanupEnds(w) \/ SweepEnds(w)
  BY <1>6, JobsAlone DEF CleanupEnds, SweepEnds, Moves
<1>7. ASSUME NEW f \in Files, OutboxClaims(w, f) PROVE Moves
  BY <1>7, JobsAlone DEF OutboxClaims, Moves
<1>8. CASE OutboxUnlinks(w)
  BY <1>8, JobsAlone DEF OutboxUnlinks, Moves
<1>9. CASE OutboxCompletes(w)
  BY <1>9, JobsAlone DEF OutboxCompletes, SettleOutbox, Moves
<1>. QED BY <1>1, <1>2, <1>3, <1>4, <1>5, <1>6, <1>7, <1>8, <1>9 DEF CleanStep

(* A worker that claims or acknowledges a job.                              *)
LEMMA ClaimMovesJobs ==
  ASSUME TypeInv, NEW w \in Workers,
         \/ ClaimNothing(w) \/ ClaimMoves(w) \/ ClaimLeases(w) \/ ParseFails(w)
         \/ AckChecks(w) \/ AckClears(w)
  PROVE  Moves
<1>. USE DEF TypeInv, TypeOK, QueueAlone, RowsAlone, Early, queueVars, rowVars, resultVars,
             apiVars, workerVars, WorkerAt, Working, Handlers, EnqueuedVersion, Enqueueing
<1>1. CASE ClaimNothing(w) \/ ParseFails(w)
  BY <1>1, JobsAlone DEF ClaimNothing, ParseFails, Moves
<1>2. CASE ClaimMoves(w)
  <2>1. Head(pending) \in Jobs /\ ToSet(pending) = ToSet(Tail(pending)) \cup {Head(pending)}
    BY <1>2, HeadTailSet DEF ClaimMoves, MoveToInflight, QueueTypeOK
  <2>2. ToSet(Append(inflight, Head(pending))) = ToSet(inflight) \cup {Head(pending)}
    BY <2>1, AppendSet DEF QueueTypeOK
  <2>3. NoNewJobs
    BY <1>2, <2>1, <2>2, JobsKept DEF ClaimMoves, MoveToInflight
  <2>4. RowsAlone
    BY <1>2, <2>3 DEF ClaimMoves
  <2>. QED BY <1>2, <2>4 DEF Moves, QueueMove
<1>3. CASE ClaimLeases(w)
  BY <1>3, JobsAlone DEF ClaimLeases, SetLease, Moves
<1>4. CASE AckChecks(w)
  <2>1. NoNewJobs
    BY <1>4, JobsKept DEF AckChecks
  <2>. QED BY <1>4, <2>1 DEF AckChecks, Moves
<1>5. CASE AckClears(w)
  <2>1. NoNewJobs
    <3>1. ToSet(inflight') \subseteq ToSet(inflight)
      BY <1>5, RemoveFirstSet DEF AckClears, Acknowledge, QueueTypeOK
    <3>. QED BY <1>5, <3>1, JobsKept DEF AckClears, Acknowledge
  <2>2. RowsAlone
    BY <1>5, <2>1 DEF AckClears
  <2>. QED BY <1>5, <2>2 DEF Moves, QueueMove
<1>. QED BY <1>1, <1>2, <1>3, <1>4, <1>5

(* A worker that works on one.                                              *)
LEMMA JobMoves ==
  ASSUME TypeInv, NEW w \in Workers, NEW a \in Atts, NEW v \in Versions, JobStep(w, a, v)
  PROVE  Moves
<1>. USE DEF TypeInv, TypeOK, QueueAlone, RowsAlone, Early, queueVars, rowVars, resultVars,
             apiVars, workerVars, WorkerAt, Working, Handlers, EnqueuedVersion, Enqueueing
<1>1. CASE StartProcessing(w, a, v)
  <2>1. QueueAlone
    BY <1>1 DEF StartProcessing
  <2>. QED BY <1>1, <2>1 DEF Moves, RowMove
<1>2. CASE SkipJob(w, a, v)
  BY <1>2, JobsAlone DEF SkipJob, Moves
<1>3. CASE ParseRejects(w, a, v)
  <2>1. QueueAlone
    BY <1>3 DEF ParseRejects, MarkRejected
  <2>. QED BY <1>3, <2>1 DEF Moves, RowMove
<1>4. CASE Materializes(w, a, v)
  BY <1>4, JobsAlone DEF Materializes, Moves
<1>5. CASE Persists(w, a, v)
  <2>1. QueueAlone
    BY <1>5 DEF Persists, CommitResult
  <2>. QED BY <1>5, <2>1 DEF Moves, RowMove
<1>6. CASE PersistRaises(w, a, v)
  BY <1>6, JobsAlone DEF PersistRaises, Moves
<1>7. CASE FailJob(w, a, v)
  <2>1. QueueAlone
    BY <1>7 DEF FailJob, MarkFailed
  <2>. QED BY <1>7, <2>1 DEF Moves, RowMove
<1>8. CASE RowVanished(w, a, v)
  BY <1>8, RestartMoves DEF RowVanished, Moves
<1>. QED BY <1>1, <1>2, <1>3, <1>4, <1>5, <1>6, <1>7, <1>8 DEF JobStep

(* The clock and the faults.                                                *)
LEMMA OutsideMoves ==
  ASSUME TypeInv, ClockStep \/ FaultStep PROVE Moves
<1>. USE DEF TypeInv, TypeOK, QueueAlone, RowsAlone, Early, queueVars, rowVars, resultVars,
             apiVars, workerVars, HandlerAt, DeleteAt, WorkerAt, Working, Handlers, EnqueuedVersion, Enqueueing
<1>1. ASSUME NEW a \in Atts, DraftExpires(a) PROVE Moves
  BY <1>1, JobsAlone DEF DraftExpires, Moves
<1>2. ASSUME NEW f \in Files, OutboxRowDue(f) PROVE Moves
  BY <1>2, JobsAlone DEF OutboxRowDue, Moves
<1>3. ASSUME NEW j \in Jobs, LeaseTimesOut(j) PROVE Moves
  BY <1>3, JobsAlone DEF LeaseTimesOut, LeaseExpires, Moves
<1>4. ASSUME NEW a \in Atts, StorageFails(a) PROVE Moves
  <2>1. QueueAlone
    BY <1>4 DEF StorageFails, MarkFailed
  <2>. QED BY <1>4, <2>1 DEF Moves, RowMove
<1>5. ASSUME NEW a \in Atts, DeleteUnlinkFails(a) PROVE Moves
  BY <1>5, JobsAlone DEF DeleteUnlinkFails, Moves
<1>6. ASSUME NEW h \in Handlers, NEW a \in Atts, EnqueueRaises(h, a) PROVE Moves
  BY <1>6 DEF Moves, QueueMove, RowMove
<1>7. CASE ApiCrash
  <2>1. RowsAlone
    BY <1>7, JobsAlone DEF ApiCrash, Finished
  <2>. QED BY <1>7, <2>1 DEF Moves, QueueMove
<1>8. ASSUME NEW w \in Workers, CleanerUnlinkFails(w) PROVE Moves
  BY <1>8, JobsAlone DEF CleanerUnlinkFails, Moves
<1>9. ASSUME NEW w \in Workers, OutboxRetries(w) PROVE Moves
  BY <1>9, JobsAlone DEF OutboxRetries, SettleOutbox, Moves
<1>10. ASSUME NEW w \in Workers, WorkerCrash(w) PROVE Moves
  BY <1>10, RestartMoves DEF WorkerCrash, Moves, QueueMove
<1>11. ASSUME NEW w \in Workers, NEW a \in Atts, NEW v \in Versions, MaterializeFails(w, a, v) PROVE Moves
  BY <1>11, JobsAlone DEF MaterializeFails, Moves
<1>12. ASSUME NEW w \in Workers, NEW a \in Atts, NEW v \in Versions, PersistUnanswered(w, a, v) PROVE Moves
  <2>1. QueueAlone
    BY <1>12 DEF PersistUnanswered, CommitResult
  <2>. QED BY <1>12, <2>1 DEF Moves, RowMove
<1>. QED BY <1>1, <1>2, <1>3, <1>4, <1>5, <1>6, <1>7, <1>8, <1>9, <1>10, <1>11, <1>12
     DEF ClockStep, FaultStep

(* Every step leaves the jobs alone or is a step of the queue, and leaves   *)
(* the rows alone or is a step of a row.                                    *)
LEMMA NextMoves ==
  ASSUME TypeInv, [Next]_vars PROVE Moves
<1>1. ASSUME NEW w \in Workers, WorkerStep(w) PROVE Moves
  BY <1>1, RecoverMoves, CleanMoves, JobMoves, ClaimMovesJobs DEF WorkerStep
<1>2. CASE UNCHANGED vars
  BY <1>2, JobsAlone DEF vars, Moves, QueueAlone, RowsAlone, Early, queueVars, rowVars,
     apiVars, workerVars, EnqueuedVersion, Working
<1>3. CASE ClockStep \/ FaultStep
  BY <1>3, OutsideMoves
<1>4. CASE SubmitEnds
  BY <1>4, SubmitMoves
<1>5. ASSUME NEW S \in SUBSET Atts, SubmitLocks(S) \/ DeleteConversation(S) PROVE Moves
  BY <1>5, SubmitMoves
<1>6. ASSUME NEW a \in Atts,
             UploadStep(a) \/ RetryReads(a) \/ RetryStep(a) \/ DeleteReads(a) \/ DeleteStep(a)
      PROVE  Moves
  BY <1>6, HandlerMoves
<1>7. ASSUME NEW h \in Handlers, NEW a \in Atts, EnqueueStep(h, a) PROVE Moves
  BY <1>7, HandlerMoves
<1>. QED BY <1>1, <1>2, <1>3, <1>4, <1>5, <1>6, <1>7 DEF Next

-----------------------------------------------------------------------------
(* Jobs: the known key stands for a job that is somewhere.                  *)

InLists(j) == j \in ToSet(pending) \cup ToSet(inflight)
AtPush(j) == \E h \in Handlers : hpc[h][j[1]] = "push" /\ j[2] = EnqueuedVersion(h, j[1])
InHand(j) == \E w \in Workers : wpc[w] = "pushing" /\ job[w] = j

(* A step that leaves the queue alone loses nothing.                        *)
LEMMA AloneKeepsJobs ==
  ASSUME TypeInv, JobNotLost, QueueAlone PROVE JobNotLost'
<1>. SUFFICES ASSUME NEW j \in known
              PROVE  (InLists(j) \/ AtPush(j) \/ InHand(j))'
  BY DEF JobNotLost, InLists, AtPush, InHand, QueueAlone
<1>1. j \in Jobs /\ j[1] \in Atts
  BY JobIsPair DEF TypeInv, TypeOK, QueueTypeOK, Jobs
<1>2. InLists(j) => InLists(j)'
  BY DEF InLists, QueueAlone
<1>3. AtPush(j) => AtPush(j)'
  BY <1>1 DEF AtPush, QueueAlone
<1>4. InHand(j) => InHand(j)'
  BY DEF InHand, QueueAlone
<1>. QED BY <1>2, <1>3, <1>4 DEF JobNotLost, InLists, AtPush, InHand

(* Nor does a step of the queue, when no process dies.                      *)
LEMMA MoveKeepsJobs ==
  ASSUME TypeInv, JobNotLost, QueueMove, {"worker", "api"} \cap FaultKinds = {}
  PROVE  JobNotLost'
<1>. SUFFICES ASSUME NEW j \in known'
              PROVE  (InLists(j) \/ AtPush(j) \/ InHand(j))'
  BY DEF JobNotLost, InLists, AtPush, InHand
<1>. USE DEF TypeInv, TypeOK, QueueTypeOK, HandlerAt, WorkerAt, apiVars, workerVars
<1>1. ASSUME NEW h \in Handlers, NEW a \in Atts, EnqueueAcquires(h, a)
      PROVE  (InLists(j) \/ AtPush(j) \/ InHand(j))'
  <2>1. /\ known' = known \cup {<<a, EnqueuedVersion(h, a)>>}
        /\ UNCHANGED <<pending, inflight, wpc, job, rver>>
        /\ hpc'[h][a] = "push"
        /\ \A g \in Handlers, b \in Atts : hpc[g][b] = "push" => hpc'[g][b] = "push"
    BY <1>1 DEF EnqueueAcquires, AcquireKnown
  <2>2. CASE j = <<a, EnqueuedVersion(h, a)>>
    BY <2>1, <2>2 DEF AtPush, EnqueuedVersion
  <2>3. CASE j \in known
    <3>1. j[1] \in Atts
      BY <2>3 DEF Jobs
    <3>2. (InLists(j) => InLists(j)') /\ (InHand(j) => InHand(j)')
      BY <2>1 DEF InLists, InHand
    <3>3. AtPush(j) => AtPush(j)'
      BY <2>1, <3>1 DEF AtPush, EnqueuedVersion
    <3>. QED BY <2>3, <3>2, <3>3 DEF JobNotLost, InLists, AtPush, InHand
  <2>. QED BY <2>1, <2>2, <2>3
<1>2. ASSUME NEW h \in Handlers, NEW a \in Atts, EnqueuePushes(h, a) \/ EnqueueRaises(h, a)
      PROVE  (InLists(j) \/ AtPush(j) \/ InHand(j))'
  <2>. DEFINE k == <<a, EnqueuedVersion(h, a)>>
  <2>0. ToSet(Append(pending, k)) = ToSet(pending) \cup {k}
    <3>1. k \in Jobs /\ pending \in Seq(Jobs)
      BY EnqueuedIsJob
    <3>. HIDE DEF k
    <3>. QED BY <3>1, AppendSet
  <2>1. /\ known' \subseteq known /\ UNCHANGED <<inflight, wpc, job, rver>>
        /\ \A g \in Handlers, b \in Atts : hpc[g][b] = "push" =>
             hpc'[g][b] = "push" \/ (g = h /\ b = a)
    BY <1>2 DEF EnqueuePushes, EnqueueRaises, PushPending, PushRaised
  <2>2. ToSet(pending) \subseteq ToSet(pending')
    <3>1. pending' = Append(pending, k) \/ pending' = pending
      BY <1>2 DEF EnqueuePushes, EnqueueRaises, PushPending, PushRaised
    <3>. QED BY <2>0, <3>1
  <2>3. j = k => InLists(j)'
    <3>1. CASE EnqueuePushes(h, a)
      <4>1. pending' = Append(pending, k)
        BY <3>1 DEF EnqueuePushes, PushPending
      <4>. QED BY <2>0, <4>1 DEF InLists
    <3>2. CASE EnqueueRaises(h, a)
      BY <3>2 DEF EnqueueRaises, PushRaised
    <3>. QED BY <1>2, <3>1, <3>2
  <2>4. CASE j # k
    <3>1. j \in known /\ j \in Jobs /\ j[1] \in Atts /\ j = <<j[1], j[2]>>
      BY <2>1 DEF Jobs
    <3>2. (InLists(j) => InLists(j)') /\ (InHand(j) => InHand(j)')
      BY <2>1, <2>2 DEF InLists, InHand
    <3>3. AtPush(j) => AtPush(j)'
      BY <2>1, <2>4, <3>1 DEF AtPush, EnqueuedVersion
    <3>. QED BY <3>1, <3>2, <3>3 DEF JobNotLost, InLists, AtPush, InHand
  <2>. QED BY <2>3, <2>4
<1>3. ASSUME NEW w \in Workers, RecoverDrops(w)
      PROVE  (InLists(j) \/ AtPush(j) \/ InHand(j))'
  <2>1. /\ UNCHANGED <<known, pending, job, hpc, rver>>
        /\ ToSet(inflight) \ {job[w]} \subseteq ToSet(inflight')
        /\ wpc'[w] = "pushing" /\ \A x \in Workers : wpc[x] = "pushing" => wpc'[x] = "pushing"
    BY <1>3, RemoveFirstSet DEF RecoverDrops, DropInflight
  <2>2. (AtPush(j) => AtPush(j)') /\ (InHand(j) => InHand(j)')
    BY <2>1 DEF AtPush, InHand, EnqueuedVersion
  <2>3. InLists(j) => InLists(j)' \/ InHand(j)'
    BY <2>1 DEF InLists, InHand
  <2>. QED BY <2>1, <2>2, <2>3 DEF JobNotLost, InLists, AtPush, InHand
<1>4. ASSUME NEW w \in Workers, RecoverPushes(w)
      PROVE  (InLists(j) \/ AtPush(j) \/ InHand(j))'
  <2>1. /\ UNCHANGED <<known, inflight, hpc, rver>> /\ pending' = Append(pending, job[w])
        /\ \A x \in Workers \ {w} : wpc[x] = "pushing" => wpc'[x] = "pushing" /\ job'[x] = job[x]
        /\ job[w] \in Jobs
    BY <1>4 DEF RecoverPushes, PushPending, JobHeld, Holding
  <2>2. ToSet(pending') = ToSet(pending) \cup {job[w]}
    BY <2>1, AppendSet
  <2>3. (AtPush(j) => AtPush(j)') /\ (InLists(j) => InLists(j)')
    BY <2>1, <2>2 DEF AtPush, InLists, EnqueuedVersion
  <2>4. InHand(j) => InLists(j)' \/ InHand(j)'
    BY <2>1, <2>2 DEF InLists, InHand
  <2>. QED BY <2>1, <2>3, <2>4 DEF JobNotLost, InLists, AtPush, InHand
<1>5. ASSUME NEW w \in Workers, ClaimMoves(w)
      PROVE  (InLists(j) \/ AtPush(j) \/ InHand(j))'
  <2>1. /\ UNCHANGED <<known, hpc, rver>> /\ pending # <<>>
        /\ pending' = Tail(pending) /\ inflight' = Append(inflight, Head(pending))
        /\ \A x \in Workers : wpc[x] = "pushing" => wpc'[x] = "pushing" /\ job'[x] = job[x]
    BY <1>5 DEF ClaimMoves, MoveToInflight
  <2>2. Head(pending) \in Jobs /\ ToSet(pending) = ToSet(pending') \cup {Head(pending)}
    BY <2>1, HeadTailSet
  <2>3. ToSet(inflight') = ToSet(inflight) \cup {Head(pending)}
    BY <2>1, <2>2, AppendSet
  <2>4. InLists(j) => InLists(j)'
    BY <2>2, <2>3 DEF InLists
  <2>5. (AtPush(j) => AtPush(j)') /\ (InHand(j) => InHand(j)')
    BY <2>1 DEF AtPush, InHand, EnqueuedVersion
  <2>. QED BY <2>1, <2>4, <2>5 DEF JobNotLost, InLists, AtPush, InHand
<1>6. ASSUME NEW w \in Workers, AckClears(w)
      PROVE  (InLists(j) \/ AtPush(j) \/ InHand(j))'
  <2>1. /\ known' = known \ {job[w]} /\ UNCHANGED <<pending, hpc, rver>>
        /\ \A x \in Workers : wpc[x] = "pushing" => wpc'[x] = "pushing" /\ job'[x] = job[x]
        /\ ToSet(inflight) \ {job[w]} \subseteq ToSet(inflight')
    BY <1>6, RemoveFirstSet DEF AckClears, Acknowledge
  <2>2. (AtPush(j) => AtPush(j)') /\ (InHand(j) => InHand(j)')
    BY <2>1 DEF AtPush, InHand, EnqueuedVersion
  <2>3. InLists(j) => InLists(j)'
    BY <2>1 DEF InLists
  <2>. QED BY <2>1, <2>2, <2>3 DEF JobNotLost, InLists, AtPush, InHand
<1>7. ~ApiCrash /\ \A w \in Workers : ~WorkerCrash(w)
  BY DEF ApiCrash, WorkerCrash, Fault
<1>. QED BY <1>1, <1>2, <1>3, <1>4, <1>5, <1>6, <1>7 DEF QueueMove

(* When neither a worker nor runtime-api dies, no job is lost: while its    *)
(* known key stands (and keeps the same job from being queued again) it is  *)
(* in a list or about to be pushed, through any overlap of claiming,        *)
(* recovering and acknowledging workers and failing or unanswered pushes.   *)
THEOREM JobsAreNotLost ==
  ASSUME {"worker", "api"} \cap FaultKinds = {}
  PROVE  Spec => []JobNotLost
<1>1. Init => JobNotLost
  BY DEF Init, QueueInit, JobNotLost
<1>2. TypeInv /\ JobNotLost /\ [Next]_vars => JobNotLost'
  BY NextMoves, AloneKeepsJobs, MoveKeepsJobs DEF Moves
<1>. QED BY <1>1, <1>2, TypeInvariant, PTL DEF Spec

-----------------------------------------------------------------------------
(* The order of a row's statuses, with one worker process, and when every   *)
(* push and commit is answered.                                             *)

OneWorker == \A w, x \in Workers : w = x
PushesAnswered == "push_reply" \notin FaultKinds

(* Steps that leave the rows alone preserve the invariant.                  *)
LEMMA AloneOrder ==
  ASSUME TypeInv, OrderInv, RowsAlone PROVE OrderInv'
<1>1. VersionsInv'
  BY DEF OrderInv, VersionsInv, RowsAlone, NoNewJobs, Jobs
<1>2. HandlersInv'
  <2>1. \A h \in Handlers, a \in Atts : <<a, EnqueuedVersion(h, a)>> \in Jobs
    BY EnqueuedIsJob DEF TypeInv
  <2>2. ASSUME NEW a \in Atts, hpc'["upload"][a] \in {"receiving", "written", "unlinked"}
        PROVE  status'[a] = "receiving"
    BY <2>2 DEF OrderInv, HandlersInv, RowsAlone
  <2>3. ASSUME NEW a \in Atts, NEW h \in Handlers, hpc'[h][a] \in Enqueueing
        PROVE  /\ ver'[a] = EnqueuedVersion(h, a)' /\ ~HasJob(<<a, EnqueuedVersion(h, a)>>)'
               /\ status'[a] = (IF h = "upload" THEN "stored" ELSE "processing")
               /\ life'[a] # "attached"
    <3>. DEFINE e == EnqueuedVersion(h, a)
    <3>1. e' = e /\ hpc[h][a] \in Enqueueing
      BY <2>3 DEF RowsAlone
    <3>2. /\ ver[a] = e /\ ~HasJob(<<a, e>>)
          /\ status[a] = (IF h = "upload" THEN "stored" ELSE "processing")
          /\ life[a] # "attached"
      BY <3>1 DEF OrderInv, HandlersInv
    <3>3. <<a, e>> \in Jobs
      BY <2>1
    <3>. HIDE DEF e
    <3>4. ~HasJob(<<a, e>>)'
      BY <3>1, <3>2, <3>3 DEF RowsAlone, NoNewJobs, HasJob
    <3>5. life'[a] # "attached"
      BY <3>2 DEF RowsAlone, Lifecycle!Delete, TypeInv, TypeOK
    <3>. QED BY <3>1, <3>2, <3>4, <3>5 DEF RowsAlone, HasJob, e
  <2>. QED BY <2>2, <2>3 DEF HandlersInv, HasJob
<1>3. WorkInv'
  BY DEF OrderInv, WorkInv, RowsAlone, Working
<1>4. ASSUME CommitsAnswered PROVE StatusInv'
  <2>1. \A w \in Workers : wpc'[w] \in Working => status'[job'[w][1]] = "processing"
    BY <1>4 DEF OrderInv, StatusInv, RowsAlone, Working
  <2>2. \A a \in Atts : life'[a] = "attached" => status'[a] \in {"ready", "removed"}
    BY <1>4 DEF OrderInv, StatusInv, RowsAlone, Lifecycle!Delete, TypeInv, TypeOK
  <2>. QED BY <2>1, <2>2 DEF StatusInv
<1>. QED BY <1>1, <1>2, <1>3, <1>4 DEF OrderInv

(* Until its upload is stored a row has no job, no worker and no retry.     *)
LEMMA EarlyRow ==
  ASSUME TypeInv, SafeInv, OrderInv, NEW a \in Atts, Early(a)
  PROVE  /\ ver[a] = 1 /\ life[a] # "attached"
         /\ hpc["retry"][a] = "none"
         /\ \A v \in Versions : ~HasJob(<<a, v>>)
         /\ \A w \in Workers : wpc[w] \in Working => job[w][1] # a
<1>1. ver[a] = 1 /\ life[a] # "attached" /\ hpc["retry"][a] = "none"
  BY DEF SafeInv, UploadInv, AttachedHasPath, OrderInv, VersionsInv
<1>2. \A v \in Versions : ~HasJob(<<a, v>>)
  BY JobIsPair DEF OrderInv, VersionsInv
<1>3. \A w \in Workers : wpc[w] \in Working => job[w][1] # a
  BY DEF SafeInv, ParseInv, Working
<1>. QED BY <1>1, <1>2, <1>3

(* While a handler enqueues the job of a row, no worker and no other        *)
(* handler has to do with it.                                               *)
LEMMA WaitingRow ==
  ASSUME TypeInv, SafeInv, OrderInv, NEW h \in Handlers, NEW a \in Atts, hpc[h][a] \in Enqueueing
  PROVE  /\ ~Early(a) /\ life[a] # "attached" /\ ver[a] = EnqueuedVersion(h, a)
         /\ status[a] = (IF h = "upload" THEN "stored" ELSE "processing")
         /\ ~HasJob(<<a, ver[a]>>)
         /\ \A g \in Handlers \ {h} : hpc[g][a] \notin Enqueueing
         /\ \A w \in Workers : wpc[w] \in Working => job[w][1] # a
<1>1. /\ ver[a] = EnqueuedVersion(h, a) /\ ~HasJob(<<a, ver[a]>>)
      /\ status[a] = (IF h = "upload" THEN "stored" ELSE "processing")
  BY DEF OrderInv, HandlersInv
<1>2. ~Early(a)
  BY <1>1 DEF SafeInv, UploadInv
<1>3. life[a] # "attached"
  BY DEF OrderInv, HandlersInv
<1>4. \A g \in Handlers \ {h} : hpc[g][a] \notin Enqueueing
  BY <1>1 DEF OrderInv, HandlersInv, Handlers
<1>5. ASSUME NEW w \in Workers, wpc[w] \in Working, job[w][1] = a PROVE FALSE
  <2>1. job[w] \in Jobs /\ job[w] = <<job[w][1], job[w][2]>>
    BY <1>5 DEF TypeInv, JobHeld, Holding, Working, Jobs
  <2>2. ver[a] = job[w][2]
    BY <1>5 DEF OrderInv, WorkInv, Working
  <2>3. job[w] = <<a, ver[a]>>
    BY <1>5, <2>1, <2>2
  <2>. QED BY <1>1, <2>3 DEF HasJob
<1>. QED BY <1>1, <1>2, <1>3, <1>4, <1>5

(* While a worker has the job of a row's version, no handler does.          *)
LEMMA WorkedRow ==
  ASSUME TypeInv, SafeInv, OrderInv, NEW w \in Workers, NEW a \in Atts, job[w] = <<a, ver[a]>>
  PROVE  /\ ~Early(a)
         /\ \A h \in Handlers : hpc[h][a] \notin Enqueueing
<1>1. <<a, ver[a]>> \in Jobs /\ HasJob(<<a, ver[a]>>)
  BY JobIsPair DEF TypeInv, TypeOK, HasJob
<1>2. ~Early(a)
  BY <1>1 DEF OrderInv, VersionsInv
<1>3. \A h \in Handlers : hpc[h][a] \notin Enqueueing
  BY <1>1, WaitingRow
<1>. QED BY <1>2, <1>3

RowsFollow == [Lifecycle!Next]_<<status, life>>

(* The steps of the upload handler on the row.                              *)
LEMMA UploadOrder ==
  ASSUME TypeInv, SafeInv, OrderInv, NEW a \in Atts,
         CreateReceiving(a) \/ RejectUpload(a) \/ StorageFails(a) \/ StoreOriginal(a)
  PROVE  OrderInv' /\ RowsFollow
<1>. USE DEF TypeInv, TypeOK, queueVars, rowVars, resultVars, apiVars, workerVars, HandlerAt,
             Handlers
<1>1. /\ UNCHANGED <<ver, life, pending, inflight, job, todo, wpc, rver>>
      /\ Early(a) /\ hpc["upload"][a] # "done" /\ status[a] \in {"none", "receiving"}
      /\ \A b \in Atts \ {a} : status'[b] = status[b] /\ hpc'["upload"][b] = hpc["upload"][b]
      /\ \A b \in Atts : hpc'["retry"][b] = hpc["retry"][b]
      /\ \/ status[a] = "none" /\ status'[a] = "receiving" /\ hpc'["upload"][a] = "receiving"
         \/ status[a] = "receiving" /\ status'[a] \in {"rejected", "failed"} /\ hpc'["upload"][a] = "done"
         \/ status[a] = "receiving" /\ status'[a] = "stored" /\ hpc'["upload"][a] = "enqueue"
  <2>1. CASE CreateReceiving(a)
    BY <2>1 DEF CreateReceiving, Early
  <2>2. CASE RejectUpload(a)
    <3>1. PICK from \in {"receiving", "unlinked"} : HandlerAt("upload", a, from, "done")
      BY <2>2 DEF RejectUpload
    <3>. QED BY <2>2, <3>1 DEF RejectUpload, MarkRejected, Update, Early, OrderInv, HandlersInv
  <2>3. CASE StorageFails(a)
    BY <2>3 DEF StorageFails, MarkFailed, Update, Early, OrderInv, HandlersInv
  <2>4. CASE StoreOriginal(a)
    BY <2>4 DEF StoreOriginal, MarkStored, Update, Early, OrderInv, HandlersInv
  <2>. QED BY <2>1, <2>2, <2>3, <2>4
<1>2. \A j : HasJob(j)' <=> HasJob(j)
  BY <1>1 DEF HasJob
<1>3. VersionsInv'
  BY <1>1, <1>2, EarlyRow DEF OrderInv, VersionsInv, Early, Jobs
<1>4. HandlersInv'
  <2>1. ASSUME NEW b \in Atts, hpc'["upload"][b] \in {"receiving", "written", "unlinked"}
        PROVE  status'[b] = "receiving"
    BY <1>1, <2>1 DEF OrderInv, HandlersInv
  <2>2. ASSUME NEW b \in Atts, NEW h \in Handlers, hpc'[h][b] \in Enqueueing
        PROVE  /\ ver[b] = EnqueuedVersion(h, b) /\ ~HasJob(<<b, EnqueuedVersion(h, b)>>)
               /\ status'[b] = (IF h = "upload" THEN "stored" ELSE "processing")
               /\ life[b] # "attached"
    <3>1. CASE b = a
      <4>1. h = "upload" /\ status'[a] = "stored"
        BY <1>1, <2>2, <3>1, EarlyRow DEF Enqueueing
      <4>. QED BY <1>1, <3>1, <4>1, EarlyRow DEF EnqueuedVersion
    <3>2. CASE b # a
      BY <1>1, <2>2, <3>2 DEF OrderInv, HandlersInv
    <3>. QED BY <3>1, <3>2
  <2>3. \A h \in Handlers, b \in Atts : EnqueuedVersion(h, b)' = EnqueuedVersion(h, b)
    BY <1>1 DEF EnqueuedVersion
  <2>. QED BY <1>1, <1>2, <2>1, <2>2, <2>3 DEF HandlersInv
<1>5. WorkInv'
  BY <1>1, EarlyRow, Parts DEF OrderInv, WorkInv, Working, JobHeld, Holding
<1>6. ASSUME CommitsAnswered PROVE StatusInv'
  <2>1. \A w \in Workers : wpc[w] \in Working => job[w][1] \in Atts \ {a}
    BY <1>1, EarlyRow, Parts DEF JobHeld, Holding, Working
  <2>2. life[a] # "attached"
    BY <1>1, EarlyRow
  <2>. QED BY <1>1, <1>6, <2>1, <2>2 DEF OrderInv, StatusInv
<1>7. RowsFollow
  <2>1. status' = [status EXCEPT ![a] = status'[a]]
    <3>1. \E new : status' = [status EXCEPT ![a] = new]
      BY DEF CreateReceiving, RejectUpload, StorageFails, StoreOriginal, MarkRejected, MarkFailed,
         MarkStored, Update
    <3>. QED BY <3>1
  <2>2. status[a] = "none" => Lifecycle!Upload(a)
    BY <1>1, <2>1 DEF Lifecycle!Upload
  <2>3. status[a] = "receiving" => Lifecycle!Advance(a, status'[a])
    BY <1>1, <2>1, EarlyRow DEF Lifecycle!Advance, Lifecycle!ALLOWED_TRANSITIONS
  <2>. QED BY <1>1, <2>2, <2>3 DEF RowsFollow, Lifecycle!Next
<1>. QED BY <1>3, <1>4, <1>5, <1>6, <1>7 DEF OrderInv

(* The retry that goes through.                                             *)
LEMMA RetryOrder ==
  ASSUME TypeInv, SafeInv, OrderInv, NEW a \in Atts, PrepareRetry(a)
  PROVE  OrderInv' /\ RowsFollow
<1>. USE DEF TypeInv, TypeOK, queueVars, rowVars, resultVars, apiVars, workerVars, Handlers
<1>1. /\ UNCHANGED <<life, pending, inflight, job, todo, wpc>>
      /\ hpc["retry"][a] = "retrying" /\ hpc'["retry"][a] = "enqueue"
      /\ \A b \in Atts \ {a} : hpc'["retry"][b] = hpc["retry"][b] /\ rver'[b] = rver[b]
      /\ \A b \in Atts : hpc'["upload"][b] = hpc["upload"][b]
      /\ status[a] = "failed" /\ life[a] = "draft" /\ ver[a] = rver[a]
      /\ status' = [status EXCEPT ![a] = "processing"]
      /\ ver' = [ver EXCEPT ![a] = ver[a] + 1] /\ rver'[a] = ver[a] + 1
      /\ ver[a] \in Nat
    BY DEF PrepareRetry, Retryable, Update, Versions
<1>2. \A j : HasJob(j)' <=> HasJob(j)
  BY <1>1 DEF HasJob
<1>3. ~Early(a) /\ \A h \in Handlers : hpc[h][a] \notin Enqueueing
  <2>1. ~Early(a)
    BY <1>1 DEF SafeInv, UploadInv
  <2>. QED BY <1>1, <2>1, WaitingRow
<1>4. ~HasJob(<<a, ver[a] + 1>>)
  <2>1. ver[a] + 1 \in Versions
    BY <1>1, QueueAssumption DEF RetryBounded, Versions
  <2>2. <<a, ver[a] + 1>> \in Jobs
    BY <2>1, JobIsPair
  <2>. QED BY <1>1, <2>2 DEF OrderInv, VersionsInv
<1>5. VersionsInv'
  <2>1. ASSUME NEW j \in Jobs, HasJob(j)' PROVE ~Early(j[1])' /\ j[2] <= ver'[j[1]]
    <3>1. ~Early(j[1]) /\ j[2] <= ver[j[1]] /\ j[1] \in Atts /\ j[2] \in Nat
      BY <1>2, <2>1 DEF OrderInv, VersionsInv, Jobs, Versions
    <3>2. ~Early(j[1])'
      BY <1>1, <3>1 DEF Early
    <3>3. j[2] <= ver'[j[1]]
      BY <1>1, <3>1
    <3>. QED BY <3>2, <3>3
  <2>2. \A b \in Atts : Early(b)' => ver'[b] = 1
    BY <1>1, <1>3 DEF OrderInv, VersionsInv, Early
  <2>. QED BY <2>1, <2>2 DEF VersionsInv
<1>6. HandlersInv'
  <2>1. ASSUME NEW b \in Atts, hpc'["upload"][b] \in {"receiving", "written", "unlinked"}
        PROVE  status'[b] = "receiving"
    BY <1>1, <1>3, <2>1 DEF OrderInv, HandlersInv, Early
  <2>2. ASSUME NEW b \in Atts, NEW h \in Handlers, hpc'[h][b] \in Enqueueing
        PROVE  /\ ver'[b] = EnqueuedVersion(h, b)' /\ ~HasJob(<<b, EnqueuedVersion(h, b)>>)'
               /\ status'[b] = (IF h = "upload" THEN "stored" ELSE "processing")
               /\ life'[b] # "attached"
    <3>1. CASE b = a
      <4>1. h = "retry"
        BY <1>1, <1>3, <2>2, <3>1
      <4>2. EnqueuedVersion(h, a)' = ver[a] + 1
        BY <1>1, <4>1 DEF EnqueuedVersion
      <4>3. ~HasJob(<<a, EnqueuedVersion(h, a)>>)'
        BY <1>1, <1>4, <4>2 DEF HasJob
      <4>. QED BY <1>1, <3>1, <4>1, <4>2, <4>3
    <3>2. CASE b # a
      <4>1. hpc[h][b] \in Enqueueing /\ EnqueuedVersion(h, b)' = EnqueuedVersion(h, b)
        BY <1>1, <2>2, <3>2 DEF EnqueuedVersion
      <4>2. /\ ver[b] = EnqueuedVersion(h, b) /\ ~HasJob(<<b, EnqueuedVersion(h, b)>>)
            /\ status[b] = (IF h = "upload" THEN "stored" ELSE "processing")
            /\ life[b] # "attached"
        BY <4>1 DEF OrderInv, HandlersInv
      <4>3. ~HasJob(<<b, EnqueuedVersion(h, b)>>)'
        BY <1>1, <4>1, <4>2 DEF HasJob
      <4>. QED BY <1>1, <3>2, <4>1, <4>2, <4>3
    <3>. QED BY <3>1, <3>2
  <2>. QED BY <2>1, <2>2 DEF HandlersInv
<1>7. WorkInv'
  <2>1. \A w \in Workers : wpc[w] \in Working => job[w][1] # a
    BY <1>1 DEF OrderInv, WorkInv
  <2>2. \A w \in Workers : wpc[w] \in Working => job[w][1] \in Atts
    BY Parts DEF JobHeld, Holding, Working
  <2>. QED BY <1>1, <2>1, <2>2 DEF OrderInv, WorkInv
<1>8. CommitsAnswered => StatusInv'
  BY <1>1 DEF OrderInv, StatusInv
<1>9. RowsFollow
  <2>1. Lifecycle!Advance(a, "processing")
    BY <1>1 DEF Lifecycle!Advance, Lifecycle!ALLOWED_TRANSITIONS
  <2>. QED BY <2>1 DEF RowsFollow, Lifecycle!Next
<1>. QED BY <1>5, <1>6, <1>7, <1>8, <1>9 DEF OrderInv

(* The enqueueing of an upload or a retry.                                  *)
LEMMA EnqueueOrder ==
  ASSUME TypeInv, SafeInv, OrderInv, PushesAnswered, NEW h \in Handlers, NEW a \in Atts,
         EnqueuePushes(h, a) \/ EnqueueRaises(h, a) \/ EnqueueFailed(h, a)
  PROVE  OrderInv' /\ RowsFollow
<1>. USE DEF TypeInv, TypeOK, queueVars, rowVars, resultVars, apiVars, workerVars
<1>. DEFINE k == <<a, EnqueuedVersion(h, a)>>
<1>1. /\ UNCHANGED <<life, ver, inflight, job, todo, wpc, rver>>
      /\ hpc[h][a] \in Enqueueing
      /\ \A g \in Handlers, b \in Atts : g # h \/ b # a => hpc'[g][b] = hpc[g][b]
      /\ hpc'[h][a] \in Enqueueing \cup {"none", "done"}
      /\ hpc'["upload"][a] # "none" \/ h = "retry"
  BY DEF EnqueuePushes, EnqueueRaises, EnqueueFailed, PushPending, PushRaised, MarkFailed,
         HandlerAt, Enqueueing, Finished, Handlers, PushesAnswered, Fault
<1>2. /\ ~Early(a) /\ life[a] # "attached" /\ ver[a] = EnqueuedVersion(h, a)
      /\ status[a] = (IF h = "upload" THEN "stored" ELSE "processing")
      /\ ~HasJob(k)
      /\ \A g \in Handlers \ {h} : hpc[g][a] \notin Enqueueing
      /\ \A w \in Workers : wpc[w] \in Working => job[w][1] # a
  BY <1>1, WaitingRow
<1>3. \/ /\ pending' = Append(pending, k) /\ status' = status
         /\ hpc'[h][a] \notin Enqueueing
      \/ pending' = pending /\ status' = status /\ hpc[h][a] = "push"
      \/ /\ pending' = pending /\ status' = [status EXCEPT ![a] = "failed"]
         /\ hpc'[h][a] \notin Enqueueing
  BY <1>2 DEF EnqueuePushes, EnqueueRaises, EnqueueFailed, PushPending, PushRaised, MarkFailed, Update,
         HandlerAt, Enqueueing, Finished, Handlers, PushesAnswered, Fault, Exists, RowStatus
<1>4. k \in Jobs /\ ToSet(Append(pending, k)) = ToSet(pending) \cup {k}
  <2>1. k \in Jobs /\ pending \in Seq(Jobs)
    BY EnqueuedIsJob DEF QueueTypeOK
  <2>. HIDE DEF k
  <2>. QED BY <2>1, AppendSet
<1>5. \A j : HasJob(j)' => HasJob(j) \/ j = k
  BY <1>1, <1>3, <1>4 DEF HasJob
<1>6. \A b \in Atts : Early(b)' <=> Early(b)
  BY <1>1, <1>2 DEF Early, Enqueueing, Handlers
<1>7. VersionsInv'
  <2>1. ASSUME NEW j \in Jobs, HasJob(j)' PROVE ~Early(j[1])' /\ j[2] <= ver'[j[1]]
    <3>1. CASE j = k
      BY <1>1, <1>2, <1>6, <3>1 DEF Versions
    <3>2. CASE HasJob(j)
      BY <1>1, <1>6, <3>2 DEF OrderInv, VersionsInv, Jobs
    <3>. QED BY <1>5, <2>1, <3>1, <3>2
  <2>. QED BY <1>1, <1>6, <2>1 DEF VersionsInv, OrderInv
<1>8. HandlersInv'
  <2>1. ASSUME NEW b \in Atts, hpc'["upload"][b] \in {"receiving", "written", "unlinked"}
        PROVE  status'[b] = "receiving"
    <3>1. Early(b)
      BY <1>6, <2>1 DEF Early
    <3>2. b # a /\ hpc["upload"][b] = hpc'["upload"][b]
      BY <1>1, <1>2, <3>1 DEF Handlers
    <3>. QED BY <1>3, <2>1, <3>2 DEF OrderInv, HandlersInv
  <2>2. ASSUME NEW b \in Atts, NEW g \in Handlers, hpc'[g][b] \in Enqueueing
        PROVE  /\ ver'[b] = EnqueuedVersion(g, b)' /\ ~HasJob(<<b, EnqueuedVersion(g, b)>>)'
               /\ status'[b] = (IF g = "upload" THEN "stored" ELSE "processing")
               /\ life'[b] # "attached"
    <3>1. EnqueuedVersion(g, b)' = EnqueuedVersion(g, b)
      BY <1>1 DEF EnqueuedVersion
    <3>2. hpc[g][b] \in Enqueueing
      BY <1>1, <2>2
    <3>3. /\ ver[b] = EnqueuedVersion(g, b) /\ ~HasJob(<<b, EnqueuedVersion(g, b)>>)
          /\ status[b] = (IF g = "upload" THEN "stored" ELSE "processing")
          /\ life[b] # "attached"
      BY <3>2 DEF OrderInv, HandlersInv
    <3>4. /\ ~HasJob(<<b, EnqueuedVersion(g, b)>>)' /\ status'[b] = status[b]
      <4>1. CASE b = a
        <5>1. g = h
          BY <1>2, <3>2, <4>1
        <5>2. pending' = pending /\ status' = status
          BY <1>3, <2>2, <4>1, <5>1
        <5>. QED BY <1>1, <3>1, <3>3, <5>2 DEF HasJob
      <4>2. CASE b # a
        <5>1. <<b, EnqueuedVersion(g, b)>> # k
          BY <4>2
        <5>. HIDE DEF k
        <5>2. ~HasJob(<<b, EnqueuedVersion(g, b)>>)'
          BY <1>5, <3>1, <3>3, <5>1 DEF HasJob
        <5>. QED BY <1>3, <4>2, <5>2
      <4>. QED BY <4>1, <4>2
    <3>. QED BY <1>1, <3>1, <3>3, <3>4
  <2>. QED BY <2>1, <2>2 DEF HandlersInv
<1>9. WorkInv'
  <2>1. \A w \in Workers : wpc[w] \in Working => job[w][1] \in Atts
    BY Parts DEF JobHeld, Holding, Working
  <2>2. \A b \in Atts \ {a} : status'[b] = status[b]
    BY <1>3
  <2>. QED BY <1>1, <1>2, <2>1, <2>2 DEF OrderInv, WorkInv, Working
<1>10. ASSUME CommitsAnswered PROVE StatusInv'
  <2>1. \A w \in Workers : wpc[w] \in Working => job[w][1] \in Atts \ {a}
    BY <1>2, Parts DEF JobHeld, Holding, Working
  <2>2. \A b \in Atts \ {a} : status'[b] = status[b]
    BY <1>3
  <2>. QED BY <1>1, <1>2, <1>10, <2>1, <2>2 DEF OrderInv, StatusInv
<1>11. RowsFollow
  <2>1. CASE status' = status
    BY <1>1, <2>1 DEF RowsFollow
  <2>2. CASE status' = [status EXCEPT ![a] = "failed"]
    <3>1. Lifecycle!Advance(a, "failed")
      BY <1>1, <1>2, <2>2 DEF Lifecycle!Advance, Lifecycle!ALLOWED_TRANSITIONS
    <3>. QED BY <3>1 DEF RowsFollow, Lifecycle!Next
  <2>. QED BY <1>3, <2>1, <2>2
<1>. QED BY <1>7, <1>8, <1>9, <1>10, <1>11 DEF OrderInv

(* Submissions, and conversations that are deleted.                         *)
LEMMA BindOrder ==
  ASSUME TypeInv, SafeInv, OrderInv, SubmitBinds \/ \E S \in SUBSET Atts : DeleteConversation(S)
  PROVE  OrderInv' /\ (CommitsAnswered => RowsFollow)
<1>. USE DEF TypeInv, TypeOK, queueVars, rowVars, resultVars, apiVars, workerVars
<1>1. CASE SubmitBinds
  <2>1. /\ UNCHANGED <<status, ver, pending, inflight, job, todo, wpc, hpc, rver>>
        /\ life' = [a \in Atts |-> IF a \in submitting THEN "attached" ELSE life[a]]
        /\ \A a \in submitting : status[a] = "ready" /\ life[a] = "draft"
    BY <1>1 DEF SubmitBinds, Submittable
  <2>2. VersionsInv' /\ HandlersInv' /\ WorkInv'
    BY <2>1 DEF OrderInv, VersionsInv, HandlersInv, WorkInv, HasJob, Early, EnqueuedVersion
  <2>3. CommitsAnswered => StatusInv'
    BY <2>1 DEF OrderInv, StatusInv
  <2>4. Lifecycle!Attach(submitting)
    BY <2>1 DEF Lifecycle!Attach
  <2>. QED BY <2>2, <2>3, <2>4 DEF OrderInv, RowsFollow, Lifecycle!Next
<1>2. ASSUME NEW S \in SUBSET Atts, DeleteConversation(S)
      PROVE  OrderInv' /\ (CommitsAnswered => RowsFollow)
  <2>1. /\ UNCHANGED <<life, ver, pending, inflight, job, todo, wpc, hpc, rver>>
        /\ status' = [a \in Atts |-> IF a \in S THEN "removed" ELSE status[a]]
        /\ \A a \in S : life[a] = "attached" /\ status[a] \notin {"none", "removed"}
    BY <1>2 DEF DeleteConversation, Exists, RowStatus
  <2>2. VersionsInv'
    BY <2>1 DEF OrderInv, VersionsInv, HasJob, Early
  <2>3. HandlersInv'
    <3>1. \A a \in S : ~Early(a)
      BY <2>1, EarlyRow
    <3>2. \A a \in Atts : a \notin S => status'[a] = status[a]
      BY <2>1
    <3>3. ASSUME NEW a \in Atts, NEW h \in Handlers, hpc[h][a] \in Enqueueing
          PROVE  a \notin S
      BY <2>1, <3>3 DEF OrderInv, HandlersInv
    <3>. QED BY <2>1, <3>1, <3>2, <3>3 DEF OrderInv, HandlersInv, HasJob, EnqueuedVersion, Early
  <2>4. WorkInv'
    <3>1. \A w \in Workers : wpc[w] \in Working => job[w][1] \in Atts
      BY Parts DEF JobHeld, Holding, Working
    <3>. QED BY <2>1, <3>1 DEF OrderInv, WorkInv, Working
  <2>5. ASSUME CommitsAnswered PROVE StatusInv' /\ Lifecycle!Remove(S)
    <3>1. \A a \in S : status[a] = "ready"
      BY <2>1, <2>5 DEF OrderInv, StatusInv
    <3>2. \A w \in Workers : wpc[w] \in Working => job[w][1] \in Atts \ S
      <4>1. \A w \in Workers : wpc[w] \in Working => job[w][1] \in Atts
        BY Parts DEF JobHeld, Holding, Working
      <4>. QED BY <2>5, <3>1, <4>1 DEF OrderInv, StatusInv
    <3>3. StatusInv'
      BY <2>1, <2>5, <3>2 DEF OrderInv, StatusInv
    <3>. QED BY <2>1, <3>1, <3>3 DEF Lifecycle!Remove
  <2>. QED BY <2>2, <2>3, <2>4, <2>5 DEF OrderInv, RowsFollow, Lifecycle!Next
<1>. QED BY <1>1, <1>2

(* What the only worker does to the row of its job: a commit whose reply is *)
(* lost makes it ready and then failed, which is not of the lifecycle.      *)
LEMMA WorkOrder ==
  ASSUME TypeInv, SafeInv, OrderInv, OneWorker, NEW w \in Workers, NEW a \in Atts, NEW v \in Versions,
         \/ StartProcessing(w, a, v) \/ ParseRejects(w, a, v) \/ FailJob(w, a, v)
         \/ Persists(w, a, v) \/ PersistUnanswered(w, a, v)
  PROVE  OrderInv' /\ (CommitsAnswered => RowsFollow) /\ job[w] = <<a, ver[a]>>
<1>. USE DEF TypeInv, TypeOK, queueVars, rowVars, resultVars, apiVars, workerVars, WorkerAt
<1>1. job[w] = <<a, v>> /\ ver[a] = v
  BY DEF StartProcessing, Processable, ParseRejects, FailJob, Persists, PersistUnanswered, OrderInv,
         WorkInv, Working
<1>2. /\ UNCHANGED <<life, ver, pending, inflight, job, todo, hpc, rver>>
      /\ \/ /\ status[a] \in {"stored", "failed", "processing"}
            /\ status' = [status EXCEPT ![a] = "processing"]
         \/ /\ wpc[w] \in Working /\ wpc'[w] = "acking"
            /\ \E new \in {"ready", "rejected", "failed"} : status' = [status EXCEPT ![a] = new]
         \/ /\ ~CommitsAnswered
            /\ status' = [status EXCEPT ![a] = "ready"]
  <2>1. CASE StartProcessing(w, a, v)
    BY <2>1 DEF StartProcessing, Processable, Update
  <2>2. CASE ParseRejects(w, a, v)
    BY <2>2 DEF ParseRejects, MarkRejected, Update, Working
  <2>3. CASE FailJob(w, a, v)
    BY <2>3 DEF FailJob, MarkFailed, Update, Working
  <2>4. CASE Persists(w, a, v)
    BY <2>4 DEF Persists, CommitResult, Update, Working
  <2>5. CASE PersistUnanswered(w, a, v)
    BY <2>5 DEF PersistUnanswered, CommitResult, Update, Fault, CommitsAnswered
  <2>. QED BY <2>1, <2>2, <2>3, <2>4, <2>5
<1>3. ~Early(a) /\ \A h \in Handlers : hpc[h][a] \notin Enqueueing
  BY <1>1, WorkedRow
<1>4. \A b \in Atts \ {a} : status'[b] = status[b]
  BY <1>2
<1>5. VersionsInv'
  BY <1>2 DEF OrderInv, VersionsInv, HasJob, Early
<1>6. HandlersInv'
  BY <1>2, <1>3, <1>4 DEF OrderInv, HandlersInv, HasJob, EnqueuedVersion, Early
<1>7. \A x \in Workers : x = w
  BY DEF OneWorker
<1>8. WorkInv'
  <2>1. ASSUME wpc'[w] \in Working PROVE status'[a] # "failed"
    BY <1>2, <2>1 DEF Working
  <2>. QED BY <1>1, <1>2, <1>7, <2>1 DEF WorkInv
<1>9. ASSUME CommitsAnswered PROVE StatusInv' /\ RowsFollow
  <2>1. wpc[w] \in Working => status[a] = "processing"
    BY <1>1, <1>9 DEF OrderInv, StatusInv
  <2>2. status[a] \in {"stored", "failed", "processing"}
    BY <1>2, <1>9, <2>1
  <2>3. life[a] # "attached"
    BY <1>9, <2>2 DEF OrderInv, StatusInv
  <2>4. StatusInv'
    <3>1. ASSUME wpc'[w] \in Working PROVE status'[a] = "processing"
      BY <1>2, <1>9, <3>1 DEF Working
    <3>2. \A b \in Atts : life'[b] = "attached" => status'[b] \in {"ready", "removed"}
      BY <1>2, <1>4, <1>9, <2>3 DEF OrderInv, StatusInv
    <3>. QED BY <1>1, <1>2, <1>7, <3>1, <3>2 DEF StatusInv
  <2>5. ASSUME NEW new \in {"processing", "ready", "rejected", "failed"},
               status' = [status EXCEPT ![a] = new], new = "processing" \/ status[a] = "processing"
        PROVE  RowsFollow
    <3>1. CASE new = status[a]
      <4>1. status' = status
        BY <2>5, <3>1
      <4>. QED BY <1>2, <4>1 DEF RowsFollow
    <3>2. CASE new # status[a]
      <4>1. Lifecycle!Advance(a, new)
        BY <1>2, <2>2, <2>3, <2>5, <3>2 DEF Lifecycle!Advance, Lifecycle!ALLOWED_TRANSITIONS
      <4>. QED BY <4>1 DEF RowsFollow, Lifecycle!Next
    <3>. QED BY <3>1, <3>2
  <2>. QED BY <1>2, <1>9, <2>1, <2>4, <2>5
<1>. QED BY <1>1, <1>5, <1>6, <1>8, <1>9 DEF OrderInv

\* A worker whose job is of another version leaves the statuses as they are.
StaleStep ==
  \A w \in Workers : wpc'[w] # wpc[w] /\ job[w] # NoJob =>
    (job[w][2] # ver[job[w][1]] => status' = status)

(* Every step of a row preserves the invariant, is a step of the lifecycle, *)
(* and is not a worker's with a stale job.                                  *)
LEMMA RowMoveOrder ==
  ASSUME TypeInv, SafeInv, OrderInv, OneWorker, PushesAnswered, RowMove
  PROVE  OrderInv' /\ (CommitsAnswered => RowsFollow) /\ StaleStep
<1>1. ASSUME NEW a \in Atts,
             CreateReceiving(a) \/ RejectUpload(a) \/ StorageFails(a) \/ StoreOriginal(a)
      PROVE  OrderInv' /\ (CommitsAnswered => RowsFollow) /\ StaleStep
  <2>1. StaleStep
    BY <1>1 DEF StaleStep, CreateReceiving, RejectUpload, StorageFails, StoreOriginal, workerVars
  <2>. QED BY <1>1, <2>1, UploadOrder
<1>2. ASSUME NEW a \in Atts, PrepareRetry(a) PROVE OrderInv' /\ (CommitsAnswered => RowsFollow) /\ StaleStep
  <2>1. StaleStep
    BY <1>2 DEF StaleStep, PrepareRetry, workerVars
  <2>. QED BY <1>2, <2>1, RetryOrder
<1>3. ASSUME NEW h \in Handlers, NEW a \in Atts,
             EnqueuePushes(h, a) \/ EnqueueRaises(h, a) \/ EnqueueFailed(h, a)
      PROVE  OrderInv' /\ (CommitsAnswered => RowsFollow) /\ StaleStep
  <2>1. StaleStep
    BY <1>3 DEF StaleStep, EnqueuePushes, EnqueueRaises, EnqueueFailed, workerVars
  <2>. QED BY <1>3, <2>1, EnqueueOrder
<1>4. CASE SubmitBinds \/ \E S \in SUBSET Atts : DeleteConversation(S)
  <2>1. StaleStep
    BY <1>4 DEF StaleStep, SubmitBinds, DeleteConversation, workerVars
  <2>. QED BY <1>4, <2>1, BindOrder
<1>5. ASSUME NEW w \in Workers, NEW a \in Atts, NEW v \in Versions,
             \/ StartProcessing(w, a, v) \/ ParseRejects(w, a, v) \/ FailJob(w, a, v)
             \/ Persists(w, a, v) \/ PersistUnanswered(w, a, v)
      PROVE  OrderInv' /\ (CommitsAnswered => RowsFollow) /\ StaleStep
  <2>1. OrderInv' /\ (CommitsAnswered => RowsFollow) /\ job[w] = <<a, ver[a]>>
    BY <1>5, WorkOrder
  <2>2. \A x \in Workers : x = w
    BY DEF OneWorker
  <2>3. StaleStep
    BY <2>1, <2>2 DEF StaleStep
  <2>. QED BY <2>1, <2>3
<1>. QED BY <1>1, <1>2, <1>3, <1>4, <1>5 DEF RowMove

(* So does every step.                                                      *)
LEMMA NextOrder ==
  ASSUME TypeInv, SafeInv, OrderInv, OneWorker, PushesAnswered, [Next]_vars
  PROVE  OrderInv' /\ (CommitsAnswered => RowsFollow) /\ StaleStep
<1>1. CASE RowsAlone
  <2>1. RowsFollow
    BY <1>1 DEF RowsAlone, RowsFollow, Lifecycle!Next
  <2>2. StaleStep
    BY <1>1 DEF RowsAlone, StaleStep
  <2>. QED BY <1>1, <2>1, <2>2, AloneOrder
<1>2. CASE RowMove
  BY <1>2, RowMoveOrder
<1>. QED BY <1>1, <1>2, NextMoves DEF Moves

(* The invariant holds at the start.                                        *)
LEMMA InitOrder == Init => OrderInv
  BY AttachmentAssumption, EmptySet
     DEF Init, QueueInit, OrderInv, VersionsInv, HandlersInv, WorkInv, StatusInv, Working, HasJob,
         Early, Enqueueing, Handlers, EnqueuedVersion

(* What holds of jobs, handlers and workers in every reachable state: a job *)
(* is of a stored upload and of a version the row has reached, a handler    *)
(* that enqueues is alone with its row, a worker's row is at its version.   *)
THEOREM OrderInvariant ==
  ASSUME OneWorker, PushesAnswered PROVE Spec => []OrderInv
<1>1. TypeInv /\ SafeInv /\ OrderInv /\ [Next]_vars => OrderInv'
  BY NextOrder
<1>. QED BY <1>1, InitOrder, TypeInvariant, SafeInvariant, PTL DEF Spec

(* Stale jobs change no status, also when the reply to a commit is lost.    *)
THEOREM StaleJobsAreHarmless ==
  ASSUME OneWorker, PushesAnswered PROVE Spec => StaleJobHarmless
<1>1. TypeInv /\ SafeInv /\ OrderInv /\ [Next]_vars
        => [\A w \in Workers : wpc'[w] # wpc[w] /\ job[w] # NoJob =>
              (job[w][2] # ver[job[w][1]] => status' = status)]_vars
  BY NextOrder DEF StaleStep
<1>. QED BY <1>1, OrderInvariant, TypeInvariant, SafeInvariant, PTL DEF Spec, StaleJobHarmless

(* The rows move as the lifecycle says.                                     *)
THEOREM RowsFollowLifecycle ==
  ASSUME OneWorker, PushesAnswered, CommitsAnswered PROVE Spec => ImplementsLifecycle
<1>1. Init => Lifecycle!Init
  BY DEF Init, Lifecycle!Init
<1>2. TypeInv /\ SafeInv /\ OrderInv /\ [Next]_vars => [Lifecycle!Next]_<<status, life>>
  BY NextOrder DEF RowsFollow
<1>. QED BY <1>1, <1>2, OrderInvariant, TypeInvariant, SafeInvariant, PTL
     DEF Spec, ImplementsLifecycle, Lifecycle!Spec

=============================================================================
