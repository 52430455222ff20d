----------------------------- MODULE Attachments -----------------------------
(***************************************************************************)
(* The chat attachment pipeline (runtime_api/app/attachments): the upload, *)
(* retry, delete and submit handlers of runtime-api, the conversation      *)
(* delete, and the attachment-worker processes, over one Postgres table of *)
(* attachments, the Redis job queue and the files under                    *)
(* NOMI_ATTACHMENT_ROOT.                                                   *)
(*                                                                         *)
(* Grain.  One action is one database transaction, one Redis command, or   *)
(* one file operation, with the branch the code takes on its result.       *)
(* Everything that can come between two of them does: another worker,      *)
(* another request, the clock, a crash.  Rows are functions of the         *)
(* attachment id, one variable per column the code branches on.            *)
(*                                                                         *)
(* Bounds: MaxVersion (user retries), MaxDerivatives (preview files ever   *)
(* written; a parse may also produce none), MaxQueue (two workers that     *)
(* recover one job at once push it twice, and each copy can be doubled     *)
(* again, so recovery waits at this length) and MaxFaults (crashes, and    *)
(* failing or unanswered commands, of the kinds in FaultKinds).            *)
(***************************************************************************)
EXTENDS AttachmentQueue

CONSTANTS
  NoJob, NoAtt,       \* a worker that holds no job, a cleaner with no target
  MaxDerivatives, MaxQueue,
  FaultKinds,         \* which faults this instance may suffer
  MaxFaults

ASSUME AttachmentAssumption ==
  /\ MaxDerivatives \in Nat /\ MaxQueue \in Nat
  /\ MaxFaults \in Nat
  /\ NoAtt \notin Atts
  /\ NoJob \notin Jobs

VARIABLES
  status,       \* chat_attachments.status, "none" before the row, "removed" after it
  life,         \* chat_attachments.lifecycle
  ver,          \* chat_attachments.processing_version
  path,         \* storage_relative_path IS NOT NULL
  gone,         \* deleted_at IS NOT NULL
  expired,      \* expires_at (of a receiving row: created_at + 1h) has passed
  parsed,       \* <<a, v>> with manifest and chunk rows of version v
  rows,         \* files named by a derivative row
  files,        \* files on disk
  outbox,       \* attachment_cleanup_outbox: status of the row for a file;
                \* "delayed" is pending with available_at in the future,
                \* "expired" is processing with available_at passed
  hpc,          \* where the upload and the retry handler of a are
  rver,         \* the version the retry handler of a enqueues
  dpc,          \* where the DELETE handler of a is
  submitting,   \* drafts locked by the submit transaction that is running
  wpc,          \* where each worker is in its loop
  job,          \* the job a worker holds
  own,          \* the file of this worker's attempt, or of its outbox row
  todo,         \* inflight jobs a recovering worker still has to look at
  cand,         \* drafts a cleaning worker still has to delete
  target,       \* the draft it is deleting
  made,         \* number of derivative files written so far
  faults        \* number of faults so far

rowVars == <<status, life, ver, path, gone, expired>>
resultVars == <<parsed, rows>>
apiVars == <<hpc, rver, dpc, submitting>>
workerVars == <<wpc, job, own, todo, cand, target>>
vars == <<queueVars, rowVars, resultVars, files, outbox, apiVars, workerVars,
          made, faults>>

RowStatus == {"receiving", "stored", "processing", "ready", "rejected", "failed"}
Exists(a) == status[a] \in RowStatus

\* A derivative's path has the attachment, the version and a fresh uuid.
Original(a) == <<a, 0, 0>>
\* Mutant: a fixed file name instead of a fresh one.
DerivativeFixedName(a, v, n) == <<a, v, 1>>

Derivative(a, v, n) == <<a, v, n>>
Files == Atts \X (0..MaxVersion) \X (0..MaxDerivatives)
FilesOf(a) == {f \in Files : f[1] = a}

\* Mutant: only the derivative rows are listed.
StoragePathsOfRows(a) == rows \cap FilesOf(a)

\* list_storage_paths: the original's path and those of the derivative rows.
StoragePaths(a) ==
  (IF Exists(a) /\ path[a] THEN {Original(a)} ELSE {}) \cup (rows \cap FilesOf(a))

Handlers == {"upload", "retry"}

EnqueuedVersion(h, a) == IF h = "upload" THEN 1 ELSE rver[a]

Fault(kind) == kind \in FaultKinds /\ faults < MaxFaults /\ faults' = faults + 1

Init ==
  /\ QueueInit
  /\ status = [a \in Atts |-> "none"]
  /\ life = [a \in Atts |-> "draft"]
  /\ ver = [a \in Atts |-> 1]
  /\ path = [a \in Atts |-> FALSE]
  /\ gone = [a \in Atts |-> FALSE]
  /\ expired = [a \in Atts |-> FALSE]
  /\ parsed = {} /\ rows = {} /\ files = {}
  /\ outbox = [f \in Files |-> "none"]
  /\ hpc = [h \in Handlers |-> [a \in Atts |-> "none"]]
  /\ rver = [a \in Atts |-> 1]
  /\ dpc = [a \in Atts |-> "none"]
  /\ submitting = {}
  /\ wpc = [w \in Workers |-> "idle"]
  /\ job = [w \in Workers |-> NoJob]
  /\ own = [w \in Workers |-> {}]
  /\ todo = [w \in Workers |-> <<>>]
  /\ cand = [w \in Workers |-> {}]
  /\ target = [w \in Workers |-> NoAtt]
  /\ made = 0
  /\ faults = 0

-----------------------------------------------------------------------------
(* The repository: statements on one row.  _update has no condition beyond *)
(* the id, so mark_stored, mark_rejected and mark_failed overwrite whatever*)
(* they find; it waits for a row that a submit transaction has locked.     *)

Unlocked(a) == a \notin submitting

Update(a, new) == Unlocked(a) /\ status' = [status EXCEPT ![a] = new]

MarkFailed(a) ==
  /\ Update(a, "failed")
  /\ UNCHANGED <<life, ver, path, gone, expired>>

MarkRejected(a) ==
  /\ Update(a, "rejected")
  /\ UNCHANGED <<life, ver, path, gone, expired>>

MarkStored(a) ==
  /\ Update(a, "stored")
  /\ path' = [path EXCEPT ![a] = TRUE]
  /\ expired' = [expired EXCEPT ![a] = FALSE]
  /\ UNCHANGED <<life, ver, gone>>

\* Mutants: any version, or any status.
ProcessableAnyVersion(a, v) ==
  status[a] \in {"stored", "failed", "processing"} /\ life[a] # "deleted"
ProcessableAnyStatus(a, v) == Exists(a) /\ ver[a] = v /\ life[a] # "deleted"

\* The condition of mark_processing (the row lock is the caller's business).
Processable(a, v) ==
  /\ status[a] \in {"stored", "failed", "processing"}
  /\ ver[a] = v
  /\ life[a] # "deleted"

\* The condition under which persist_parse_result does not raise.
Persistable(a, v) == status[a] = "processing" /\ ver[a] = v

\* Mutant: the lifecycle is not looked at.
DeletableAnyLifecycle(a) == Exists(a) /\ ~gone[a]

\* The condition of mark_lifecycle_deleted.
Deletable(a) ==
  /\ Exists(a)
  /\ life[a] = "draft" \/ (life[a] = "deleted" /\ ~gone[a])

MarkLifecycleDeleted(a) ==
  /\ Unlocked(a)
  /\ life' = [life EXCEPT ![a] = "deleted"]
  /\ UNCHANGED <<status, ver, path, gone, expired>>

CompleteDeleted(a) ==
  /\ gone' = [gone EXCEPT ![a] = TRUE]
  /\ UNCHANGED <<status, life, ver, path, expired>>

Completable(a) == Exists(a) /\ life[a] = "deleted" /\ ~gone[a]

\* Mutants: stale receiving rows, or half-done deletions, are not listed.
ExpiredDraftStored(a) ==
  (Exists(a) /\ life[a] = "draft" /\ expired[a] /\ path[a]) \/ Completable(a)
ExpiredDraftOnly(a) ==
  Exists(a) /\ life[a] = "draft" /\ expired[a] /\ (path[a] \/ status[a] = "receiving")

\* list_expired_drafts
ExpiredDraft(a) ==
  \/ /\ Exists(a) /\ life[a] = "draft" /\ expired[a]
     /\ path[a] \/ status[a] = "receiving"
  \/ Completable(a)

-----------------------------------------------------------------------------
(* AttachmentService.upload *)

HandlerAt(h, a, from, to) ==
  /\ hpc[h][a] = from
  /\ hpc' = [hpc EXCEPT ![h][a] = to]
  /\ UNCHANGED <<rver, dpc, submitting>>

CreateReceiving(a) ==
  /\ status[a] = "none"
  /\ HandlerAt("upload", a, "none", "receiving")
  /\ status' = [status EXCEPT ![a] = "receiving"]
  /\ UNCHANGED <<life, ver, path, gone, expired>>
  /\ UNCHANGED <<queueVars, resultVars, files, outbox, workerVars, made, faults>>

WriteOriginal(a) ==
  /\ HandlerAt("upload", a, "receiving", "written")
  /\ files' = files \cup {Original(a)}
  /\ UNCHANGED <<queueVars, rowVars, resultVars, outbox, workerVars, made, faults>>

\* Too large (nothing is left on disk), or not a kind of file Nomi takes.
RejectUpload(a) ==
  /\ \E from \in {"receiving", "unlinked"} : HandlerAt("upload", a, from, "done")
  /\ MarkRejected(a)
  /\ UNCHANGED <<queueVars, resultVars, files, outbox, workerVars, made, faults>>

StorageFails(a) ==
  /\ Fault("storage")
  /\ HandlerAt("upload", a, "receiving", "done")
  /\ MarkFailed(a)
  /\ UNCHANGED <<queueVars, resultVars, files, outbox, workerVars, made>>

\* detect_attachment rejects: the original is unlinked first.
UnlinkRejected(a) ==
  /\ HandlerAt("upload", a, "written", "unlinked")
  /\ files' = files \ {Original(a)}
  /\ UNCHANGED <<queueVars, rowVars, resultVars, outbox, workerVars, made, faults>>

\* Mutant: the row is stored before the file is written.
StoreUnwritten(a) ==
  /\ HandlerAt("upload", a, "receiving", "enqueue")
  /\ MarkStored(a)
  /\ UNCHANGED <<queueVars, resultVars, files, outbox, workerVars, made, faults>>

StoreOriginal(a) ==
  /\ HandlerAt("upload", a, "written", "enqueue")
  /\ MarkStored(a)
  /\ UNCHANGED <<queueVars, resultVars, files, outbox, workerVars, made, faults>>

-----------------------------------------------------------------------------
(* AttachmentService.retry: of a failed, unexpired draft whose original is *)
(* on disk; prepare_retry then compares status, lifecycle and version with  *)
(* what was read.                                                          *)

RetryReads(a) ==
  /\ status[a] = "failed" /\ life[a] = "draft" /\ ~expired[a]
  /\ path[a] /\ Original(a) \in files
  /\ ver[a] < MaxVersion
  /\ hpc["retry"][a] = "none"
  /\ hpc' = [hpc EXCEPT !["retry"][a] = "retrying"]
  /\ rver' = [rver EXCEPT ![a] = ver[a]]
  /\ UNCHANGED <<dpc, submitting>>
  /\ UNCHANGED <<queueVars, rowVars, resultVars, files, outbox, workerVars, made,
                 faults>>

\* The condition of prepare_retry, v being the version that was read.
Retryable(a, v) == status[a] = "failed" /\ life[a] = "draft" /\ ver[a] = v

PrepareRetry(a) ==
  /\ hpc["retry"][a] = "retrying"
  /\ Retryable(a, rver[a])
  /\ Update(a, "processing")
  /\ hpc' = [hpc EXCEPT !["retry"][a] = "enqueue"]
  /\ ver' = [ver EXCEPT ![a] = rver[a] + 1]
  /\ rver' = [rver EXCEPT ![a] = @ + 1]
  /\ UNCHANGED <<life, path, gone, expired, dpc, submitting>>
  /\ UNCHANGED <<queueVars, resultVars, files, outbox, workerVars, made, faults>>

RetryRefused(a) ==
  /\ Unlocked(a) /\ ~Retryable(a, rver[a])
  /\ HandlerAt("retry", a, "retrying", "none")
  /\ UNCHANGED <<queueVars, rowVars, resultVars, files, outbox, workerVars, made,
                 faults>>

-----------------------------------------------------------------------------
(* enqueue, as the last step of an upload and of a retry.  It would return  *)
(* False for a job that is known or done, which that of a new version is    *)
(* not.                                                                     *)

Finished(h) == IF h = "upload" THEN "done" ELSE "none"

EnqueueAcquires(h, a) ==
  /\ HandlerAt(h, a, "enqueue", "push")
  /\ AcquireKnown(<<a, EnqueuedVersion(h, a)>>)
  /\ UNCHANGED <<rowVars, resultVars, files, outbox, workerVars, made, faults>>

EnqueuePushes(h, a) ==
  /\ HandlerAt(h, a, "push", Finished(h))
  /\ PushPending(<<a, EnqueuedVersion(h, a)>>)
  /\ UNCHANGED <<rowVars, resultVars, files, outbox, workerVars, made, faults>>

EnqueueRaises(h, a) ==
  /\ HandlerAt(h, a, "push", "unqueued")
  /\ \/ Fault("push") /\ PushRaised(<<a, EnqueuedVersion(h, a)>>, FALSE)
     \/ Fault("push_reply") /\ PushRaised(<<a, EnqueuedVersion(h, a)>>, TRUE)
  /\ UNCHANGED <<rowVars, resultVars, files, outbox, workerVars, made>>

\* mark_failed after an enqueue that raised; a row that a conversation delete
\* has removed meanwhile makes it raise KeyError.
EnqueueFailed(h, a) ==
  /\ HandlerAt(h, a, "unqueued", Finished(h))
  /\ IF Exists(a) THEN MarkFailed(a) ELSE UNCHANGED rowVars
  /\ UNCHANGED <<queueVars, resultVars, files, outbox, workerVars, made, faults>>

-----------------------------------------------------------------------------
(* AttachmentService.delete *)

DeleteAt(a, from, to) ==
  /\ dpc[a] = from
  /\ dpc' = [dpc EXCEPT ![a] = to]
  /\ UNCHANGED <<hpc, rver, submitting>>

DeleteReads(a) ==
  /\ DeleteAt(a, "none", "read")
  /\ Exists(a) /\ life[a] = "draft"
  /\ UNCHANGED <<queueVars, rowVars, resultVars, files, outbox, workerVars, made,
                 faults>>

DeleteMarks(a) ==
  /\ DeleteAt(a, "read", "marked")
  /\ Deletable(a)
  /\ MarkLifecycleDeleted(a)
  /\ UNCHANGED <<queueVars, resultVars, files, outbox, workerVars, made, faults>>

DeleteRefused(a) ==
  /\ DeleteAt(a, "read", "none")
  /\ Unlocked(a) /\ ~Deletable(a)
  /\ UNCHANGED <<queueVars, rowVars, resultVars, files, outbox, workerVars, made,
                 faults>>

\* Mutant: the files go before the row is marked.
DeleteUnlinksFirst(a) ==
  /\ DeleteAt(a, "read", "unlinked")
  /\ files' = files \ StoragePaths(a)
  /\ UNCHANGED <<queueVars, rowVars, resultVars, outbox, workerVars, made, faults>>

DeleteUnlinks(a) ==
  /\ DeleteAt(a, "marked", "unlinked")
  /\ files' = files \ StoragePaths(a)
  /\ UNCHANGED <<queueVars, rowVars, resultVars, outbox, workerVars, made, faults>>

DeleteUnlinkFails(a) ==
  /\ Fault("unlink")
  /\ DeleteAt(a, "marked", "none")
  /\ UNCHANGED <<queueVars, rowVars, resultVars, files, outbox, workerVars, made>>

\* complete_deleted raises when the cleaner has completed the row first.
DeleteCompletes(a) ==
  /\ DeleteAt(a, "unlinked", "none")
  /\ IF Completable(a) THEN CompleteDeleted(a) ELSE UNCHANGED rowVars
  /\ UNCHANGED <<queueVars, resultVars, files, outbox, workerVars, made, faults>>

-----------------------------------------------------------------------------
(* AttachmentSubmissionService.submit_user_turn: the transaction locks the *)
(* drafts of the turn and, holding them, binds all of them or none.        *)

Submittable(a) == life[a] = "draft" /\ ~expired[a] /\ status[a] = "ready"

SubmitLocks(S) ==
  /\ submitting = {}
  /\ \A a \in S : Exists(a) /\ life[a] # "deleted"
  /\ submitting' = S
  /\ UNCHANGED <<hpc, rver, dpc>>
  /\ UNCHANGED <<queueVars, rowVars, resultVars, files, outbox, workerVars, made,
                 faults>>

\* Mutant: of the turn those are bound that qualify, the others are left out.
SubmitBindsReady ==
  /\ \E a \in submitting : Submittable(a)
  /\ life' = [a \in Atts |-> IF a \in submitting /\ Submittable(a)
                             THEN "attached" ELSE life[a]]
  /\ submitting' = {}
  /\ UNCHANGED <<status, ver, path, gone, expired, hpc, rver, dpc>>
  /\ UNCHANGED <<queueVars, resultVars, files, outbox, workerVars, made, faults>>

SubmitBinds ==
  /\ submitting # {}
  /\ \A a \in submitting : Submittable(a)
  /\ life' = [a \in Atts |-> IF a \in submitting THEN "attached" ELSE life[a]]
  /\ submitting' = {}
  /\ UNCHANGED <<status, ver, path, gone, expired, hpc, rver, dpc>>
  /\ UNCHANGED <<queueVars, resultVars, files, outbox, workerVars, made, faults>>

SubmitRollsBack ==
  /\ \E a \in submitting : ~Submittable(a)
  /\ submitting' = {}
  /\ UNCHANGED <<hpc, rver, dpc>>
  /\ UNCHANGED <<queueVars, rowVars, resultVars, files, outbox, workerVars, made,
                 faults>>

(* delete_conversation_with_attachment_cleanup, for the attachments S bound *)
(* to the turns of the conversation.                                        *)
DeleteConversation(S) ==
  /\ \A a \in S : Exists(a) /\ life[a] = "attached" /\ Unlocked(a)
  /\ LET paths == UNION {StoragePaths(a) : a \in S}
     IN outbox' = [f \in Files |-> IF f \in paths /\ outbox[f] = "none"
                                   THEN "pending" ELSE outbox[f]]
  /\ status' = [a \in Atts |-> IF a \in S THEN "removed" ELSE status[a]]
  /\ rows' = {f \in rows : f[1] \notin S}
  /\ parsed' = {p \in parsed : p[1] \notin S}
  /\ UNCHANGED <<life, ver, path, gone, expired>>
  /\ UNCHANGED <<queueVars, files, apiVars, workerVars, made, faults>>

\* The runtime-api process dies: no handler goes on, the transaction that is
\* open rolls back.
ApiCrash ==
  /\ Fault("api")
  /\ hpc' = [h \in Handlers |-> [a \in Atts |->
               IF hpc[h][a] = "none" THEN "none" ELSE Finished(h)]]
  /\ dpc' = [a \in Atts |-> "none"]
  /\ submitting' = {}
  /\ UNCHANGED rver
  /\ UNCHANGED <<queueVars, rowVars, resultVars, files, outbox, workerVars, made>>

-----------------------------------------------------------------------------
(* The worker loop (worker_entrypoint.run): recover_expired, now and then  *)
(* the two cleaners, then one job (AttachmentWorker.run_next).             *)

WorkerAt(w, from, to) == wpc[w] = from /\ wpc' = [wpc EXCEPT ![w] = to]

RecoverLists(w) ==
  /\ WorkerAt(w, "idle", "recovering")
  /\ todo' = [todo EXCEPT ![w] = inflight]
  /\ UNCHANGED <<queueVars, rowVars, resultVars, files, outbox, apiVars, job, own,
                 cand, target, made, faults>>

\* The next job of the list read: left alone while its lease runs.
RecoverLooks(w) ==
  /\ todo[w] # <<>>
  /\ WorkerAt(w, "recovering",
              IF LeaseRunning(Head(todo[w])) THEN "recovering" ELSE "dropping")
  /\ job' = [job EXCEPT ![w] = IF LeaseRunning(Head(todo[w]))
                               THEN NoJob ELSE Head(todo[w])]
  /\ todo' = [todo EXCEPT ![w] = Tail(@)]
  /\ UNCHANGED <<queueVars, rowVars, resultVars, files, outbox, apiVars, own, cand,
                 target, made, faults>>

RecoverDrops(w) ==
  /\ WorkerAt(w, "dropping", "pushing")
  /\ DropInflight(job[w])
  /\ UNCHANGED <<rowVars, resultVars, files, outbox, apiVars, job, own, todo, cand,
                 target, made, faults>>

RecoverPushes(w) ==
  /\ WorkerAt(w, "pushing", "recovering")
  /\ Len(pending) < MaxQueue
  /\ PushPending(job[w])
  /\ job' = [job EXCEPT ![w] = NoJob]
  /\ UNCHANGED <<rowVars, resultVars, files, outbox, apiVars, own, todo, cand,
                 target, made, faults>>

\* cleanup_interval has not passed since the last cleanup
SkipCleanup(w) ==
  /\ todo[w] = <<>>
  /\ WorkerAt(w, "recovering", "claiming")
  /\ UNCHANGED <<queueVars, rowVars, resultVars, files, outbox, apiVars, job, own,
                 todo, cand, target, made, faults>>

-----------------------------------------------------------------------------
(* DraftCleaner.cleanup, on the drafts that list_expired_drafts returned   *)

CleanupLists(w) ==
  /\ todo[w] = <<>>
  /\ WorkerAt(w, "recovering", "cleaning")
  /\ cand' = [cand EXCEPT ![w] = {a \in Atts : ExpiredDraft(a)}]
  /\ UNCHANGED <<queueVars, rowVars, resultVars, files, outbox, apiVars, job, own,
                 todo, target, made, faults>>

\* mark_lifecycle_deleted does not look at the expiry again; a draft that is
\* no longer deletable is passed over.
CleanerMarks(w, a) ==
  /\ a \in cand[w]
  /\ cand' = [cand EXCEPT ![w] = @ \ {a}]
  /\ \/ /\ Deletable(a)
        /\ WorkerAt(w, "cleaning", "marked")
        /\ target' = [target EXCEPT ![w] = a]
        /\ MarkLifecycleDeleted(a)
     \/ /\ ~Deletable(a)
        /\ WorkerAt(w, "cleaning", "cleaning")
        /\ UNCHANGED <<rowVars, target>>
  /\ UNCHANGED <<queueVars, resultVars, files, outbox, apiVars, job, own, todo, made,
                 faults>>

CleanerUnlinks(w) ==
  /\ WorkerAt(w, "marked", "unlinked")
  /\ files' = files \ StoragePaths(target[w])
  /\ UNCHANGED <<queueVars, rowVars, resultVars, outbox, apiVars, job, own, todo,
                 cand, target, made, faults>>

CleanerUnlinkFails(w) ==
  /\ Fault("unlink")
  /\ WorkerAt(w, "marked", "cleaning")
  /\ target' = [target EXCEPT ![w] = NoAtt]
  /\ UNCHANGED <<queueVars, rowVars, resultVars, files, outbox, apiVars, job, own,
                 todo, cand, made>>

CleanerCompletes(w) ==
  /\ WorkerAt(w, "unlinked", "cleaning")
  /\ Completable(target[w])
  /\ CompleteDeleted(target[w])
  /\ target' = [target EXCEPT ![w] = NoAtt]
  /\ UNCHANGED <<queueVars, resultVars, files, outbox, apiVars, job, own, todo, cand,
                 made, faults>>

\* The process is gone with all it held, and starts again.
Restarts(w) ==
  /\ wpc' = [wpc EXCEPT ![w] = "idle"]
  /\ job' = [job EXCEPT ![w] = NoJob]
  /\ own' = [own EXCEPT ![w] = {}]
  /\ todo' = [todo EXCEPT ![w] = <<>>]
  /\ cand' = [cand EXCEPT ![w] = {}]
  /\ target' = [target EXCEPT ![w] = NoAtt]

\* complete_deleted finds the row completed by a DELETE request, or by another
\* cleaner, and its ValueError ends the worker process.
CleanerRaises(w) ==
  /\ wpc[w] = "unlinked"
  /\ ~Completable(target[w])
  /\ Restarts(w)
  /\ UNCHANGED <<queueVars, rowVars, resultVars, files, outbox, apiVars, made, faults>>

CleanupEnds(w) ==
  /\ cand[w] = {}
  /\ WorkerAt(w, "cleaning", "sweeping")
  /\ UNCHANGED <<queueVars, rowVars, resultVars, files, outbox, apiVars, job, own,
                 todo, cand, target, made, faults>>

-----------------------------------------------------------------------------
(* AttachmentOutboxCleaner.run_next, until it finds nothing.  A claim moves *)
(* available_at on; a row still processing when that passes is taken again. *)

\* Mutant: a row whose claimer died is never claimed again.
ClaimablePending(f) == outbox[f] = "pending"

Claimable(f) == outbox[f] \in {"pending", "expired"}

OutboxClaims(w, f) ==
  /\ Claimable(f)
  /\ WorkerAt(w, "sweeping", "outbox")
  /\ outbox' = [outbox EXCEPT ![f] = "processing"]
  /\ own' = [own EXCEPT ![w] = {f}]
  /\ UNCHANGED <<queueVars, rowVars, resultVars, files, apiVars, job, todo, cand,
                 target, made, faults>>

OutboxUnlinks(w) ==
  /\ WorkerAt(w, "outbox", "swept")
  /\ files' = files \ own[w]
  /\ UNCHANGED <<queueVars, rowVars, resultVars, outbox, apiVars, job, own, todo,
                 cand, target, made, faults>>

\* complete_cleanup_outbox and retry_cleanup_outbox touch a processing row only.
SettleOutbox(w, new) ==
  /\ outbox' = [f \in Files |-> IF f \in own[w] /\ outbox[f] \in {"processing", "expired"}
                                THEN new ELSE outbox[f]]
  /\ own' = [own EXCEPT ![w] = {}]
  /\ UNCHANGED <<queueVars, rowVars, resultVars, files, apiVars, job, todo, cand,
                 target, made>>

OutboxCompletes(w) ==
  /\ WorkerAt(w, "swept", "sweeping")
  /\ SettleOutbox(w, "completed")
  /\ UNCHANGED faults

OutboxRetries(w) ==
  /\ Fault("unlink")
  /\ WorkerAt(w, "outbox", "sweeping")
  /\ SettleOutbox(w, "delayed")

SweepEnds(w) ==
  /\ \A f \in Files : ~Claimable(f)
  /\ WorkerAt(w, "sweeping", "claiming")
  /\ UNCHANGED <<queueVars, rowVars, resultVars, files, outbox, apiVars, job, own,
                 todo, cand, target, made, faults>>

-----------------------------------------------------------------------------
(* AttachmentWorker.run_next *)

ClaimNothing(w) ==
  /\ pending = <<>>
  /\ WorkerAt(w, "claiming", "idle")
  /\ UNCHANGED <<queueVars, rowVars, resultVars, files, outbox, apiVars, job, own,
                 todo, cand, target, made, faults>>

ClaimMoves(w) ==
  /\ WorkerAt(w, "claiming", "leasing")
  /\ MoveToInflight
  /\ job' = [job EXCEPT ![w] = Head(pending)]
  /\ UNCHANGED <<rowVars, resultVars, files, outbox, apiVars, own, todo, cand,
                 target, made, faults>>

ClaimLeases(w) ==
  /\ WorkerAt(w, "leasing", "claimed")
  /\ SetLease(job[w], w)
  /\ UNCHANGED <<rowVars, resultVars, files, outbox, apiVars, job, own, todo, cand,
                 target, made, faults>>

\* mark_processing; a row without a path fails at once.
StartProcessing(w, a, v) ==
  /\ job[w] = <<a, v>>
  /\ Processable(a, v)
  /\ WorkerAt(w, "claimed", IF path[a] THEN "parsing" ELSE "failing")
  /\ Update(a, "processing")
  /\ UNCHANGED <<life, ver, path, gone, expired>>
  /\ UNCHANGED <<queueVars, resultVars, files, outbox, apiVars, job, own, todo, cand,
                 target, made, faults>>

\* SELECT ... FOR UPDATE SKIP LOCKED returned no row: stale job, or a row that
\* another transaction holds.  Either way the job is acknowledged.
SkipJob(w, a, v) ==
  /\ job[w] = <<a, v>>
  /\ ~Processable(a, v) \/ ~Unlocked(a)
  /\ WorkerAt(w, "claimed", "acking")
  /\ UNCHANGED <<queueVars, rowVars, resultVars, files, outbox, apiVars, job, own,
                 todo, cand, target, made, faults>>

\* The parser rejects the document (the row may be gone: KeyError, see below).
ParseRejects(w, a, v) ==
  /\ job[w] = <<a, v>>
  /\ Original(a) \in files
  /\ Exists(a)
  /\ WorkerAt(w, "parsing", "acking")
  /\ MarkRejected(a)
  /\ UNCHANGED <<queueVars, resultVars, files, outbox, apiVars, job, own, todo, cand,
                 target, made, faults>>

\* The parser raises, or its time is up.
ParseFails(w) ==
  /\ WorkerAt(w, "parsing", "failing")
  /\ UNCHANGED <<queueVars, rowVars, resultVars, files, outbox, apiVars, job, own,
                 todo, cand, target, made, faults>>

\* The parse succeeded; it produced a preview or only text.
Materializes(w, a, v) ==
  /\ job[w] = <<a, v>>
  /\ Original(a) \in files
  /\ WorkerAt(w, "parsing", "materialized")
  /\ \/ UNCHANGED <<files, own, made>>
     \/ /\ made < MaxDerivatives
        /\ made' = made + 1
        /\ files' = files \cup {Derivative(a, v, made + 1)}
        /\ own' = [own EXCEPT ![w] = {Derivative(a, v, made + 1)}]
  /\ UNCHANGED <<queueVars, rowVars, resultVars, outbox, apiVars, job, todo, cand,
                 target, faults>>

\* A later derivative of the same parse cannot be written: the exception
\* leaves persisted_result None, so the files already written stay.
MaterializeFails(w, a, v) ==
  /\ job[w] = <<a, v>>
  /\ Fault("materialize")
  /\ Original(a) \in files
  /\ made < MaxDerivatives
  /\ WorkerAt(w, "parsing", "failing")
  /\ made' = made + 1
  /\ files' = files \cup {Derivative(a, v, made + 1)}
  /\ UNCHANGED <<queueVars, rowVars, resultVars, outbox, apiVars, job, own, todo,
                 cand, target>>

\* Mutant: a result without previews writes no manifest.
CommitResultOfPreviews(a, v, new) ==
  /\ Unlocked(a)
  /\ Persistable(a, v)
  /\ status' = [status EXCEPT ![a] = "ready"]
  /\ parsed' = IF new = {} THEN parsed ELSE parsed \cup {<<a, v>>}
  /\ rows' = {f \in rows : f[1] # a \/ f[2] # v} \cup new
  /\ UNCHANGED <<life, ver, path, gone, expired>>

\* The transaction of persist_parse_result: the rows of this version are
\* replaced, and the attachment is ready.
CommitResult(a, v, new) ==
  /\ Unlocked(a)
  /\ Persistable(a, v)
  /\ status' = [status EXCEPT ![a] = "ready"]
  /\ parsed' = parsed \cup {<<a, v>>}
  /\ rows' = {f \in rows : f[1] # a \/ f[2] # v} \cup new
  /\ UNCHANGED <<life, ver, path, gone, expired>>

Persists(w, a, v) ==
  /\ job[w] = <<a, v>>
  /\ WorkerAt(w, "materialized", "acking")
  /\ CommitResult(a, v, own[w])
  /\ own' = [own EXCEPT ![w] = {}]
  /\ UNCHANGED <<queueVars, files, outbox, apiVars, job, todo, cand, target, made,
                 faults>>

\* It raised: not processing, or another version, or no row.
PersistRaises(w, a, v) ==
  /\ job[w] = <<a, v>>
  /\ Unlocked(a) /\ ~Persistable(a, v)
  /\ WorkerAt(w, "materialized", "failing")
  /\ files' = files \ own[w]
  /\ own' = [own EXCEPT ![w] = {}]
  /\ UNCHANGED <<queueVars, rowVars, resultVars, outbox, apiVars, job, todo, cand,
                 target, made, faults>>

\* It committed, and the connection was lost before the reply.
PersistUnanswered(w, a, v) ==
  /\ job[w] = <<a, v>>
  /\ Fault("commit_reply")
  /\ WorkerAt(w, "materialized", "failing")
  /\ CommitResult(a, v, own[w])
  /\ files' = files \ own[w]
  /\ own' = [own EXCEPT ![w] = {}]
  /\ UNCHANGED <<queueVars, outbox, apiVars, job, todo, cand, target, made>>

\* mark_failed at the end of every failing path
FailJob(w, a, v) ==
  /\ job[w] = <<a, v>>
  /\ Exists(a)
  /\ WorkerAt(w, "failing", "acking")
  /\ MarkFailed(a)
  /\ UNCHANGED <<queueVars, resultVars, files, outbox, apiVars, job, own, todo, cand,
                 target, made, faults>>

\* mark_failed and mark_rejected of a row that a conversation delete removed
\* raise KeyError out of run_next: the process ends, the job stays inflight.
RowVanished(w, a, v) ==
  /\ job[w] = <<a, v>>
  /\ wpc[w] \in {"failing", "parsing"}
  /\ ~Exists(a)
  /\ Restarts(w)
  /\ UNCHANGED <<queueVars, rowVars, resultVars, files, outbox, apiVars, made, faults>>

AckChecks(w) ==
  /\ WorkerAt(w, "acking", IF OwnsLease(job[w], w) THEN "clearing" ELSE "idle")
  /\ job' = [job EXCEPT ![w] = IF OwnsLease(job[w], w) THEN @ ELSE NoJob]
  /\ UNCHANGED <<queueVars, rowVars, resultVars, files, outbox, apiVars, own, todo,
                 cand, target, made, faults>>

AckClears(w) ==
  /\ WorkerAt(w, "clearing", "idle")
  /\ Acknowledge(job[w])
  /\ job' = [job EXCEPT ![w] = NoJob]
  /\ UNCHANGED <<rowVars, resultVars, files, outbox, apiVars, own, todo, cand,
                 target, made, faults>>

WorkerCrash(w) ==
  /\ Fault("worker")
  /\ wpc[w] # "idle"
  /\ Restarts(w)
  /\ UNCHANGED <<queueVars, rowVars, resultVars, files, outbox, apiVars, made>>

-----------------------------------------------------------------------------
(* The clock *)

DraftExpires(a) ==
  /\ Exists(a) /\ life[a] = "draft" /\ ~expired[a]
  /\ path[a] \/ status[a] = "receiving"
  /\ expired' = [expired EXCEPT ![a] = TRUE]
  /\ UNCHANGED <<status, life, ver, path, gone>>
  /\ UNCHANGED <<queueVars, resultVars, files, outbox, apiVars, workerVars, made,
                 faults>>

OutboxRowDue(f) ==
  /\ \/ outbox[f] = "delayed" /\ outbox' = [outbox EXCEPT ![f] = "pending"]
     \/ outbox[f] = "processing" /\ outbox' = [outbox EXCEPT ![f] = "expired"]
  /\ UNCHANGED <<queueVars, rowVars, resultVars, files, apiVars, workerVars, made,
                 faults>>

LeaseTimesOut(j) ==
  /\ LeaseExpires(j)
  /\ UNCHANGED <<rowVars, resultVars, files, outbox, apiVars, workerVars, made, faults>>

-----------------------------------------------------------------------------
(* Next and fairness *)

UploadStep(a) ==
  \/ CreateReceiving(a) \/ WriteOriginal(a) \/ RejectUpload(a)
  \/ UnlinkRejected(a) \/ StoreOriginal(a)

EnqueueStep(h, a) ==
  \/ EnqueueAcquires(h, a) \/ EnqueuePushes(h, a) \/ EnqueueFailed(h, a)

RetryStep(a) == PrepareRetry(a) \/ RetryRefused(a)

DeleteStep(a) ==
  \/ DeleteMarks(a) \/ DeleteRefused(a) \/ DeleteUnlinks(a) \/ DeleteCompletes(a)

SubmitEnds == SubmitBinds \/ SubmitRollsBack

RecoverStep(w) ==
  \/ RecoverLists(w) \/ RecoverLooks(w) \/ RecoverDrops(w) \/ RecoverPushes(w)
  \/ SkipCleanup(w)

CleanStep(w) ==
  \/ CleanupLists(w) \/ (\E a \in Atts : CleanerMarks(w, a)) \/ CleanerUnlinks(w)
  \/ CleanerCompletes(w) \/ CleanerRaises(w) \/ CleanupEnds(w)
  \/ (\E f \in Files : OutboxClaims(w, f)) \/ OutboxUnlinks(w)
  \/ OutboxCompletes(w) \/ SweepEnds(w)

JobStep(w, a, v) ==
  \/ StartProcessing(w, a, v) \/ SkipJob(w, a, v) \/ ParseRejects(w, a, v)
  \/ Materializes(w, a, v) \/ Persists(w, a, v) \/ PersistRaises(w, a, v)
  \/ FailJob(w, a, v) \/ RowVanished(w, a, v)

WorkerStep(w) ==
  \/ RecoverStep(w) \/ CleanStep(w)
  \/ ClaimNothing(w) \/ ClaimMoves(w) \/ ClaimLeases(w)
  \/ (\E a \in Atts, v \in Versions : JobStep(w, a, v))
  \/ ParseFails(w) \/ AckChecks(w) \/ AckClears(w)

ClockStep ==
  \/ \E a \in Atts : DraftExpires(a)
  \/ \E f \in Files : OutboxRowDue(f)
  \/ \E j \in Jobs : LeaseTimesOut(j)

FaultStep ==
  \/ \E a \in Atts : StorageFails(a) \/ DeleteUnlinkFails(a)
  \/ \E h \in Handlers, a \in Atts : EnqueueRaises(h, a)
  \/ ApiCrash
  \/ \E w \in Workers :
       \/ CleanerUnlinkFails(w) \/ OutboxRetries(w) \/ WorkerCrash(w)
       \/ \E a \in Atts, v \in Versions :
            MaterializeFails(w, a, v) \/ PersistUnanswered(w, a, v)

Next ==
  \/ \E a \in Atts : UploadStep(a) \/ RetryReads(a) \/ RetryStep(a) \/ DeleteReads(a) \/ DeleteStep(a)
  \/ \E h \in Handlers, a \in Atts : EnqueueStep(h, a)
  \/ \E S \in (SUBSET Atts) \ {{}} : SubmitLocks(S) \/ DeleteConversation(S)
  \/ SubmitEnds
  \/ \E w \in Workers : WorkerStep(w)
  \/ ClockStep
  \/ FaultStep

Spec == Init /\ [][Next]_vars

(* A handler that has started goes on, an open transaction ends, a worker   *)
(* never stops looping (a parse is cut off by its time-out), time passes,   *)
(* and so the cleanup interval ends again and again.  No client is obliged  *)
(* to send a request.  The fairness of whoever waits for a row is strong:   *)
(* Postgres queues those who ask for a row lock, so one submission after    *)
(* another cannot keep a cleaner, a worker or a handler from its row.       *)
Fairness ==
  /\ \A a \in Atts : SF_vars(WriteOriginal(a) \/ RejectUpload(a) \/ UnlinkRejected(a)
                             \/ StoreOriginal(a) \/ StorageFails(a))
  /\ \A a \in Atts : SF_vars(DeleteStep(a)) /\ SF_vars(RetryStep(a))
  /\ \A h \in Handlers, a \in Atts : SF_vars(EnqueueStep(h, a))
  /\ WF_vars(SubmitEnds)
  /\ \A w \in Workers : SF_vars(WorkerStep(w)) /\ SF_vars(CleanupLists(w))
  /\ \A a \in Atts : WF_vars(DraftExpires(a))
  /\ \A f \in Files : WF_vars(OutboxRowDue(f))
  /\ \A j \in Jobs : WF_vars(LeaseTimesOut(j))

FairSpec == Spec /\ Fairness

-----------------------------------------------------------------------------
WorkerPC == {"idle", "recovering", "dropping", "pushing", "cleaning", "marked",
             "unlinked", "sweeping", "outbox", "swept", "claiming", "leasing",
             "claimed", "parsing", "materialized", "failing", "acking", "clearing"}
HandlerPC == {"none", "receiving", "written", "unlinked", "retrying", "enqueue", "push",
              "unqueued", "done"}

(* Every variable has its type. *)
TypeOK ==
  /\ QueueTypeOK
  /\ status \in [Atts -> RowStatus \cup {"none", "removed"}]
  /\ life \in [Atts -> {"draft", "attached", "deleted"}]
  /\ ver \in [Atts -> Versions]
  /\ path \in [Atts -> BOOLEAN]
  /\ gone \in [Atts -> BOOLEAN]
  /\ expired \in [Atts -> BOOLEAN]
  /\ parsed \subseteq Jobs
  /\ rows \subseteq Files
  /\ files \subseteq Files
  /\ outbox \in [Files -> {"none", "pending", "delayed", "processing", "expired",
                        "completed"}]
  /\ hpc \in [Handlers -> [Atts -> HandlerPC]]
  /\ rver \in [Atts -> Versions]
  /\ dpc \in [Atts -> {"none", "read", "marked", "unlinked"}]
  /\ submitting \subseteq Atts
  /\ wpc \in [Workers -> WorkerPC]
  /\ job \in [Workers -> Jobs \cup {NoJob}]
  /\ own \in [Workers -> SUBSET Files]
  /\ todo \in [Workers -> Seq(Jobs)]
  /\ cand \in [Workers -> SUBSET Atts]
  /\ target \in [Workers -> Atts \cup {NoAtt}]
  /\ made \in 0..MaxDerivatives
  /\ faults \in 0..MaxFaults

-----------------------------------------------------------------------------
(* Safety *)

(* A draft or sent attachment that has a storage path has its original on   *)
(* disk: no cleaner, rejected upload or outbox row ever removes the file of *)
(* a row that is still in use (content, retry and every parse need it).     *)
OriginalKept ==
  \A a \in Atts : Exists(a) /\ life[a] # "deleted" /\ path[a] => Original(a) \in files

(* A ready attachment can be read: it has a path, and the chunk and         *)
(* manifest rows of exactly the version its row names; retrieval joins on   *)
(* that version, so a result of an older one would be invisible.            *)
ReadyHasResult ==
  \A a \in Atts : Exists(a) /\ status[a] = "ready" => path[a] /\ <<a, ver[a]>> \in parsed

(* Every preview a live row lists is on disk.                               *)
PreviewsKept ==
  \A f \in rows : Exists(f[1]) /\ life[f[1]] # "deleted" => f \in files

(* What is bound to a message stays bound, at the version that was sent,    *)
(* until its conversation is deleted: neither the DELETE handler, nor a     *)
(* retry, nor the draft cleaner working from an old list takes it back.     *)
AttachedIsFinal ==
  [][\A a \in Atts : Exists(a) /\ life[a] = "attached" =>
        \/ status'[a] = "removed"
        \/ life'[a] = "attached" /\ ver'[a] = ver[a] /\ path'[a]]_vars

(* A turn takes all of its attachments or none.  From its row locks to its  *)
(* end no upload, retry, worker, DELETE, cleaner or conversation delete     *)
(* changes a row it holds; when it binds one, all of them are ready and     *)
(* unexpired drafts and all are bound in that step; and nothing but the     *)
(* turn that holds its row binds an attachment.                             *)
TurnIsWhole ==
  [][/\ \A a \in submitting :
          status'[a] = status[a] /\ ver'[a] = ver[a] /\ path'[a] = path[a]
     /\ (\E a \in submitting : life'[a] # life[a]) =>
          \A a \in submitting : Submittable(a) /\ life'[a] = "attached"
     /\ \A a \in Atts : life[a] # "attached" /\ life'[a] = "attached" => a \in submitting]_vars

(* A cleanup row is completed only when its file is gone for good, and the  *)
(* original that a deleted conversation leaves on disk is named by a row.   *)
OutboxCoversFiles ==
  /\ \A f \in files : outbox[f] # "completed"
  /\ \A a \in Atts : status[a] = "removed" /\ Original(a) \in files =>
       outbox[Original(a)] # "none"

(* One job per attachment and version (the known key), and while the key    *)
(* stands the job is somewhere: in a list, or in the hands of a process     *)
(* that is about to push it.                                                *)
JobNotLost ==
  \A j \in known :
    \/ j \in ToSet(pending) \cup ToSet(inflight)
    \/ \E h \in Handlers : hpc[h][j[1]] = "push" /\ j[2] = EnqueuedVersion(h, j[1])
    \/ \E w \in Workers : wpc[w] = "pushing" /\ job[w] = j

(* A worker whose job is of another version than the row does not change    *)
(* the status: stale jobs are acknowledged and nothing else.                *)
StaleJobHarmless ==
  [][\A w \in Workers : wpc'[w] # wpc[w] /\ job[w] # NoJob =>
       (job[w][2] # ver[job[w][1]] => status' = status)]_vars

Lifecycle == INSTANCE AttachmentLifecycle

(* The rows move as models.py allows, and are bound, deleted and removed    *)
(* only as the lifecycle says: what is bound was ready, and stays ready.    *)
ImplementsLifecycle == Lifecycle!Spec

-----------------------------------------------------------------------------
(* Inductive invariants: what the proof modules prove on the way to the     *)
(* properties above.                                                        *)

Holding == {"dropping", "pushing", "leasing", "claimed", "parsing", "materialized",
            "failing", "acking", "clearing"}

\* A worker that works on a job holds one; a retry that was let in has a
\* version to go to.
JobHeld == \A w \in Workers : wpc[w] \in Holding => job[w] \in Jobs
RetryBounded == \A a \in Atts : hpc["retry"][a] = "retrying" => rver[a] < MaxVersion
TypeInv == TypeOK /\ JobHeld /\ RetryBounded

\* Until its upload is stored nobody else touches a row.
Early(a) == hpc["upload"][a] \in {"none", "receiving", "written", "unlinked"}

UploadInv ==
  \A a \in Atts :
    /\ Early(a) => /\ status[a] \in {"none", "receiving"} /\ ~path[a]
                   /\ hpc["retry"][a] = "none"
    /\ hpc["upload"][a] = "written" => Original(a) \in files

\* Who unlinks the files of a row has marked it deleted before.
DeleteInv ==
  /\ \A a \in Atts : dpc[a] = "marked" => life[a] = "deleted"
  /\ \A w \in Workers : wpc[w] = "marked" => target[w] \in Atts /\ life[target[w]] = "deleted"

\* A worker parses a stored original only.
ParseInv ==
  \A w \in Workers :
    /\ wpc[w] \in {"parsing", "materialized", "failing"} => ~Early(job[w][1])
    /\ wpc[w] \in {"parsing", "materialized"} => path[job[w][1]]

\* What a worker unlinks is a derivative of its own or the file of an outbox row.
OwnInv ==
  \A w \in Workers :
    /\ wpc[w] \notin {"outbox", "swept", "materialized"} => own[w] = {}
    /\ wpc[w] = "outbox" => \A f \in own[w] : outbox[f] # "none"
    /\ wpc[w] = "materialized" => \A f \in own[w] : f[2] # 0

\* No derivative row names an original, and the outbox names files of
\* removed attachments only.
RowsInv ==
  /\ \A f \in rows : f[2] # 0
  /\ \A f \in Files : outbox[f] # "none" => status[f[1]] = "removed"

AttachedHasPath == \A a \in Atts : life[a] = "attached" => path[a]

(* The files and results of rows in use, with what keeps them: the          *)
(* inductive invariant behind OriginalKept, ReadyHasResult, AttachedIsFinal. *)
SafeInv ==
  /\ UploadInv /\ DeleteInv /\ ParseInv /\ OwnInv /\ RowsInv /\ AttachedHasPath
  /\ OriginalKept /\ ReadyHasResult

\* The last part of a path counts the files written before it: what a row or
\* the outbox names was written earlier, so no path is ever written again.
FreshInv ==
  /\ \A f \in rows : f[3] <= made
  /\ \A f \in Files : outbox[f] # "none" => f[3] <= made
  /\ \A w \in Workers : wpc[w] = "materialized" => \A f \in own[w] : f[3] <= made

\* What a worker has swept is gone, and no longer anybody's to write.
SweptInv ==
  \A w \in Workers : wpc[w] = "swept" =>
    \A f \in own[w] : f \notin files /\ outbox[f] # "none"

(* The inductive invariant behind OutboxCoversFiles.                        *)
OutboxInv == FreshInv /\ SweptInv /\ OutboxCoversFiles

\* A worker's new previews are on disk, belong to the attachment of its job,
\* and to nobody else: no row, no cleanup row and no other worker has them.
NewPreviewsInv ==
  \A w \in Workers : wpc[w] = "materialized" => \A f \in own[w] :
    /\ f \in files \ rows /\ outbox[f] = "none" /\ f[1] = job[w][1]
    /\ \A x \in Workers \ {w} : wpc[x] = "materialized" => f \notin own[x]

(* The inductive invariant behind PreviewsKept, which needs every commit to *)
(* be answered.                                                             *)
PreviewInv ==
  /\ \A f \in rows : ~Early(f[1])
  /\ NewPreviewsInv /\ PreviewsKept

\* A job is in a list, in the list a recovering worker read, or in its hands.
HasJob(j) ==
  \/ j \in ToSet(pending) \cup ToSet(inflight)
  \/ \E w \in Workers : job[w] = j \/ j \in ToSet(todo[w])

\* Jobs are of stored uploads and of versions that exist.
VersionsInv ==
  /\ \A j \in Jobs : HasJob(j) => ~Early(j[1]) /\ j[2] <= ver[j[1]]
  /\ \A a \in Atts : Early(a) => ver[a] = 1

Enqueueing == {"enqueue", "push", "unqueued"}

\* Until a handler has pushed its job, there is no such job and the row waits.
HandlersInv ==
  \A a \in Atts :
    /\ hpc["upload"][a] \in {"receiving", "written", "unlinked"} => status[a] = "receiving"
    /\ \A h \in Handlers : hpc[h][a] \in Enqueueing =>
         /\ ver[a] = EnqueuedVersion(h, a) /\ ~HasJob(<<a, EnqueuedVersion(h, a)>>)
         /\ status[a] = (IF h = "upload" THEN "stored" ELSE "processing")
         /\ life[a] # "attached"

\* A row a worker works on is at the version of its job, and not open to a retry.
Working == {"parsing", "materialized", "failing"}
WorkInv ==
  \A w \in Workers : wpc[w] \in Working =>
    status[job[w][1]] # "failed" /\ ver[job[w][1]] = job[w][2]

\* It is processing, and what is bound is ready, when every commit is answered.
CommitsAnswered == "commit_reply" \notin FaultKinds
StatusInv ==
  /\ \A w \in Workers : wpc[w] \in Working => status[job[w][1]] = "processing"
  /\ \A a \in Atts : life[a] = "attached" => status[a] \in {"ready", "removed"}

(* The inductive invariant behind ImplementsLifecycle and StaleJobHarmless, *)
(* for one worker process whose pushes are answered.                        *)
OrderInv ==
  VersionsInv /\ HandlersInv /\ WorkInv /\ (CommitsAnswered => StatusInv)

-----------------------------------------------------------------------------
(* Liveness *)

(* No attachment is left in a status a client polls on: it becomes ready,   *)
(* rejected or failed, or the cleaner deletes it after it expired - also    *)
(* when its job was lost, or its upload died half-way.                      *)
DraftsSettle ==
  \A a \in Atts : status[a] \in {"receiving", "stored", "processing"} ~>
    (status[a] \in {"ready", "rejected", "failed", "removed"} \/ gone[a])

(* A deletion that was begun is completed, by the request or by the cleaner.*)
DeletionCompletes == \A a \in Atts : life[a] = "deleted" ~> gone[a]

(* Every cleanup row is completed in the end, and its file is gone.         *)
OutboxDrains ==
  \A f \in Files : outbox[f] = "pending" ~> (outbox[f] = "completed" /\ f \notin files)
=============================================================================
