----------------------- MODULE AttachmentsFilesProofs -----------------------
(***************************************************************************)
(* The files of the attachment pipeline.                                   *)
(*                                                                         *)
(* Most steps leave files, derivative rows and cleanup rows alone; the     *)
(* lemma FileMoves says which do not, and the proofs below only look at    *)
(* those.                                                                  *)
(*                                                                         *)
(* The outbox: a path is never written twice (FreshInv), and a worker      *)
(* completes a cleanup row only after its file is gone (SweptInv).         *)
(* Previews: what a worker has just made is in nobody else's hands         *)
(* (NewPreviewsInv), so it may unlink it as long as it knows that it has   *)
(* not committed; a commit whose reply is lost breaks that.                *)
(***************************************************************************)
EXTENDS AttachmentsProofs

-----------------------------------------------------------------------------
(* What a step does to files.                                               *)

\* A step that touches no file and no row that names one.
FilesAlone ==
  /\ UNCHANGED <<files, rows, outbox, made>>
  /\ \A w \in Workers : wpc'[w] \in {"materialized", "swept"} =>
       wpc'[w] = wpc[w] /\ own'[w] = own[w] /\ job'[w] = job[w]
  /\ \A a \in Atts : Early(a)' => Early(a)
  /\ \A a \in Atts : status'[a] = "removed" => status[a] = "removed"
  /\ \A a \in Atts : Exists(a)' /\ life'[a] # "deleted" =>
       Early(a) \/ (Exists(a) /\ life[a] # "deleted")

\* The steps that do.
FileStep ==
  \/ \E a \in Atts : WriteOriginal(a) \/ UnlinkRejected(a) \/ DeleteUnlinks(a)
  \/ \E S \in SUBSET Atts : DeleteConversation(S)
  \/ \E f \in Files : OutboxRowDue(f)
  \/ \E w \in Workers :
       \/ \E f \in Files : OutboxClaims(w, f)
       \/ CleanerUnlinks(w) \/ OutboxUnlinks(w) \/ OutboxCompletes(w) \/ OutboxRetries(w)
       \/ \E a \in Atts, v \in Versions :
            \/ Materializes(w, a, v) \/ MaterializeFails(w, a, v)
            \/ Persists(w, a, v) \/ PersistRaises(w, a, v) \/ PersistUnanswered(w, a, v)

(* Every step leaves the files alone or is one of these.                    *)
LEMMA FileMoves ==
  ASSUME TypeInv, SafeInv, [Next]_vars
  PROVE  FilesAlone \/ FileStep
<1>. SUFFICES ASSUME ~FileStep PROVE FilesAlone
  OBVIOUS
<1>. USE DEF TypeInv, TypeOK, FilesAlone, Early, Exists, RowStatus, queueVars, rowVars,
             resultVars, apiVars, workerVars, HandlerAt, DeleteAt, Update, Handlers, WorkerAt
<1>1. ASSUME NEW a \in Atts, UploadStep(a) PROVE FilesAlone
  <2>1. CASE CreateReceiving(a)
    BY <2>1 DEF CreateReceiving
  <2>2. CASE RejectUpload(a)
    BY <2>2 DEF RejectUpload, MarkRejected
  <2>3. CASE StoreOriginal(a)
    BY <2>3 DEF StoreOriginal, MarkStored
  <2>. QED BY <1>1, <2>1, <2>2, <2>3 DEF UploadStep, FileStep
<1>2. ASSUME NEW a \in Atts, RetryReads(a) \/ RetryStep(a) PROVE FilesAlone
  <2>1. CASE RetryReads(a)
    BY <2>1 DEF RetryReads
  <2>2. CASE PrepareRetry(a)
    BY <2>2 DEF PrepareRetry, Retryable
  <2>3. CASE RetryRefused(a)
    BY <2>3 DEF RetryRefused
  <2>. QED BY <1>2, <2>1, <2>2, <2>3 DEF RetryStep
<1>3. ASSUME NEW h \in Handlers, NEW a \in Atts, EnqueueStep(h, a) PROVE FilesAlone
  <2>1. CASE EnqueueAcquires(h, a)
    BY <2>1 DEF EnqueueAcquires
  <2>2. CASE EnqueuePushes(h, a)
    BY <2>2 DEF EnqueuePushes, Finished
  <2>3. CASE EnqueueFailed(h, a)
    BY <2>3 DEF EnqueueFailed, Finished, MarkFailed
  <2>. QED BY <1>3, <2>1, <2>2, <2>3 DEF EnqueueStep
<1>4. ASSUME NEW a \in Atts, DeleteReads(a) \/ DeleteStep(a) PROVE FilesAlone
  <2>1. CASE DeleteReads(a)
    BY <2>1 DEF DeleteReads
  <2>2. CASE DeleteMarks(a)
    BY <2>2 DEF DeleteMarks, MarkLifecycleDeleted
  <2>3. CASE DeleteRefused(a)
    BY <2>3 DEF DeleteRefused
  <2>4. CASE DeleteCompletes(a)
    BY <2>4 DEF DeleteCompletes, CompleteDeleted
  <2>. QED BY <1>4, <2>1, <2>2, <2>3, <2>4 DEF DeleteStep, FileStep
<1>5. ASSUME NEW S \in SUBSET Atts, SubmitLocks(S) \/ DeleteConversation(S) PROVE FilesAlone
  BY <1>5 DEF SubmitLocks, FileStep
<1>6. CASE SubmitEnds
  BY <1>6 DEF SubmitEnds, SubmitBinds, SubmitRollsBack, Submittable
<1>7. ASSUME NEW w \in Workers, WorkerStep(w) PROVE FilesAlone
  <2>1. CASE RecoverStep(w)
    <3>1. CASE RecoverLists(w)
      BY <3>1 DEF RecoverLists
    <3>2. CASE RecoverLooks(w)
      BY <3>2 DEF RecoverLooks
    <3>3. CASE RecoverDrops(w)
      BY <3>3 DEF RecoverDrops
    <3>4. CASE RecoverPushes(w)
      BY <3>4 DEF RecoverPushes
    <3>5. CASE SkipCleanup(w)
      BY <3>5 DEF SkipCleanup
    <3>. QED BY <2>1, <3>1, <3>2, <3>3, <3>4, <3>5 DEF RecoverStep
  <2>2. CASE CleanStep(w)
    <3>1. CASE CleanupLists(w)
      BY <3>1 DEF CleanupLists
    <3>2. ASSUME NEW a \in Atts, CleanerMarks(w, a) PROVE FilesAlone
      BY <3>2 DEF CleanerMarks, MarkLifecycleDeleted
    <3>3. CASE CleanerCompletes(w)
      BY <3>3 DEF CleanerCompletes, CompleteDeleted
    <3>4. CASE CleanerRaises(w)
      BY <3>4 DEF CleanerRaises, Restarts
    <3>5. CASE CleanupEnds(w)
      BY <3>5 DEF CleanupEnds
    <3>6. CASE SweepEnds(w)
      BY <3>6 DEF SweepEnds
    <3>. QED BY <2>2, <3>1, <3>2, <3>3, <3>4, <3>5, <3>6 DEF CleanStep, FileStep
  <2>3. ASSUME NEW a \in Atts, NEW v \in Versions, JobStep(w, a, v) PROVE FilesAlone
    <3>1. CASE StartProcessing(w, a, v)
      BY <3>1 DEF StartProcessing, Processable
    <3>2. CASE SkipJob(w, a, v)
      BY <3>2 DEF SkipJob
    <3>3. CASE ParseRejects(w, a, v)
      BY <3>3 DEF ParseRejects, MarkRejected
    <3>4. CASE FailJob(w, a, v)
      BY <3>4 DEF FailJob, MarkFailed
    <3>5. CASE RowVanished(w, a, v)
      BY <3>5 DEF RowVanished, Restarts
    <3>. QED BY <2>3, <3>1, <3>2, <3>3, <3>4, <3>5 DEF JobStep, FileStep
  <2>4. CASE ClaimNothing(w) \/ ParseFails(w)
    BY <2>4 DEF ClaimNothing, ParseFails
  <2>5. CASE ClaimMoves(w)
    BY <2>5 DEF ClaimMoves
  <2>6. CASE ClaimLeases(w)
    BY <2>6 DEF ClaimLeases
  <2>7. CASE AckChecks(w)
    BY <2>7 DEF AckChecks
  <2>8. CASE AckClears(w)
    BY <2>8 DEF AckClears
  <2>. QED BY <1>7, <2>1, <2>2, <2>3, <2>4, <2>5, <2>6, <2>7, <2>8 DEF WorkerStep
<1>8. CASE ClockStep
  BY <1>8 DEF ClockStep, DraftExpires, LeaseTimesOut, FileStep
<1>9. CASE FaultStep
  <2>1. ASSUME NEW a \in Atts, StorageFails(a) PROVE FilesAlone
    BY <2>1 DEF StorageFails, MarkFailed
  <2>2. ASSUME NEW a \in Atts, DeleteUnlinkFails(a) PROVE FilesAlone
    BY <2>2 DEF DeleteUnlinkFails
  <2>3. ASSUME NEW h \in Handlers, NEW a \in Atts, EnqueueRaises(h, a) PROVE FilesAlone
    BY <2>3 DEF EnqueueRaises
  <2>4. CASE ApiCrash
    BY <2>4 DEF ApiCrash, Finished
  <2>5. ASSUME NEW w \in Workers, CleanerUnlinkFails(w) PROVE FilesAlone
    BY <2>5 DEF CleanerUnlinkFails
  <2>6. ASSUME NEW w \in Workers, WorkerCrash(w) PROVE FilesAlone
    BY <2>6 DEF WorkerCrash, Restarts
  <2>. QED BY <1>9, <2>1, <2>2, <2>3, <2>4, <2>5, <2>6 DEF FaultStep, FileStep
<1>10. CASE UNCHANGED vars
  BY <1>10 DEF vars
<1>. QED BY <1>1, <1>2, <1>3, <1>4, <1>5, <1>6, <1>7, <1>8, <1>9, <1>10 DEF Next

-----------------------------------------------------------------------------
(* Cleanup rows: a completed one has no file, and every original that a     *)
(* removed row leaves has one.                                              *)

(* Every path of a row was written before.                                  *)
LEMMA PathsFresh ==
  ASSUME TypeInv, OutboxInv, NEW a \in Atts
  PROVE  \A f \in StoragePaths(a) : f \in Files /\ f[3] <= made
<1>1. Original(a)[3] = 0 /\ Original(a) \in Files /\ made \in Nat
  BY OriginalIsFile DEF Original, TypeInv, TypeOK
<1>. QED BY <1>1 DEF StoragePaths, OutboxInv, FreshInv, TypeInv, TypeOK

(* No original has ever been swept or outboxed while its upload runs.       *)
LEMMA EarlyNotOutboxed ==
  ASSUME TypeInv, SafeInv, NEW a \in Atts, Early(a)
  PROVE  outbox[Original(a)] = "none" /\ status[a] # "removed"
  BY Parts DEF SafeInv, UploadInv, RowsInv

(* A step that leaves the files alone preserves the invariant.              *)
LEMMA AloneOutbox ==
  ASSUME TypeInv, OutboxInv, FilesAlone PROVE OutboxInv'
<1>. USE DEF FilesAlone, OutboxInv
<1>1. FreshInv'
  BY DEF FreshInv
<1>2. SweptInv'
  BY DEF SweptInv
<1>3. OutboxCoversFiles'
  BY DEF OutboxCoversFiles
<1>. QED BY <1>1, <1>2, <1>3

(* The next derivative has never been written.                              *)
LEMMA NextIsFresh ==
  ASSUME TypeInv, OutboxInv, NEW a \in Atts, NEW v \in Versions, made < MaxDerivatives
  PROVE  LET f == Derivative(a, v, made + 1) IN
         /\ f \in Files /\ f[1] = a /\ f[2] # 0 /\ f[3] = made + 1
         /\ made + 1 \in Nat /\ made < made + 1
         /\ f \notin rows /\ outbox[f] = "none"
         /\ \A w \in Workers : wpc[w] \in {"materialized", "swept"} => f \notin own[w]
<1>. DEFINE f == Derivative(a, v, made + 1)
<1>1. made \in Nat /\ made + 1 \in 0..MaxDerivatives /\ ~(made + 1 <= made)
  BY AttachmentAssumption DEF TypeInv, TypeOK
<1>2. f \in Files /\ f[1] = a /\ f[2] # 0 /\ f[3] = made + 1
  BY <1>1, DerivativeIsFile, Parts DEF Derivative
<1>3. f \notin rows /\ outbox[f] = "none"
  BY <1>1, <1>2 DEF OutboxInv, FreshInv
<1>4. ASSUME NEW w \in Workers, wpc[w] \in {"materialized", "swept"} PROVE f \notin own[w]
  <2>1. CASE wpc[w] = "materialized"
    BY <1>1, <1>2, <2>1 DEF OutboxInv, FreshInv
  <2>2. CASE wpc[w] = "swept"
    BY <1>3, <2>2 DEF OutboxInv, SweptInv
  <2>. QED BY <1>4, <2>1, <2>2
<1>. QED BY <1>1, <1>2, <1>3, <1>4

(* So does every step that touches them.                                    *)
LEMMA FileStepOutbox ==
  ASSUME TypeInv, SafeInv, OutboxInv, FileStep PROVE OutboxInv'
<1>. USE DEF TypeInv, TypeOK, queueVars, rowVars, resultVars, apiVars, workerVars,
             HandlerAt, DeleteAt, WorkerAt, Handlers
<1>1. ASSUME NEW a \in Atts, WriteOriginal(a) PROVE OutboxInv'
  <2>1. /\ files' = files \cup {Original(a)} /\ UNCHANGED <<rows, outbox, made, wpc, own, status>>
        /\ outbox[Original(a)] = "none" /\ status[a] # "removed"
    <3>1. Early(a)
      BY <1>1 DEF WriteOriginal, Early
    <3>. QED BY <1>1, <3>1, EarlyNotOutboxed DEF WriteOriginal
  <2>2. \A b \in Atts : Original(b) = Original(a) => b = a
    BY OriginalDiffers
  <2>3. FreshInv'
    BY <2>1 DEF OutboxInv, FreshInv
  <2>4. SweptInv'
    BY <2>1 DEF OutboxInv, SweptInv
  <2>5. OutboxCoversFiles'
    BY <2>1, <2>2 DEF OutboxInv, OutboxCoversFiles
  <2>. QED BY <2>3, <2>4, <2>5 DEF OutboxInv
<1>2. ASSUME NEW P, files' = files \ P, UNCHANGED <<rows, outbox, made, status>>,
             \A w \in Workers : wpc'[w] \in {"materialized", "swept"} =>
               wpc'[w] = wpc[w] /\ own'[w] = own[w]
      PROVE  OutboxInv'
  <2>1. FreshInv'
    BY <1>2 DEF OutboxInv, FreshInv
  <2>2. SweptInv'
    BY <1>2 DEF OutboxInv, SweptInv
  <2>3. OutboxCoversFiles'
    BY <1>2 DEF OutboxInv, OutboxCoversFiles
  <2>. QED BY <2>1, <2>2, <2>3 DEF OutboxInv
<1>3. ASSUME NEW a \in Atts, UnlinkRejected(a) \/ DeleteUnlinks(a) PROVE OutboxInv'
  BY <1>2, <1>3 DEF UnlinkRejected, DeleteUnlinks
<1>4. ASSUME NEW w \in Workers, CleanerUnlinks(w) PROVE OutboxInv'
  BY <1>2, <1>4 DEF CleanerUnlinks
<1>5. ASSUME NEW w \in Workers, NEW a \in Atts, NEW v \in Versions, PersistRaises(w, a, v)
      PROVE  OutboxInv'
  BY <1>2, <1>5 DEF PersistRaises
<1>6. ASSUME NEW S \in SUBSET Atts, DeleteConversation(S) PROVE OutboxInv'
  <2>. DEFINE paths == UNION {StoragePaths(a) : a \in S}
  <2>1. /\ \A f \in Files : outbox'[f] = IF f \in paths /\ outbox[f] = "none"
                                         THEN "pending" ELSE outbox[f]
        /\ status' = [a \in Atts |-> IF a \in S THEN "removed" ELSE status[a]]
        /\ rows' \subseteq rows /\ UNCHANGED <<files, made, wpc, own>>
    BY <1>6 DEF DeleteConversation
  <2>2. \A f \in paths : f \in Files /\ f[3] <= made
    BY PathsFresh
  <2>3. \A a \in S : Original(a) \in paths
    BY <1>6 DEF DeleteConversation, SafeInv, AttachedHasPath, StoragePaths
  <2>4. FreshInv'
    BY <2>1, <2>2 DEF OutboxInv, FreshInv
  <2>5. SweptInv'
    BY <2>1 DEF OutboxInv, SweptInv
  <2>6. OutboxCoversFiles'
    <3>1. ASSUME NEW f \in files PROVE outbox'[f] # "completed"
      BY <2>1 DEF OutboxInv, OutboxCoversFiles
    <3>2. ASSUME NEW a \in Atts, status'[a] = "removed", Original(a) \in files
          PROVE  outbox'[Original(a)] # "none"
      BY <2>1, <2>3, <3>2, OriginalIsFile DEF OutboxInv, OutboxCoversFiles
    <3>. QED BY <2>1, <3>1, <3>2 DEF OutboxCoversFiles
  <2>. QED BY <2>4, <2>5, <2>6 DEF OutboxInv
<1>7. ASSUME NEW f \in Files, OutboxRowDue(f) PROVE OutboxInv'
  <2>1. /\ \A g \in Files : /\ outbox'[g] # "none" <=> outbox[g] # "none"
                            /\ outbox'[g] = "completed" => outbox[g] = "completed"
        /\ UNCHANGED <<files, rows, made, status, wpc, own>>
    BY <1>7 DEF OutboxRowDue
  <2>2. FreshInv'
    BY <2>1 DEF OutboxInv, FreshInv
  <2>3. SweptInv'
    BY <2>1 DEF OutboxInv, SweptInv
  <2>4. OutboxCoversFiles'
    BY <2>1, OriginalIsFile DEF OutboxInv, OutboxCoversFiles
  <2>. QED BY <2>2, <2>3, <2>4 DEF OutboxInv
<1>8. ASSUME NEW w \in Workers, NEW f \in Files, OutboxClaims(w, f) PROVE OutboxInv'
  <2>1. /\ \A g \in Files : /\ outbox'[g] # "none" <=> outbox[g] # "none"
                            /\ outbox'[g] = "completed" => outbox[g] = "completed"
        /\ UNCHANGED <<files, rows, made, status>>
        /\ \A x \in Workers : wpc'[x] \in {"materialized", "swept"} =>
             wpc'[x] = wpc[x] /\ own'[x] = own[x]
    BY <1>8 DEF OutboxClaims, Claimable
  <2>2. FreshInv'
    BY <2>1 DEF OutboxInv, FreshInv
  <2>3. SweptInv'
    BY <2>1 DEF OutboxInv, SweptInv
  <2>4. OutboxCoversFiles'
    BY <2>1, OriginalIsFile DEF OutboxInv, OutboxCoversFiles
  <2>. QED BY <2>2, <2>3, <2>4 DEF OutboxInv
<1>9. ASSUME NEW w \in Workers, OutboxUnlinks(w) PROVE OutboxInv'
  <2>1. /\ files' = files \ own[w] /\ UNCHANGED <<rows, outbox, made, status, own>>
        /\ \A x \in Workers : /\ wpc'[x] = "materialized" => wpc[x] = "materialized"
                              /\ wpc'[x] = "swept" => x = w \/ wpc[x] = "swept"
        /\ \A f \in own[w] : outbox[f] # "none"
    BY <1>9 DEF OutboxUnlinks, SafeInv, OwnInv
  <2>2. FreshInv'
    BY <2>1 DEF OutboxInv, FreshInv
  <2>3. SweptInv'
    BY <2>1 DEF OutboxInv, SweptInv
  <2>4. OutboxCoversFiles'
    BY <2>1 DEF OutboxInv, OutboxCoversFiles
  <2>. QED BY <2>2, <2>3, <2>4 DEF OutboxInv
<1>10. ASSUME NEW w \in Workers, OutboxCompletes(w) \/ OutboxRetries(w) PROVE OutboxInv'
  <2>1. /\ \A g \in Files : /\ outbox'[g] # "none" <=> outbox[g] # "none"
                            /\ outbox'[g] = "completed" =>
                                 outbox[g] = "completed" \/ (wpc[w] = "swept" /\ g \in own[w])
        /\ UNCHANGED <<files, rows, made, status>>
        /\ \A x \in Workers : wpc'[x] \in {"materialized", "swept"} =>
             wpc'[x] = wpc[x] /\ own'[x] = own[x]
    BY <1>10 DEF OutboxCompletes, OutboxRetries, SettleOutbox
  <2>2. FreshInv'
    BY <2>1 DEF OutboxInv, FreshInv
  <2>3. SweptInv'
    BY <2>1 DEF OutboxInv, SweptInv
  <2>4. OutboxCoversFiles'
    BY <2>1, OriginalIsFile DEF OutboxInv, OutboxCoversFiles, SweptInv
  <2>. QED BY <2>2, <2>3, <2>4 DEF OutboxInv
<1>11. ASSUME NEW w \in Workers, NEW a \in Atts, NEW v \in Versions,
              Materializes(w, a, v), UNCHANGED <<files, own, made>>
       PROVE  OutboxInv'
  <2>1. /\ UNCHANGED <<files, rows, outbox, made, status, own>>
        /\ \A x \in Workers : wpc'[x] = "swept" => wpc[x] = "swept"
        /\ \A x \in Workers : wpc'[x] = "materialized" =>
             wpc[x] = "materialized" \/ own[x] = {}
    BY <1>11 DEF Materializes, SafeInv, OwnInv
  <2>2. FreshInv'
    BY <2>1 DEF OutboxInv, FreshInv
  <2>3. SweptInv'
    BY <2>1 DEF OutboxInv, SweptInv
  <2>4. OutboxCoversFiles'
    BY <2>1 DEF OutboxInv, OutboxCoversFiles
  <2>. QED BY <2>2, <2>3, <2>4 DEF OutboxInv
<1>12. ASSUME NEW w \in Workers, NEW a \in Atts, NEW v \in Versions,
              Materializes(w, a, v) \/ MaterializeFails(w, a, v), made < MaxDerivatives,
              made' = made + 1, files' = files \cup {Derivative(a, v, made + 1)}
       PROVE  OutboxInv'
  <2>. DEFINE f == Derivative(a, v, made + 1)
  <2>1. /\ f \in Files /\ f[1] = a /\ f[2] # 0 /\ f[3] = made + 1 /\ made < made + 1
        /\ f \notin rows /\ outbox[f] = "none"
        /\ \A x \in Workers : wpc[x] \in {"materialized", "swept"} => f \notin own[x]
    BY <1>12, NextIsFresh
  <2>2. /\ UNCHANGED <<rows, outbox, status>>
        /\ \A x \in Workers : wpc'[x] = "swept" => wpc[x] = "swept" /\ own'[x] = own[x]
        /\ \A x \in Workers : wpc'[x] = "materialized" =>
             (wpc[x] = "materialized" /\ own'[x] = own[x]) \/ own'[x] \subseteq {f}
    BY <1>12 DEF Materializes, MaterializeFails, SafeInv, OwnInv
  <2>. HIDE DEF f
  <2>3. FreshInv'
    <3>1. \A g \in Files : g[3] <= made => g[3] <= made + 1
      BY DEF Files
    <3>2. f[3] <= made + 1
      BY <2>1
    <3>3. \A g \in rows' : g[3] <= made'
      BY <1>12, <2>2, <3>1 DEF OutboxInv, FreshInv
    <3>4. \A g \in Files : outbox'[g] # "none" => g[3] <= made'
      BY <1>12, <2>2, <3>1 DEF OutboxInv, FreshInv
    <3>5. ASSUME NEW x \in Workers, wpc'[x] = "materialized", NEW g \in own'[x]
          PROVE  g[3] <= made'
      <4>1. CASE g = f
        BY <1>12, <3>2, <4>1
      <4>2. CASE g # f
        <5>1. wpc[x] = "materialized" /\ g \in own[x]
          BY <2>2, <3>5, <4>2
        <5>2. own[x] \subseteq Files
          BY DEF TypeInv, TypeOK
        <5>3. g \in Files /\ g[3] <= made
          BY <5>1, <5>2 DEF OutboxInv, FreshInv
        <5>4. made' = made + 1
          BY <1>12
        <5>. QED BY <3>1, <5>3, <5>4
      <4>. QED BY <4>1, <4>2
    <3>. QED BY <3>3, <3>4, <3>5 DEF FreshInv
  <2>4. SweptInv'
    BY <1>12, <2>1, <2>2 DEF OutboxInv, SweptInv, f
  <2>5. OutboxCoversFiles'
    <3>1. \A b \in Atts : Original(b) # f
      BY <2>1, OriginalDiffers
    <3>. QED BY <1>12, <2>1, <2>2, <3>1 DEF OutboxInv, OutboxCoversFiles, f
  <2>. QED BY <2>3, <2>4, <2>5 DEF OutboxInv
<1>13. ASSUME NEW w \in Workers, NEW a \in Atts, NEW v \in Versions,
              Persists(w, a, v) \/ PersistUnanswered(w, a, v)
       PROVE  OutboxInv'
  <2>1. /\ files' \subseteq files /\ UNCHANGED <<outbox, made>>
        /\ wpc[w] = "materialized" /\ rows' \subseteq rows \cup own[w]
        /\ \A b \in Atts : status'[b] = "removed" => status[b] = "removed"
        /\ \A x \in Workers : wpc'[x] \in {"materialized", "swept"} =>
             wpc'[x] = wpc[x] /\ own'[x] = own[x]
    BY <1>13 DEF Persists, PersistUnanswered, CommitResult
  <2>2. FreshInv'
    BY <2>1 DEF OutboxInv, FreshInv
  <2>3. SweptInv'
    BY <2>1 DEF OutboxInv, SweptInv
  <2>4. OutboxCoversFiles'
    BY <2>1 DEF OutboxInv, OutboxCoversFiles
  <2>. QED BY <2>2, <2>3, <2>4 DEF OutboxInv
<1>14. ASSUME NEW w \in Workers, NEW a \in Atts, NEW v \in Versions,
              Materializes(w, a, v) \/ MaterializeFails(w, a, v)
       PROVE  OutboxInv'
  BY <1>11, <1>12, <1>14 DEF Materializes, MaterializeFails
<1>. QED BY <1>1, <1>3, <1>4, <1>5, <1>6, <1>7, <1>8, <1>9, <1>10, <1>13, <1>14 DEF FileStep

(* Nothing is in the outbox at the start.                                   *)
LEMMA InitOutbox == Init => OutboxInv
  BY OriginalIsFile DEF Init, OutboxInv, FreshInv, SweptInv, OutboxCoversFiles

(* The invariant of the cleanup rows holds in every reachable state.        *)
THEOREM OutboxInvariant == Spec => []OutboxInv
<1>1. TypeInv /\ SafeInv /\ OutboxInv /\ [Next]_vars => OutboxInv'
  BY FileMoves, AloneOutbox, FileStepOutbox
<1>. QED BY <1>1, InitOutbox, TypeInvariant, SafeInvariant, PTL DEF Spec

(* A cleanup row is completed only when its file is gone and will not come  *)
(* back, and no original is left behind by a deleted conversation without a *)
(* row that names it, however often cleaners crash, retry and overlap.      *)
THEOREM OutboxCovers == Spec => []OutboxCoversFiles
<1>1. OutboxInv => OutboxCoversFiles
  BY DEF OutboxInv
<1>. QED BY <1>1, OutboxInvariant, PTL

-----------------------------------------------------------------------------
(* Previews: every one that a live row lists is on disk.                    *)

Live(a) == Exists(a) /\ life[a] # "deleted"

(* No step that touches files revives a row or sets an upload back.         *)
LEMMA FileStepRows ==
  ASSUME TypeInv, FileStep
  PROVE  \A b \in Atts : (Early(b)' => Early(b)) /\ (Live(b)' => Live(b))
<1>. USE DEF TypeInv, TypeOK, FileStep, Early, Live, Exists, RowStatus, rowVars, apiVars,
             HandlerAt, DeleteAt, Handlers
<1>1. ASSUME NEW a \in Atts, WriteOriginal(a) \/ UnlinkRejected(a) \/ DeleteUnlinks(a)
      PROVE  \A b \in Atts : (Early(b)' => Early(b)) /\ (Live(b)' => Live(b))
  BY <1>1 DEF WriteOriginal, UnlinkRejected, DeleteUnlinks
<1>2. ASSUME NEW S \in SUBSET Atts, DeleteConversation(S)
      PROVE  \A b \in Atts : (Early(b)' => Early(b)) /\ (Live(b)' => Live(b))
  BY <1>2 DEF DeleteConversation
<1>3. ASSUME NEW w \in Workers, NEW a \in Atts, NEW v \in Versions,
             Persists(w, a, v) \/ PersistUnanswered(w, a, v)
      PROVE  \A b \in Atts : (Early(b)' => Early(b)) /\ (Live(b)' => Live(b))
  BY <1>3 DEF Persists, PersistUnanswered, CommitResult, Persistable
<1>4. CASE UNCHANGED <<rowVars, apiVars>>
  BY <1>4
<1>. QED BY <1>1, <1>2, <1>3, <1>4
     DEF OutboxRowDue, OutboxClaims, CleanerUnlinks, OutboxUnlinks, OutboxCompletes,
         OutboxRetries, SettleOutbox, Materializes, MaterializeFails, PersistRaises

(* New previews are not among the paths of any row.                         *)
LEMMA OwnNotPath ==
  ASSUME SafeInv, PreviewInv, NEW a \in Atts, NEW w \in Workers, wpc[w] = "materialized"
  PROVE  \A f \in own[w] : f \notin StoragePaths(a)
  BY OwnNotOriginal DEF PreviewInv, NewPreviewsInv, StoragePaths

(* A step that leaves the files alone preserves the invariant.              *)
LEMMA AlonePreview ==
  ASSUME TypeInv, PreviewInv, FilesAlone PROVE PreviewInv'
<1>1. \A f \in rows : f[1] \in Atts
  BY Parts DEF TypeInv, TypeOK
<1>2. \A f \in rows' : ~Early(f[1])'
  BY <1>1 DEF FilesAlone, PreviewInv
<1>3. PreviewsKept'
  BY <1>1 DEF FilesAlone, PreviewInv, PreviewsKept
<1>4. NewPreviewsInv'
  BY DEF FilesAlone, PreviewInv, NewPreviewsInv
<1>. QED BY <1>2, <1>3, <1>4 DEF PreviewInv

(* So does one that removes files of rows not in use, and no new previews.  *)
LEMMA RemovalPreview ==
  ASSUME TypeInv, PreviewInv, FileStep, rows' \subseteq rows,
         \A f \in files : f \in rows' /\ Live(f[1]) => f \in files',
         \A w \in Workers : wpc'[w] = "materialized" =>
           /\ wpc[w] = "materialized" /\ own'[w] = own[w] /\ job'[w] = job[w]
           /\ \A f \in own[w] : (f \in files => f \in files') /\ outbox'[f] = "none"
  PROVE  PreviewInv'
<1>1. \A f \in rows : f[1] \in Atts
  BY Parts DEF TypeInv, TypeOK
<1>2. \A f \in rows' : ~Early(f[1])'
  BY <1>1, FileStepRows DEF PreviewInv
<1>3. PreviewsKept'
  BY <1>1, FileStepRows DEF PreviewInv, PreviewsKept, Live
<1>4. NewPreviewsInv'
  BY DEF PreviewInv, NewPreviewsInv
<1>. QED BY <1>2, <1>3, <1>4 DEF PreviewInv

(* Every step that touches files does, when commits are answered.           *)
LEMMA FileStepPreview ==
  ASSUME TypeInv, SafeInv, OutboxInv, PreviewInv, FileStep, "commit_reply" \notin FaultKinds
  PROVE  PreviewInv'
<1>. USE DEF TypeInv, TypeOK, queueVars, rowVars, resultVars, apiVars, workerVars,
             HandlerAt, DeleteAt, WorkerAt, Handlers
<1>0. \A w \in Workers : wpc[w] = "materialized" => \A f \in own[w] : outbox[f] = "none" /\ f \in Files
  BY DEF PreviewInv, NewPreviewsInv
<1>1. ASSUME NEW a \in Atts, WriteOriginal(a) PROVE PreviewInv'
  <2>1. /\ files' = files \cup {Original(a)} /\ UNCHANGED <<rows, outbox, wpc, own, job>>
    BY <1>1 DEF WriteOriginal
  <2>2. \A f \in rows : f[1] \in Atts
    BY Parts
  <2>3. \A f \in rows' : ~Early(f[1])'
    BY <2>1, <2>2, FileStepRows DEF PreviewInv
  <2>4. PreviewsKept'
    BY <2>1, <2>2, FileStepRows DEF PreviewInv, PreviewsKept, Live
  <2>5. NewPreviewsInv'
    BY <2>1 DEF PreviewInv, NewPreviewsInv
  <2>. QED BY <2>3, <2>4, <2>5 DEF PreviewInv
<1>2. ASSUME NEW a \in Atts, UnlinkRejected(a) PROVE PreviewInv'
  <2>1. /\ files' = files \ {Original(a)} /\ UNCHANGED <<rows, outbox, wpc, own, job>>
        /\ Original(a) \notin rows
    BY <1>2, OriginalDiffers DEF UnlinkRejected, SafeInv, RowsInv
  <2>2. \A w \in Workers : wpc[w] = "materialized" => Original(a) \notin own[w]
    BY OwnNotOriginal
  <2>3. /\ rows' \subseteq rows
        /\ \A f \in files : f \in rows' /\ Live(f[1]) => f \in files'
    BY <2>1, <2>2
  <2>4. \A x \in Workers : wpc'[x] = "materialized" =>
          /\ wpc[x] = "materialized" /\ own'[x] = own[x] /\ job'[x] = job[x]
          /\ \A f \in own[x] : (f \in files => f \in files') /\ outbox'[f] = "none"
    BY <1>0, <2>1, <2>2
  <2>. QED BY <2>3, <2>4, RemovalPreview
<1>3. ASSUME NEW a \in Atts, DeleteUnlinks(a) PROVE PreviewInv'
  <2>1. /\ files' = files \ StoragePaths(a) /\ UNCHANGED <<rows, outbox, wpc, own, job>>
        /\ life[a] = "deleted"
    BY <1>3 DEF DeleteUnlinks, SafeInv, DeleteInv
  <2>2. \A f \in StoragePaths(a) : ~Live(f[1])
    BY <2>1, PathsOwner DEF Live
  <2>3. /\ rows' \subseteq rows
        /\ \A f \in files : f \in rows' /\ Live(f[1]) => f \in files'
    BY <2>1, <2>2
  <2>4. \A x \in Workers : wpc'[x] = "materialized" =>
          /\ wpc[x] = "materialized" /\ own'[x] = own[x] /\ job'[x] = job[x]
          /\ \A f \in own[x] : (f \in files => f \in files') /\ outbox'[f] = "none"
    BY <1>0, <2>1, OwnNotPath
  <2>. QED BY <2>3, <2>4, RemovalPreview
<1>4. ASSUME NEW w \in Workers, CleanerUnlinks(w) PROVE PreviewInv'
  <2>1. /\ files' = files \ StoragePaths(target[w]) /\ UNCHANGED <<rows, outbox, own, job>>
        /\ \A x \in Workers : wpc'[x] = "materialized" => wpc[x] = "materialized"
        /\ target[w] \in Atts /\ life[target[w]] = "deleted"
    BY <1>4 DEF CleanerUnlinks, SafeInv, DeleteInv
  <2>2. \A f \in StoragePaths(target[w]) : ~Live(f[1])
    BY <2>1, PathsOwner DEF Live
  <2>3. /\ rows' \subseteq rows
        /\ \A f \in files : f \in rows' /\ Live(f[1]) => f \in files'
    BY <2>1, <2>2
  <2>4. \A x \in Workers : wpc'[x] = "materialized" =>
          /\ wpc[x] = "materialized" /\ own'[x] = own[x] /\ job'[x] = job[x]
          /\ \A f \in own[x] : (f \in files => f \in files') /\ outbox'[f] = "none"
    BY <1>0, <2>1, OwnNotPath
  <2>. QED BY <2>3, <2>4, RemovalPreview
<1>5. ASSUME NEW w \in Workers, NEW a \in Atts, NEW v \in Versions, PersistRaises(w, a, v)
      PROVE  PreviewInv'
  <2>1. /\ files' = files \ own[w] /\ UNCHANGED <<rows, outbox, job>> /\ wpc[w] = "materialized"
        /\ \A x \in Workers : wpc'[x] = "materialized" =>
             x # w /\ wpc[x] = "materialized" /\ own'[x] = own[x]
    BY <1>5 DEF PersistRaises
  <2>2. /\ \A f \in own[w] : f \notin rows
        /\ \A x \in Workers \ {w} : wpc[x] = "materialized" => \A f \in own[x] : f \notin own[w]
    BY <2>1 DEF PreviewInv, NewPreviewsInv
  <2>3. /\ rows' \subseteq rows
        /\ \A f \in files : f \in rows' /\ Live(f[1]) => f \in files'
    BY <2>1, <2>2
  <2>4. \A x \in Workers : wpc'[x] = "materialized" =>
          /\ wpc[x] = "materialized" /\ own'[x] = own[x] /\ job'[x] = job[x]
          /\ \A f \in own[x] : (f \in files => f \in files') /\ outbox'[f] = "none"
    BY <1>0, <2>1, <2>2
  <2>. QED BY <2>3, <2>4, RemovalPreview
<1>6. ASSUME NEW S \in SUBSET Atts, DeleteConversation(S) PROVE PreviewInv'
  <2>. DEFINE paths == UNION {StoragePaths(a) : a \in S}
  <2>1. /\ \A f \in Files : outbox'[f] = IF f \in paths /\ outbox[f] = "none"
                                         THEN "pending" ELSE outbox[f]
        /\ rows' \subseteq rows /\ UNCHANGED <<files, wpc, own, job>>
    BY <1>6 DEF DeleteConversation
  <2>2. \A x \in Workers : wpc[x] = "materialized" => \A f \in own[x] : f \notin paths
    BY OwnNotPath
  <2>3. /\ rows' \subseteq rows
        /\ \A f \in files : f \in rows' /\ Live(f[1]) => f \in files'
    BY <2>1
  <2>4. \A x \in Workers : wpc'[x] = "materialized" =>
          /\ wpc[x] = "materialized" /\ own'[x] = own[x] /\ job'[x] = job[x]
          /\ \A f \in own[x] : (f \in files => f \in files') /\ outbox'[f] = "none"
    BY <1>0, <2>1, <2>2
  <2>. QED BY <2>3, <2>4, RemovalPreview
<1>7. ASSUME NEW e \in Files, OutboxRowDue(e) PROVE PreviewInv'
  <2>1. /\ \A g \in Files : outbox[g] = "none" => outbox'[g] = "none"
        /\ UNCHANGED <<files, rows, wpc, own, job>>
    BY <1>7 DEF OutboxRowDue
  <2>2. /\ rows' \subseteq rows
        /\ \A f \in files : f \in rows' /\ Live(f[1]) => f \in files'
    BY <2>1
  <2>3. \A x \in Workers : wpc'[x] = "materialized" =>
          /\ wpc[x] = "materialized" /\ own'[x] = own[x] /\ job'[x] = job[x]
          /\ \A f \in own[x] : (f \in files => f \in files') /\ outbox'[f] = "none"
    BY <1>0, <2>1
  <2>. QED BY <2>2, <2>3, RemovalPreview
<1>8. ASSUME NEW w \in Workers, NEW e \in Files, OutboxClaims(w, e) PROVE PreviewInv'
  <2>1. /\ \A g \in Files : outbox[g] = "none" => outbox'[g] = "none"
        /\ UNCHANGED <<files, rows, job>>
        /\ \A x \in Workers : wpc'[x] = "materialized" =>
             wpc[x] = "materialized" /\ own'[x] = own[x]
    BY <1>8 DEF OutboxClaims, Claimable
  <2>2. /\ rows' \subseteq rows
        /\ \A f \in files : f \in rows' /\ Live(f[1]) => f \in files'
    BY <2>1
  <2>3. \A x \in Workers : wpc'[x] = "materialized" =>
          /\ wpc[x] = "materialized" /\ own'[x] = own[x] /\ job'[x] = job[x]
          /\ \A f \in own[x] : (f \in files => f \in files') /\ outbox'[f] = "none"
    BY <1>0, <2>1
  <2>. QED BY <2>2, <2>3, RemovalPreview
<1>9. ASSUME NEW w \in Workers, OutboxUnlinks(w) PROVE PreviewInv'
  <2>1. /\ files' = files \ own[w] /\ UNCHANGED <<rows, outbox, own, job>>
        /\ \A x \in Workers : wpc'[x] = "materialized" => wpc[x] = "materialized"
        /\ \A f \in own[w] : f \in Files /\ outbox[f] # "none"
    BY <1>9 DEF OutboxUnlinks, SafeInv, OwnInv
  <2>2. \A f \in own[w] : ~Live(f[1])
    BY <2>1 DEF SafeInv, RowsInv, Live, Exists, RowStatus
  <2>3. /\ rows' \subseteq rows
        /\ \A f \in files : f \in rows' /\ Live(f[1]) => f \in files'
    BY <2>1, <2>2
  <2>4. \A x \in Workers : wpc'[x] = "materialized" =>
          /\ wpc[x] = "materialized" /\ own'[x] = own[x] /\ job'[x] = job[x]
          /\ \A f \in own[x] : (f \in files => f \in files') /\ outbox'[f] = "none"
    BY <1>0, <2>1
  <2>. QED BY <2>3, <2>4, RemovalPreview
<1>10. ASSUME NEW w \in Workers, OutboxCompletes(w) \/ OutboxRetries(w) PROVE PreviewInv'
  <2>1. PICK new : SettleOutbox(w, new)
    BY <1>10 DEF OutboxCompletes, OutboxRetries
  <2>2. /\ \A g \in Files : outbox[g] = "none" => outbox'[g] = "none"
        /\ UNCHANGED <<files, rows, job>>
        /\ \A x \in Workers \ {w} : own'[x] = own[x]
    BY <2>1 DEF SettleOutbox
  <2>3. \A x \in Workers : wpc'[x] = "materialized" => x # w /\ wpc[x] = "materialized"
    BY <1>10 DEF OutboxCompletes, OutboxRetries
  <2>4. /\ rows' \subseteq rows
        /\ \A f \in files : f \in rows' /\ Live(f[1]) => f \in files'
    BY <2>2
  <2>5. \A x \in Workers : wpc'[x] = "materialized" =>
          /\ wpc[x] = "materialized" /\ own'[x] = own[x] /\ job'[x] = job[x]
          /\ \A f \in own[x] : (f \in files => f \in files') /\ outbox'[f] = "none"
    BY <1>0, <2>2, <2>3
  <2>. QED BY <2>4, <2>5, RemovalPreview
<1>11. ASSUME NEW w \in Workers, NEW a \in Atts, NEW v \in Versions,
              Materializes(w, a, v) \/ MaterializeFails(w, a, v)
       PROVE  PreviewInv'
  <2>. DEFINE f == Derivative(a, v, made + 1)
  <2>1. /\ UNCHANGED <<rows, outbox, job>> /\ job[w] = <<a, v>> /\ wpc[w] = "parsing"
        /\ \A x \in Workers : x # w => wpc'[x] = wpc[x] /\ own'[x] = own[x]
        /\ files \subseteq files'
        /\ wpc'[w] = "materialized" =>
             \/ own'[w] = {}
             \/ own'[w] = {f} /\ f \in files' /\ made < MaxDerivatives
    BY <1>11 DEF Materializes, MaterializeFails, SafeInv, OwnInv
  <2>2. own'[w] = {f} /\ made < MaxDerivatives =>
          /\ f \notin rows /\ outbox[f] = "none" /\ f[1] = job[w][1]
          /\ \A x \in Workers : wpc[x] = "materialized" => f \notin own[x]
    BY <2>1, NextIsFresh
  <2>. HIDE DEF f
  <2>3. \A g \in rows : g[1] \in Atts
    BY Parts
  <2>4. \A g \in rows' : ~Early(g[1])'
    BY <2>1, <2>3, FileStepRows DEF PreviewInv
  <2>5. PreviewsKept'
    BY <2>1, <2>3, FileStepRows DEF PreviewInv, PreviewsKept, Live
  <2>6. ASSUME NEW x \in Workers, wpc'[x] = "materialized", NEW g \in own'[x]
        PROVE  /\ g \in files' \ rows' /\ outbox'[g] = "none" /\ g[1] = job'[x][1]
               /\ \A y \in Workers \ {x} : wpc'[y] = "materialized" => g \notin own'[y]
    <3>1. CASE x = w
      BY <2>1, <2>2, <2>6, <3>1
    <3>2. CASE x # w
      <4>1. /\ wpc[x] = "materialized" /\ g \in own[x] /\ g \in files \ rows
            /\ outbox[g] = "none" /\ g[1] = job[x][1]
            /\ \A y \in Workers \ {x} : wpc[y] = "materialized" => g \notin own[y]
        BY <2>1, <2>6, <3>2 DEF PreviewInv, NewPreviewsInv
      <4>2. wpc'[w] = "materialized" => g \notin own'[w]
        BY <2>1, <2>2, <3>2, <4>1
      <4>3. \A y \in Workers \ {x} : wpc'[y] = "materialized" => g \notin own'[y]
        BY <2>1, <4>1, <4>2
      <4>. QED BY <2>1, <4>1, <4>3
    <3>. QED BY <3>1, <3>2
  <2>. QED BY <2>4, <2>5, <2>6 DEF PreviewInv, NewPreviewsInv
<1>12. ASSUME NEW w \in Workers, NEW a \in Atts, NEW v \in Versions, Persists(w, a, v)
       PROVE  PreviewInv'
  <2>1. /\ UNCHANGED <<files, outbox, job>> /\ wpc[w] = "materialized"
        /\ rows' \subseteq rows \cup own[w]
        /\ \A x \in Workers : wpc'[x] = "materialized" =>
             x # w /\ wpc[x] = "materialized" /\ own'[x] = own[x]
    BY <1>12 DEF Persists, CommitResult
  <2>2. /\ \A f \in own[w] : f \in files /\ ~Early(f[1])
        /\ \A x \in Workers \ {w} : wpc[x] = "materialized" => \A f \in own[x] : f \notin own[w]
    BY <2>1 DEF PreviewInv, NewPreviewsInv, SafeInv, ParseInv
  <2>3. \A f \in rows' : f[1] \in Atts
    BY <2>1, Parts
  <2>4. \A f \in rows' : ~Early(f[1])'
    BY <2>1, <2>2, <2>3, FileStepRows DEF PreviewInv
  <2>5. PreviewsKept'
    BY <2>1, <2>2, <2>3, FileStepRows DEF PreviewInv, PreviewsKept, Live
  <2>6. NewPreviewsInv'
    BY <2>1, <2>2 DEF PreviewInv, NewPreviewsInv
  <2>. QED BY <2>4, <2>5, <2>6 DEF PreviewInv
<1>13. ASSUME NEW w \in Workers, NEW a \in Atts, NEW v \in Versions, PersistUnanswered(w, a, v)
       PROVE  FALSE
  BY <1>13 DEF PersistUnanswered, Fault
<1>. QED BY <1>1, <1>2, <1>3, <1>4, <1>5, <1>6, <1>7, <1>8, <1>9, <1>10, <1>11, <1>12, <1>13
     DEF FileStep

(* There are no previews at the start.                                      *)
LEMMA InitPreview == Init => PreviewInv
  BY DEF Init, PreviewInv, NewPreviewsInv, PreviewsKept

(* When commits are answered, every preview a live row lists is on disk,    *)
(* whichever workers parse the same version side by side, clean up or die.  *)
THEOREM PreviewsAreKept ==
  ASSUME "commit_reply" \notin FaultKinds
  PROVE  Spec => []PreviewsKept
<1>1. TypeInv /\ SafeInv /\ OutboxInv /\ PreviewInv /\ [Next]_vars => PreviewInv'
  BY FileMoves, AlonePreview, FileStepPreview
<1>2. PreviewInv => PreviewsKept
  BY DEF PreviewInv
<1>. QED BY <1>1, <1>2, InitPreview, TypeInvariant, SafeInvariant, OutboxInvariant, PTL DEF Spec

=============================================================================
