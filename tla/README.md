# Nomi: a verification project

Nomi is an assistant that runs in its owner's private cloud. Its backend is a set
of Python services (FastAPI `runtime-api`, a Redis Stream `worker`, an
`attachment-worker`, an `opencode-artifact-worker`, a browser runtime and a model
router) over one Postgres, one Redis and a shared volume of files. Most of the
code is about prompts, text rules and calls to other services. What can go wrong
in ways a unit test hardly reaches is in a few places, where several processes or
threads change the same rows, files and queues and any of them may die: those are
modelled here.

Six parts are done: the **chat attachment pipeline**, the **messages the assistant
sends in its own name**, its **Gmail identity and the mail read for it**, the **worker
of the event stream**, the **long-tail tasks that make a file**, and the **queue of
OpenClaw jobs**. They are checked by TLC on small instances, and their safety properties are
proved by TLAPS for every value of the constants, some under named hypotheses.

    tlc -config AttachmentsAnswered.cfg MCAttachments     # a run
    tlapm AttachmentsProofs.tla                           # the proofs of a module

Paths below are relative to the repository; `A/` stands for
`runtime_api/app/attachments/`, `I/` for `runtime_api/app/assistant_identity/`, `W/`
for `worker/app/` and `R/` for `runtime_api/app/`.

## 1. The system

| component | state it keeps | operations | interacts with |
|---|---|---|---|
| Attachment pipeline (`A/`) | table `chat_attachments` and its result tables, `attachment_cleanup_outbox`; Redis lists, leases and keys; files under `NOMI_ATTACHMENT_ROOT` | upload, retry, delete, submit a turn, delete a conversation; worker loop: recover, clean, sweep, claim, parse, acknowledge | runtime-api writes rows and pushes jobs, the worker claims them; both unlink files |
| Parsers, rendering, retrieval (`A/`) | none of their own | one file or one query in, a result out | called by the worker and by chat |
| Assistant outbound messages (`I/outbound*.py`) | drafts, confirmation tokens, message rows, receipts | prepare, edit, cancel, issue a token, confirm and send, receipt, reconcile at startup | endpoints of `main.py`, `tool_gateway.py` and `chat_routing.py`; the provider adapters |
| Provider adapters (`I/*adapter.py`, `composio_gmail.py`) | none | one request to Gmail, WhatsApp, SMS or phone | external providers |
| Identity lifecycle, registry (`I/`) | one row per identity, with a version | connect, verify, pause, resume, disconnect, rename | endpoints; Composio |
| Gmail inbound sync (`I/gmail_sync.py`) | the time of the last sync in that row, `assistant_inbox_events` | subscribe, fetch since the last sync, insert, route | its loop in `main.py`; Gmail, chat |
| Tool gateway, contacts, audit, secrets (`I/`) | audit rows, vault entries | checks and records around other calls | all of identity |
| Stream worker (`W/`) | checkpoint in Redis, in-memory batches, events, memories, dead letters | read the stream, process by priority, batch, checkpoint | the stream runtime-api writes |
| Long-tail agent (`R/long_tail_agent.py`) | event log and materialized row per task, leases, effects | append, replay, claim a lease, run the graph, propose, confirm and execute an effect | the artifact worker, the recovery runner, chat |
| OpenCode artifact worker (`R/opencode_artifact_worker.py`, loops of `main.py`) | `task_artifacts`, `task_runs`, a subprocess | scan, claim, run three steps, store a file, sync, deliver | the log and lease of the task; the conversation |
| Task orchestrator, clarification | the log of the task; an in-memory task graph | ask, answer, plan again | chat |
| OpenClaw jobs (`main.py`) | `openclaw_execution_jobs` | enqueue, run due jobs, run once | OpenClaw; the runner in the event loop of runtime-api |
| Chat, pipelines, suggestions, agenda (`main.py`, `pipelines/`) | conversations, suggestions, agenda | requests | everything |
| Memory runtime, web search, voice, delegated automation, document capabilities, model access, iOS push, browser runtime, workflow distillation | their own tables or none | one request each | external services |
| Clients, deployment | - | - | `docker-compose.yml` fixes the number of processes and the restart policy |

What is hard, and what makes each part correct:

* **Attachments.** A worker's claim is a lease that may expire while it still
  works, so a job is delivered twice. `DELETE`, the draft cleaner, the outbox sweep
  and a failing worker all unlink files. Either process may die between a file
  operation and the row that names the file. Correct means: the file of a row in
  use is never unlinked, a `ready` row can be read, what was sent stays as it was
  sent, a job of an old version is harmless, nothing waits for ever, and what is
  deleted is gone.
* **Outbound messages.** A draft is read, its policy is judged, its token is
  validated and its claim is made in separate transactions; the provider's answer
  may never come; the process may restart at any time. Correct means: one draft
  leaves at most once, an edit or cancel that was answered is respected, and the
  recorded outcome is honest and final.
* **Stream worker.** Entries are processed out of order and partly only in memory,
  but one checkpoint stands for all of them. Correct means: the checkpoint never
  passes an entry that is neither stored nor refused on record, processing an entry
  again changes nothing, threads do not create one appointment twice, and nothing
  holds the stream up.
* **Artifact tasks.** A worker appends event after event from its own copy of a task
  while its rows wait in an open transaction; the lease may run out under it; the
  owner cancels and answers at any time; whoever comes next has only a replay of the
  log. Correct means: one runner at a time unless a lease ran out, nothing
  unfinished, unverified or lost is delivered, a finished task is delivered once and
  in the end, and nothing strands a task or makes two processes wait for each other.
* **Gmail identity and sync.** Each change is a read and a versioned save, and one
  request makes several of them with calls of Composio in between; syncs overlap,
  fail half-way and race the owner. Correct means: a verification or sync does not
  undo a pause or a disconnection, and no mail is skipped.
* **OpenClaw jobs.** Whole batches are one transaction with minutes of remote work
  inside, and a manual run reads before it locks. Correct means: one execution of a
  job at a time, attempts bounded, and every job settles whatever is rolled back.
* **Full inspection worker.** Claims with an expiry around long work. Correct means:
  the progress of one owner is not overwritten by another's.
* **Effects of the long-tail agent.** They are executed from one process's memory.
  Correct means: at most one execution per confirmation.

`PROJECT.json` lists the hazards of the modelled parts at their lines with the
properties that cover them, or the reason why none does; those of parts that are not
modelled are under "Known limits" and "What is not modelled".

## 2. The modules

| module | what it is |
|---|---|
| `AttachmentQueue` | the Redis queue (`A/queue.py`): one operator per command or per run of commands nobody can observe the inside of |
| `AttachmentLifecycle` | abstract specification: what may happen to one attachment (`ALLOWED_TRANSITIONS` of `A/models.py`, and the draft/attached/deleted lifecycle) |
| `Attachments` | the pipeline over that queue: handlers, worker processes, cleaners, faults; its properties and the inductive invariant |
| `MCAttachments` | instances of it for TLC |
| `AttachmentsProofs` | the type of `RemoveFirst` (a Redis `LREM` of one element), type correctness, the safety of originals and results, finality of what was sent |
| `AttachmentsFilesProofs` | the cleanup outbox and the previews |
| `AttachmentsOrderProofs` | jobs are not lost, stale jobs, the refinement of `AttachmentLifecycle` |
| `AssistantOutbound` | outbound drafts, tokens, threads, the provider, receipts, restart; properties and inductive invariants |
| `MCAssistantOutbound` | instances of it for TLC |
| `AssistantOutboundProofs` | type correctness, at most one send, finality of outcomes, answered edits, Gmail failures |
| `StreamWorker` | the loop, the thread pool, the batch, the checkpoint and the restarts of the stream worker; properties and the inductive invariant |
| `MCStreamWorker` | instances of it for TLC |
| `StreamWorkerProofs` | type correctness and the four safety theorems |
| `ArtifactPromise` | abstract specification: what a task that makes a file promises its conversation |
| `ArtifactTasks` | event log, lease, artifact worker, recovery runner, clarification and delivery of such a task; its properties and the refinement mapping to `ArtifactPromise` |
| `MCArtifactTasks` | instances of it for TLC |
| `ArtifactTasksProofs` | type correctness, leases and locks, deliveries and their verification, the safety part of the refinement, and that a running task is found again |
| `AssistantGmail` | the identity's row with its version, requests, owner, subscription, sync loop, mail and time |
| `MCAssistantGmail` | an instance of it for TLC |
| `AssistantGmailProofs` | type correctness, the owner's word, the coverage of mail |
| `OpenClawJobs` | rows, row locks, transactions, the runner and run-once; properties and the inductive invariant |
| `MCOpenClawJobs` | an instance of it for TLC |
| `OpenClawJobsProofs` | the inductive invariant and the three safety theorems |

A definition named like a mutation (`DeletableAnyLifecycle`, `OwnsAny`, `PassesSuccess`, ...) and
commented "Mutant" is no part of a specification: it is a plausible mistake in the
definition next to it, which makes one of the properties fail when it is put in its
place.

### Attachments

*Grain.* One action is one database transaction, one Redis command or one file
operation, with the branch the code takes on its result. Anything can come between
two of them.

*State and code.* `status`, `life`, `ver`, `path`, `gone`, `expired` are the columns
of `chat_attachments` the code branches on; `parsed` and `rows` stand for the chunk,
manifest and derivative rows; `files` for the disk; `outbox` for
`attachment_cleanup_outbox`. `pending`, `inflight`, `lease`, `known`, `done` are the
five kinds of Redis key. `hpc` and `dpc` say where the request handlers are, `wpc`,
`job`, `own`, `todo`, `cand`, `target` where each worker is and what it has in its
local variables.

| code | actions |
|---|---|
| `AttachmentService.upload` | `CreateReceiving`, `WriteOriginal`, `RejectUpload`, `StorageFails`, `UnlinkRejected`, `StoreOriginal`, `EnqueueStep` |
| `AttachmentService.retry` | `RetryReads`, `PrepareRetry`, `RetryRefused`, `EnqueueStep` |
| `RedisAttachmentQueue.enqueue` | `EnqueueAcquires`, `EnqueuePushes`, `EnqueueRaises`, `EnqueueFailed` |
| `AttachmentService.delete` | `DeleteReads`, `DeleteMarks`, `DeleteRefused`, `DeleteUnlinks`, `DeleteUnlinkFails`, `DeleteCompletes` |
| `AttachmentSubmissionService.submit_user_turn` | `SubmitLocks`, `SubmitBinds`, `SubmitRollsBack` |
| deletion of a conversation | `DeleteConversation` |
| `recover_expired` | `RecoverLists`, `RecoverLooks`, `RecoverDrops`, `RecoverPushes` |
| `DraftCleaner.cleanup` | `CleanupLists`, `CleanerMarks`, `CleanerUnlinks`, `CleanerUnlinkFails`, `CleanerCompletes`, `CleanerRaises`, `CleanupEnds` |
| `AttachmentOutboxCleaner.run_next` | `OutboxClaims`, `OutboxUnlinks`, `OutboxCompletes`, `OutboxRetries`, `SweepEnds` |
| `AttachmentWorker.run_next` | `ClaimNothing`, `ClaimMoves`, `ClaimLeases`, `StartProcessing`, `SkipJob`, `ParseRejects`, `ParseFails`, `Materializes`, `MaterializeFails`, `Persists`, `PersistRaises`, `PersistUnanswered`, `FailJob`, `RowVanished`, `AckChecks`, `AckClears` |
| processes and clocks | `ApiCrash`, `WorkerCrash`, `DraftExpires`, `OutboxRowDue`, `LeaseTimesOut` |

*Faults* are counted and of named kinds: `storage` and `unlink` (a file operation
fails), `push` and `push_reply` (RPUSH fails; it succeeds and its reply is lost),
`materialize` (a later derivative of a parse cannot be written), `commit_reply` (the
result is committed and the reply lost), `worker` and `api` (a process dies).

*Abstractions.* At most one handler of each kind works on an attachment at a time;
a second upload with the same client id finds the row and returns it, changing
nothing. A lease may be found expired at any time, which covers every clock. The
outbox is claimed in any order. The seven-day keys of the queue do not run out. The
row lock of a submission is modelled as far as others can observe it: plain updates
wait, the worker's `FOR UPDATE SKIP LOCKED` passes by. After the HGET of an
acknowledgement, its LREM, HDEL, DEL and SET are one action. What a document contains
is a choice: rejected, failing, parsed with or without a preview.

### Outbound messages

*Grain.* One action is one database transaction or one half of the exchange with the
provider. Reads that only decide together are one action where a later
compare-and-swap hides the difference; the second read that
`confirm_and_send` makes of a validated draft is an action of its own
(`ConfirmRereads`), because nothing hides that one.

*State and code.* `drafts` is `assistant_message_drafts` (status, revision, content,
lease of the attempt), `messages` is `assistant_outbound_messages`, `tokens` is
`assistant_outbound_confirmations`, `receipts` the receipts of a draft. `calls` is
the thread of each request with the values it has read. `wire` and `accepted` are
the provider's side: requests that wait, and requests it has carried out; a request
outlives the call that made it. `answered` is a history variable: the latest revision
whose editor has been answered.

| code | actions |
|---|---|
| `prepare_draft`, `save_draft` | `PrepareReads`, `PrepareSaves` |
| `edit_draft`, `cancel_draft` | `EditReads`, `CancelReads`, `ChangeSaves`, `ChangeInvalidates` |
| `issue_confirmation` | `IssueReads`, `IssueSaves` |
| `confirm_and_send`, `confirm_and_call` | `ConfirmValidates`, `ConfirmRereads`, `ConfirmClaims`, `ProviderUnavailable`, `ProviderCalled`, `ProviderAnswers`, `AnswerLost`, `StoreResult` |
| `record_delivery_receipt` | `Receipt` |
| `reconcile_stale_attempts` in the lifespan of `main.py` | `Restart` |
| an exception of the database in a handler | `CallFails` |
| the provider, the clock | `ProviderDecides`, `TokenExpires`, `LeaseExpires` |

*Abstractions.* runtime-api is one uvicorn process (`runtime_api/Dockerfile:49`) whose
synchronous handlers run on threads, so `Restart` ends every call. Subject and body
are one abstract content; recipient, channel and idempotency key of a draft are
constant, as the endpoints keep them. Every call is made as `local_owner`. The day of the
quotas and the window of near-duplicates do not end. Whether a token has expired is
decided at the second read, whose time becomes `claimed_at`.

### Stream worker

*Grain.* One action is one Redis command, one transaction, or the part of a
transaction up to the next thing another thread can observe: the insert of the
semantic row, the item put into the batch, the read of the agenda, the commit.

*State and code.* `length` and `row` are the stream `events:raw` and the rows its
entries refer to; `checkpoint` is the key `events:raw:worker:last_id`; `batch` and `due`
are `MemoryBatcher.items` and its age. `pc`, `last`, `high`, `chosen` are the main loop and its
local variables; `at` and `result` are the threads and the results of one read.
`writes`, `created`, `refused`, `letters`, `dropped`, `enriched` and `lost` record what has
happened to an entry: how often it was consolidated, whether it made an agenda item,
was given up, has a dead letter (or failed to get one), and where its memory
enrichment went.

| code | actions |
|---|---|
| the producers in `main.py` (`create_event`, `persist_assistant_turn`) | `Appends`, `RowSettles` |
| `resolve_start_id` | `Resolve` |
| `MemoryBatcher.flush_due` | `NothingDue`, `FlushesDue`, `FlushDueFails`, `Ages` |
| `main`, `XREAD` | `Reads`, `ReadsNothing` |
| `process_stream_entries_batch` | `ChooseNext`, `RecordCheckpoint` |
| `process_stream_entry_result`, `persist_semantics`, `persist_agenda` | `RowMissing`, `SkipsStored`, `Inserts`, `ReadsAgenda`, `Commits`, `CommitUnanswered`, `TransactionFails` |
| `MemoryBatcher.add` | `AddsItem`, `AddFails` |
| a crash and the restart by compose | `Crash` |

*Faults:* `get` and `set` (the checkpoint cannot be read or written), `db` (the database
goes away), `error` (anything else raises), `reply` (a commit succeeds and its answer is
lost), `flush` (the batch cannot be written), `letter` (a dead letter cannot be written),
`crash`. A row that is missing is no fault: producers may append before they commit,
and may roll back.

*Abstractions.* An entry is its position in the stream; its priority and the string
order of its id are the constant `SortKey`, its conversation `KeyOf`, the dedupe key of
the appointment it speaks of `AgendaOf`. A Python lock has no queue, so the
next of several waiting threads is a free choice. `flush_due` is one action at both of
its places in the loop. Agenda items are created, not updated; suggestions and
the timeline are in the same transaction and are counted by `writes`. Reminder scans
that raise, and an `XREAD` that raises, end the process and are covered by
`Crash`. `REDIS_START_ID` is `0-0`, as in `docker-compose.yml`, and one worker runs.
The backfill of job opportunities when an entry is read again is left out.

### Artifact tasks

*Grain.* One action is one transaction, or the part of one up to the next thing
another process can observe. Every `append_event` commits by itself, and its
materialized row with it; the rows of a file are written in a transaction that stays
open from `_store_artifact_from_manifest` until `run_task` returns.

*State and code.* `view` is what `recover_task` makes of the log, kept up to date
event by event because the log is only appended to; `keys` are the idempotency keys
that can meet again; `row` and `lease` are the columns of `long_tail_task_runs`, and `locked`
its row lock; `taskRun`, `stored` and `turns` are `task_runs`, `task_artifacts` and the
assistant turn. `pc`, `stage`, `mem`, `art` and `tx` are a runner: its place, its copy of
the task, the file in its hand and in its transaction. `request` is the chat message
that answers a question.

| code | actions |
|---|---|
| scanners, `claim_task`, `release_task` | `Scans`, `Claims`, `ClaimRefused`, `Releases` |
| `recover_task` | `Recovers` (and the operators on views: `Selected`, `Packet`, `Result`, ...) |
| `process_due_opencode_artifact_tasks_once` | `Starts`, `Commits`, `ReadsAgain`, `SyncLocks`, `Syncs`, `DeliveryLooks`, `Delivers`, `Fails` |
| `OpenCodeArtifactWorker.run_task` | `SelectsStep`, `BuildsPacket`, `CannotGoOn`, `GatherPacket`, `LoadsArtifact`, `StoresArtifact`, `PausesForInput`, `VerifiesArtifact`, `StepFails`, `ReturnsResult`, `RecordsVerified`, `SavesCheckpoint`, `EvaluatesFinal`, `CompletesTask`, `BlocksTask` |
| cancel and human-input endpoints | `Cancel`, `HumanInput` |
| `resume_open_task_clarification_task` | `AnswerFinds`, `AnswerRecords`, `AnswerAsksAgain`, `AnswerPlans`, `AnswerValidates`, `AnswerCheckpoints` |
| processes and clocks | `Crash`, `CrashApi`, `LeaseRunsOut`, `Overruns` |

*The promise.* `ArtifactPromise` has four variables: the phase of the task, the files
that are kept, the messages and the files they name. `ArtifactTasks` computes them from
its own state (`Promise`): a task is finished when the last word of its log is
`task.completed` and nobody cancelled it; it is withdrawn when something was recorded
after that. The promise is that one message is sent, never before the end, about files
that are kept, and that it is sent if the task stays finished.

*Abstractions.* One task with the three steps of `build_opencode_artifact_plan`: tasks
share no row and no key. A file is the number of its generation, and OpenCode's answer
a choice between a file that passes, one that fails, and a question. A lease runs out
under a runner that works only by `Overruns`, which is counted: 900 seconds are meant to
exceed the two commands of 600 at most for one of them.

### Gmail identity and inbound mail

*Grain.* One action is one transaction or one call of Composio. A change of the identity
is a read and a save (`PostgresAssistantIdentityRepository.save`), which raises when the
version has changed; `fresh` has the calls whose read is still current, which stands for
the version. The changes of the owner are one action, because one that meets a conflict
changes nothing.

*State and code.* `identity` is the row: status, whether a link is outstanding, whether an
account is pinned, and the inbound mode with the time of the last sync. `pc`, `time`,
`batch` are the requests and syncs under way; `arrived`, `stored`, `skipped` the mail;
`now` the clock in units.

| code | actions |
|---|---|
| pause, resume, disconnect, rename | `Disables`, `Enables`, `Disconnects`, `Renames` |
| `create_connect_link` | `LinkReads`, `LinkRefused`, `AsksForAuthorization`, `StoresLink` |
| `finish_connect`, `verify_existing_connection` | `CallbackReads`, `VerifyReads`, `BeginsVerification`, `LooksUp`, `VerificationFails`, `Pins`, `Connects` |
| `configure_inbound` | `Configures`, `Subscribes`, `FallsBack`, `SavesTrigger` |
| `sync_once` and its loop | `LoopReads`, `Fetches`, `Persists`, `SyncRaises`, `Stamps`, `SavesStamp` |
| `ingest_trigger` | `Ingests` |
| mail, clock, process | `Arrives`, `Tick`, `Restart` |

*Abstractions.* The text of a mail and where it is routed are left out. `Tick` assumes
that what was fetched is inserted within the overlap of 60 seconds: the code relies
on it (Known limits). A subscription may be dead at any time.

### OpenClaw jobs

*Grain.* One action is one statement that locks or decides, one execution, or the end of a
transaction. `row` is what is committed, `work` what the transaction that holds the row
(`holder`) has made of it; a commit copies the second to the first, a roll-back the
first to the second.

| code | actions |
|---|---|
| `enqueue_openclaw_execution_job` | `Enqueues` |
| `fetch_due_openclaw_execution_job_ids` (`FOR UPDATE SKIP LOCKED`) | `FindsNothing`, `Selects` |
| `run_openclaw_execution_job_once` in the runner | `RunsNext`, `Finishes` |
| the same behind run-once | `RequestReads`, `RequestUpdates`, `Finishes` |
| the end of `with db()` | `Commits`, `Fails`, `LosesConnection` and `Notices` |
| `next_attempt_at`, the process | `BecomesDue`, `Restart` |

*Abstractions.* The outcome of an execution is a choice, with a retry only where
`classify_openclaw_job_result` allows one; `blocked` stands for `needs_user_input` too. The
event rows are a log that decides nothing. `ran` and `overwritten` are history variables: how
often a job was executed, and how many recorded attempts a late run-once did not know of.

## 3. The runs

| run | instance | what it shows |
|---|---|---|
| `attachments_answered` | 1 attachment, 1 worker, 2 versions, 1 derivative, all faults but lost replies, 2 of them | the pipeline implements `AttachmentLifecycle`; a ready attachment has its result, what is attached stays so, a stale job changes no status |
| `attachments_two_workers` | 1 attachment, 2 workers, no faults, 2 derivatives, leases that expire at will | duplicate delivery, two recoverers and two cleaners lose no original, preview or job |
| `attachments_turn` | 2 attachments in one turn, 1 worker, no faults | `TurnIsWhole`: nobody else changes what a turn holds, all its attachments are bound or none, and nothing else binds one |
| `attachments_fair` | 1 attachment, 1 worker, all faults, 1 of them | `DraftsSettle`, `DeletionCompletes`, `OutboxDrains`, and what a deleted conversation leaves is in the outbox (`OutboxCoversFiles`) |
| `outbound` | 2 drafts under one idempotency key on two channels, 2 tokens, 2 threads, limits of 1 | at most one send, cancelled is not sent, a Gmail failure is real, answered edits are respected, outcomes are final |
| `outbound_edit_race` | 2 drafts, 2 contents | **violation**: what is sent is not what was confirmed |
| `stream_worker` | 3 entries, one of them telemetry, two of one conversation about one meeting; 2 threads, a batch of 2, all faults, 2 of them | the checkpoint passes only what is settled, nothing is consolidated twice, one meeting is one item, enrichment is stored or known to be lost; with fairness, the worker catches up and enrichment does not wait for ever |
| `stream_row_race` | the same, no faults | **violation**: an event whose row is committed is never consolidated |
| `artifact_faults` | a task without a question, 1 artifact worker, the recovery runner; any three of a failing statement or lost answer, a crash, a lease that runs out under work, a cancellation, a question of OpenCode, an answer, a human input | `LeaseHeld`, `DeliveredIsComplete`, `DeliveredIsVerified`, `NoStandoff`, `Resumable` |
| `artifact_answers` | a task that begins with a question, the same processes; one crash, one cancellation, one answer, one question of OpenCode | with fairness, the task implements `ArtifactPromise` and what has ended leaves the queue of the schedulers (`FinishedLeavesQueue`) |
| `assistant_gmail` | 1 request, the sync loop, 1 mail, 3 units of time, 1 failure | nothing undoes what the owner said (`OwnersWordStands`); no mail is skipped (`MailCovered`) and, with fairness, every mail is read (`MailIsRead`) |
| `openclaw_jobs` | 2 jobs of 2 attempts, 1 runner with a batch of 2, 2 calls of run-once, 1 lost transaction | one execution at a time, bounded attempts; with fairness, every job settles |

*Why the bounds are enough: attachments.* The properties speak of one attachment,
except those about a turn, and attachments meet only in the lists, in a
submission and in the loop of a worker; one is enough for all but the turn, which
has two. Two versions give a stale job and a current one, which is all a comparison
of versions can tell apart. Two workers give a duplicate delivery, a lost lease and a
race of recoverers; a third would be another duplicate. One derivative is a preview
that can be lost, two are needed for two workers that each write one. Two faults (in
`attachments_answered`) are the smallest number with a fault during the recovery from
another; the run with fairness has one, of any kind.
`MaxQueue = 2` bounds the copies of one job that two racing recoverers can make; a
recoverer waits at that bound, where the code would push a third copy, and so the
run with two workers does not check for deadlock: at the bound all of them may
wait. Symmetry is used for workers, threads and tokens only in runs without liveness.

*Outbound and stream.* In the outbound run two threads are one that is late and one
that overtakes it; two tokens are one to use and one to invalidate; two drafts meet in
the idempotency key, the near-duplicate check and the quota; `MaxRevision = 4` lets a
draft be written, edited, claimed and concluded, and edited in between. In the stream
run, two entries of one conversation meet in the lock, the batch and the agenda, and one
of another conversation overtakes them; the sort keys run against the stream, so
that the second round of a read holds its first entry; the batch of two fills
in a transaction and is left half full; a second fault can hit the recovery
from the first. What is appended later finds the worker at any point of its loop.

*Artifact tasks.* One artifact worker, because `docker-compose.yml` starts one, and the
recovery runner of runtime-api, the only other claimer of its leases. The hazards
are of one fault at a time and of the recovery from it; `artifact_faults` allows
one of each of the seven kinds, and any three of them in one behaviour (`AtMostThree`): two
that meet, such as a pause and its answer or a failure and the human input after it, and
a third between them. All four of the kinds that concern `Resumable` after an answer
(pause, answer, overrun, human input) were also checked together once. More than three files
would repeat the comparison of one file with another. The runs may end: a task that has been delivered or blocked leaves nothing to do.

*Gmail.* One request under way and the loop are two that save one row; a second
request would lose against the version as the first one does. The day of the
query is longer than the run can make a mail wait, and one mail does not fill a
batch: that these two exceptions excuse nothing else is proved for all
values (`MailIsCovered`).

*OpenClaw.* One runner: the container of the artifact worker switches its own off
(`ENABLE_OPENCLAW_JOB_RUNNER` in `docker-compose.yml`, line 245). Two jobs fill a batch,
and the second fails after the first was executed. Two calls of run-once are one that
is late and one that overtakes it.

### Fairness

Assumed by `attachments_fair`, `stream_worker`, `artifact_answers`, `assistant_gmail` and
`openclaw_jobs`.

*Attachments.* A started request goes on unless the api
dies; an open transaction ends; leases, drafts and delayed outbox rows run out
because time passes; a worker never stops its loop, because a parse is cut off at
its time-out and the container has a restart policy
(`docker-compose.yml`, service `attachment-worker`). Clients are not assumed to do
anything. Whoever waits for a row has strong fairness: Postgres queues those who wait
for a row lock, so that one submission after another cannot starve them. The cleaner
has strong fairness of its own because the clean-up interval ends again and again.
Lists, deletes and crashes are otherwise unfair.

*Stream worker.* The loop and each of its threads go on, because the container
restarts unless it is stopped (`docker-compose.yml`, service `worker`), and the batch
grows old. Producers are not assumed to append or to commit anything. The number
of faults is bounded, which is the assumption that failures end: an entry that
fails for ever with a retryable error keeps the checkpoint where it is.

*Outbound.* This part claims no liveness, because the code guarantees none: a draft that
is left at `sending` by a handler that failed, or by a restart within its lease, is
reconciled by the next restart after the lease, and by nothing else.

*Artifact tasks.* A step that began goes on, both loops go round and come back after a
crash, a lease that nobody gives back runs out. A scan or a claim has strong fairness:
the other loop may hold the lease at one pass after another, but it gives it back each
time, and the intervals of the two loops are not the same. Requests are not fair: nobody
is assumed to cancel or to answer.

*Gmail.* The loop goes on as long as the process lives, and compose restarts it. Nothing
is assumed of requests, the owner or the subscription.

*OpenClaw.* The runner's loop catches what its pass raises, a call of OpenClaw has a
time-out, and time passes, so that a job that waits becomes due. Failures end.

### What the violations show

1. `outbound_edit_race`: the token is validated against one read of the draft, the next
   read is what is sent. Once the editor has its answer this cannot happen
   any more (`AnsweredEditIsRespected`, checked and proved).
2. `stream_row_race`: `persist_assistant_turn` puts an event on the stream while the
   transaction that inserts its row is open (`runtime_api/app/main.py:12425`). A worker
   that is quicker than the commit meets no row, writes a dead letter and moves on.

### Known limits

What the code does not keep, met while modelling. The properties are stated so that
they hold beside it, and each says so where it is defined.

*Attachments*

* `mark_failed` has no condition beyond the id (`A/worker.py:445`): with two workers, the
  second delivery of a job whose first one committed `ready` can overwrite it, although
  `A/models.py:83` allows only `processing` after `ready`.
* `persist_parse_result` does not look at the lifecycle, and derivatives are written before
  it: a parse that runs during the deletion leaves files nobody lists again.
* The path reaches the row after the file was written, so an upload that dies in between
  leaves a file the cleaner cannot find.
* A job runs although its push was reported as failed (`push_reply`), and then
  `mark_failed` of the handler and of a stale job meet: `StaleJobHarmless` fails.
* When the reply to the commit is lost (`commit_reply`), the worker unlinks the previews of
  a result it did not know to be committed and marks it failed: `PreviewsKept` and
  `ImplementsLifecycle` fail.
* A worker that dies inside `recover_expired`, or an api that dies between SET and RPUSH,
  loses the job (`JobNotLost` fails); the draft still settles, by its expiry.
* Previews of attachments whose conversation was deleted can stay on disk when a worker
  dies or a later derivative fails; an acknowledged job can be brought back by a second
  recoverer, and a job can be acknowledged unprocessed because a submission held its row.
  "Acknowledged" therefore does not mean "settled"; `DraftsSettle` says what does hold.
* The full inspection worker reads its progress at the claim and writes it back whole
  (`A/worker.py:107`), so an owner whose claim ran out overwrites the next one's.
* A parse that is cut off goes on in its thread and keeps the semaphore of its kind
  (`A/worker.py:332`): enough of them stop that kind until the container restarts.

*Outbound messages*

* The adapters for WhatsApp, SMS and phone report every exception as `failed`, a read
  time-out included (`I/adapters.py:74`): the message may have left, and its owner is told
  that it did not. `GmailFailureIsReal` speaks of Gmail only.
* Quotas and near-duplicates are judged when a draft is written (`I/outbound.py:735`), not
  when it is sent, so drafts prepared while the quota was free are all sent; the design
  `2026-07-21-nomi-assistant-identity-configuration-design.md:371` and `:383` asks for the
  check at every attempt.
* Stale attempts are reconciled at startup only (`main.py:371`).

*Stream*

* Two conversations can speak of one dedupe key of the agenda, but the locks are
  per conversation and the index on the key is not unique, so two threads may each
  create the item; `OneItemPerConversation` says what does hold.
* An item is put into the batch before the transaction of its event commits
  (`W/worker.py:3937`; the plan
  `2026-06-12-latency-optimization-implementation-plan.md:998` has the other order), so
  enrichment of an event that is rolled back can be stored; and what waits in
  the batch is behind the checkpoint, so a crash loses it for good.
* `create_event` commits its row and then appends (`main.py:12520`): when that fails, a retry
  of the client is a duplicate and the event never reaches the stream.

*Artifact tasks*

* A worker that dies between two appends of one step leaves a node that no scanner takes
  up (`verify_step`, `final_evaluation`), although
  `2026-06-03-long-tail-agent-runtime-design-v2.md:747` asks that a restart resumes; so does
  a second failure, of the append that blocks the task. `Resumable` excludes both.
* The sync of the worker or of the recovery runner writes into the row what was read before, in
  an update without a condition (`main.py:4059`). When the worker blocks a task that waits
  for its owner, and his answer comes meanwhile, the new plan and its validation set log
  and row running between that read and that write, and the write makes the row `blocked`.
  Neither scanner selects it (`main.py:3995`, `long_tail_agent.py:1046`), although
  `2026-07-09-open-task-clarification-gate-design.md:123` has the answer resume the task. A
  pause that was committed but whose answer was lost leads there, and a step that fails under the
  old plan after the answer was recorded; so do a cancellation and a second answer.
  `Resumable` speaks of one answer without these, or of failures and cancellations while
  nobody answers.
* A call of the human-input endpoint for a task that waits at its clarification gate makes
  the log executable, but the row keeps `waiting_user`. `Resumable` excludes it.
* An answer makes a paused task executable before its plan is in the log. When the worker
  completes the task meanwhile, the rest of the answer opens it again; it is run again,
  but `task.completed` has the key `{task_id}:completed` (`long_tail_agent.py:1454`), which
  the log has already, so it stays at `final_evaluation` for ever. `Resumable` excludes
  tasks that were completed before.
* Every plan of a second clarification answer has the key `plan.proposed:2`, so its text is
  swallowed as a repetition, although
  `2026-07-09-open-task-clarification-gate-design.md:551` wants it to reach the executor.
  The worker may also begin with the old plan, as soon as `human_input.received` is in the
  log and before the new plan is. A request that dies while it answers leaves the task
  waiting.
* A task that is cancelled while the worker is at its end can be finished and delivered
  all the same; one that is finished after its row says `cancelled` is not delivered.
* A lease is not renewed. When it runs out under the worker, the recovery pass, which runs
  on the event loop, can lock the row the worker's next append wants and then wait for
  the row of `task_runs` the worker holds; nothing ends this but a restart. With several
  workers, two could deliver the same task (nothing makes `tool_call_id` unique).
* A delivery that is recovered names every file of the task: one that was blocked with an
  unverified file, reopened by human input, and then recovered after a crash sends that
  file too. `DeliveredIsVerified` therefore excludes human input.

*Gmail*

* A verification whose last save is refused (by a rename, or by a sync) leaves the
  identity at `verifying`, from which only disable and disconnect lead on.
* After disable or disconnect, the subscription's thread and a sync under way still take in
  mail, and the save of the inbound state puts `receive` back (design, section 5.2).
* Mail is lost when more than a full batch comes in one window, when a sync takes longer
  than the overlap of 60 seconds between fetch and insert, and when a subscription dies
  that the identity believes in.
* A link stored while a verification runs loses its state to the verification's save; a
  failed verification of a connected identity makes it `failed`; the account that is
  verified may be another than the one the link was for, when two verifications
  overlap (design, lines 160 and 555).

*OpenClaw jobs and effects*

* run-once reads its job before it has the lock: a late one executes a finished job again
  and sets `attempt_count` back (`overwritten` in `AttemptsBounded`).
* A batch is one transaction with the remote calls inside: a failure or crash forgets
  executions that took place, and their attempts, and runs them again. Events are
  published before the commit (`main.py:3717`). A call that timed out may still run when it is
  tried again.
* `ExternalEffectController.confirm` and `execute` look at no stored status
  (`long_tail_agent.py:1717`, `:1741`): an executed effect can be confirmed again, and
  another process can execute it too.

## 4. The proofs

TLAPS proves, for any values of the constants: any sets of attachments, workers,
drafts, tokens, threads, contents, mails, jobs and requests, any streams, priorities and
conversations, any limits, bounds and kinds of faults. The named assumptions
(`QueueAssumption`, `AttachmentAssumption`, `OutboundAssumption`, `StreamAssumption`,
`ArtifactAssumption`, `GmailAssumption`, `OpenClawAssumption`) say only that bounds are
numbers, positive where the code makes them so, that the kinds of processes are
different from each other and that the "none" values are not members of the sets. Some
theorems have a hypothesis of their own, in their statement and in the table:

* *Commits answered* (`CommitsAnswered`), *pushes answered* (`PushesAnswered`): the faults
  `commit_reply`, `push_reply` do not occur. The code makes no promise when they do ("Known
  limits").
* *One worker* (`OneWorker`, `OneWorkerOnly`): what `docker-compose.yml` runs, one
  process each of the attachment worker and of the artifact worker, whose loops are sequential.
* *No worker or api dies*: for `JobNotLost`, the faults `worker`, `api` do not occur.
* *No lease ran out under its owner*: stated within the formula (`used["overrun"] = 0`), so
  that such theorems hold for any number of workers up to that moment.

They are needed: on small instances without them TLC finds each of these properties violated
(`Resumable` with two workers, a lease that runs out, a pause and an answer).

| theorem | statement |
|---|---|
| `AttachmentsProofs!TypeCorrect` | `Spec => []TypeOK` |
| `AttachmentsProofs!SafeInvariant` | `Spec => []SafeInv` |
| `AttachmentsProofs!OriginalsAreKept` | `Spec => []OriginalKept` |
| `AttachmentsProofs!ReadyIsReadable` | `Spec => []ReadyHasResult` |
| `AttachmentsProofs!AttachedStaysFinal` | `Spec => AttachedIsFinal` |
| `AttachmentsProofs!TurnsAreWhole` | `Spec => TurnIsWhole` |
| `AttachmentsFilesProofs!OutboxInvariant` | `Spec => []OutboxInv` |
| `AttachmentsFilesProofs!OutboxCovers` | `Spec => []OutboxCoversFiles` |
| `AttachmentsFilesProofs!PreviewsAreKept` | commits answered: `Spec => []PreviewsKept` |
| `AttachmentsOrderProofs!JobsAreNotLost` | no worker or api dies: `Spec => []JobNotLost` |
| `AttachmentsOrderProofs!OrderInvariant` | one worker, pushes answered: `Spec => []OrderInv` |
| `AttachmentsOrderProofs!StaleJobsAreHarmless` | the same: `Spec => StaleJobHarmless` |
| `AttachmentsOrderProofs!RowsFollowLifecycle` | one worker, pushes and commits answered: `Spec => ImplementsLifecycle` |
| `AssistantOutboundProofs!TypeCorrect` | `Spec => []TypeOK` |
| `AssistantOutboundProofs!SendInvariant` | `Spec => []SendInv` |
| `AssistantOutboundProofs!AtMostOnce` | `Spec => []AtMostOneSend` |
| `AssistantOutboundProofs!CancelledNotSent` | `Spec => []CancelledIsNotSent` |
| `AssistantOutboundProofs!OutcomeStays` | `Spec => OutcomeIsFinal` |
| `AssistantOutboundProofs!AnsweredRespected` | `Spec => AnsweredEditIsRespected` |
| `AssistantOutboundProofs!GmailInvariant` | `Spec => []GmailInv` |
| `AssistantOutboundProofs!GmailFailuresAreReal` | `Spec => []GmailFailureIsReal` |
| `StreamWorkerProofs!TypeCorrect` | `Spec => []TypeOK` |
| `StreamWorkerProofs!StreamInvariant` | `Spec => []StreamInv` |
| `StreamWorkerProofs!CheckpointIsSafe` | `Spec => []CheckpointCovers` |
| `StreamWorkerProofs!NothingTwice` | `Spec => []StoredOnce` |
| `StreamWorkerProofs!OneItem` | `Spec => []OneItemPerConversation` |
| `StreamWorkerProofs!EnrichmentIsKept` | `Spec => []EnrichmentKept` |
| `ArtifactTasksProofs!TypeCorrect` | `Spec => []TypeOK` |
| `ArtifactTasksProofs!WorkersHoldTheLease` | `Spec => []LeaseHeld` |
| `ArtifactTasksProofs!LeasePreventsStandoff` | `Spec => []NoStandoff` |
| `ArtifactTasksProofs!DeliveryIsComplete` | `Spec => []DeliveredIsComplete` |
| `ArtifactTasksProofs!PromiseIsSafe` | one worker: `Spec => Promise!Init /\ [][Promise!Next]` (over the promise's variables) |
| `ArtifactTasksProofs!DeliveryIsVerified` | one worker: `Spec => []DeliveredIsVerified` |
| `ArtifactTasksProofs!LeasesKeepVerification` | `Spec => [](used["overrun"] = 0 => DeliveredIsVerified)` |
| `ArtifactTasksProofs!TaskIsResumable` | one worker: `Spec => []Resumable` |
| `ArtifactTasksProofs!LeasesKeepResumable` | `Spec => [](used["overrun"] = 0 => Resumable)` |
| `AssistantGmailProofs!TypeCorrect` | `Spec => []TypeOK` |
| `AssistantGmailProofs!OwnersWord` | `Spec => OwnersWordStands` |
| `AssistantGmailProofs!MailIsCovered` | `Spec => []MailCovered` |
| `OpenClawJobsProofs!JobsInvariant` | `Spec => []JobsInv` |
| `OpenClawJobsProofs!TypeCorrect` | `Spec => []TypeOK` |
| `OpenClawJobsProofs!OneCallAtATime` | `Spec => []OneAtATime` |
| `OpenClawJobsProofs!AttemptsAreBounded` | `Spec => []AttemptsBounded` |

*Attachments.* `OriginalKept` is not inductive: from a state where a worker is
about to unlink the original of a live row it fails at once. `SafeInv` says why there
is no such state. Whoever unlinks the files of a row has marked it
`deleted` before (`DeleteInv`); a failing worker unlinks only derivatives it made
itself, and a sweep only files whose row is gone (`OwnInv`, `RowsInv`); until the
upload has stored its file, no row names it and nobody else works on it
(`UploadInv`, `ParseInv`). `ReadyHasResult` follows from the same facts because a commit
compares the version under the row lock, and only a retry changes it, away from `ready`.
`AttachedIsFinal` is an action property: it needs `SafeInv` in the old state (an
attached row has its path, its upload is over), and then each action is looked
at once. `TurnIsWhole` needs of the old state only that whatever a submission holds is a
row that is there (`LocksHeld`); then it is a case for each action that changes a row.

*Files.* A path has a part that is never used again, so what a row or the outbox names was
written before and is not written anew (`FreshInv`); a worker that is about to complete a
cleanup row has unlinked its file (`SweptInv`). With `SafeInv` these give
`OutboxCoversFiles`, because a conversation is deleted in one transaction with the
cleanup rows of its originals. `PreviewsKept` needs that the previews a worker has just
made are in nobody else's hands and named by no row (`NewPreviewsInv`): it may unlink
them as long as it has not committed, and it knows whether it has when commits are answered.

*Jobs.* `JobNotLost` is inductive by itself. The Redis commands are lists in the model and
the property is about sets, so the proof rests on what appending, popping and removing
do to the set of elements (`AppendSet`, `HeadTailSet`, `RemoveFirstSet`).

*The lifecycle.* The refinement mapping is the identity on status and lifecycle, so every step
of a row has to be a transition. The worker's are the hard ones, as it acts on
what it read long ago. `OrderInv`: jobs are of stored uploads and of versions that exist
(`VersionsInv`); while a handler enqueues, there is no job of that version anywhere, so
nobody works on the row and it waits (`HandlersInv`); what a worker works on is at the
version of its job and not `failed`, so no retry can raise its version meanwhile (`WorkInv`).
`StaleJobHarmless` follows. When commits are answered too, what a worker works on is
`processing`, and what is bound is ready (`StatusInv`); a worker that does not know of its
own commit would take a `ready` row back to `failed`.

*At most one send.* `AtMostOneSend` is not inductive: a thread may be about to
call the provider for a draft that has been sent. `SendInv` rules it out. A claim
moves the draft from `draft` to `sending`, so an attempt is the only one on its draft and
the draft is `sending` as long as it lasts (`AttemptInv`); a draft with a request
is `sending` or has an outcome, never open again, and an attempt that has not reached
the provider is the first of its draft (`RequestInv`). That last part is needed because
an adapter that refuses to act sets the draft to `blocked`, which may be edited,
confirmed and attempted again. Receipts reach only drafts with an outcome
(`ReceiptInv`), and a draft id is prepared by one thread (`PrepareInv`).

*Gmail failures.* `GmailInv` adds to `SendInv` what a thread knows of its request. The request
of a draft whose answer it awaits is its own, as no draft has two; so when it is about to
store `failed` for Gmail, which it does only when the provider refused, none has left.
The reconciliation at startup writes `delivery_unknown`, and only a receipt, which the property
allows for, makes a draft with a request `failed`.

*Answered edits.* `AnsweredInv` relates three times: the revision an edit has been
answered for, the revision of the draft, and the revision of a token that a thread
has validated. A validated token that is still `valid` is not older than the last
answered edit, because the edit invalidates before it answers; a claim needs it
to be valid.

*The checkpoint.* `StreamInv` has four parts. `ProgressInv`: a result that lets the
checkpoint pass is reported only for an entry that is settled, and what lies before the
loop's own position is settled, because that position is never anything but an
old checkpoint or the start. `WriteInv`: a transaction that runs has found its
entry unstored, and no second one of that entry runs, so its commit is the first.
`AgendaInv`: transactions that run are of different conversations, so what one has
read of its own conversation's items is still true when it commits.
`EnrichmentInv`: from the moment an item was added it is in the batch, stored or lost,
and a batch is emptied only by an action that puts it into one of the other two.

*Artifact tasks.* `LeaseHeld` is inductive with the types and the two facts that a worker
with an open transaction is at work and that no lease has lapsed before the first
overrun (`LeaseInv`). A standoff needs one process with the row and another with the rows of
the file; both are at work, so both would have the lease, which gives `NoStandoff`.
`DeliveryInv` follows a file and the end of the log through every copy of the task: the
verification is called done only where a file passed it (`StepPassed`, `DonePassed`), a task
is called completed only after `task.completed` (`EndKnown`), and the file in hand has a
committed row or one in the open transaction of the same worker (`FilesKept`); `Told` is
then what `DeliveredIsComplete` says. For the refinement, `PromiseInv` adds that a worker is
about to insert a turn only while there is none (`OneTeller`); it needs the one worker,
because two can look before either inserts.

*Verification.* `DeliveredIsVerified` fails from a state in which an unverified file is
committed and the task goes on. `Unverified` says that the task has then stopped: its log is
neither completed nor executable, no worker is inside `run_task`, and none is
about to deliver. It is kept because a file is committed unverified only where the
step is blocked in the same transaction, and only the owner can reopen a blocked
task. `RunShape` gives the place: which step a result is of, and from where to where a
file is uncommitted. It takes that no other worker is in the task meanwhile, hence one worker
or leases that hold (`Alone`); two workers of which one overran do deliver
an unverified file.

*Resumable.* The hard part is the state between two appends of one step, where the log says
`verify_step` or `final_evaluation`, which no scanner takes up. `NotStranded` says that a
worker is then in `run_task`, and where. Before the first failure it goes in the order
of the plan, with a task whose steps before its own are done (`Early`), so every
exit of `run_task` is a pause, the end, or `_block_task`; after the verification of the last
step nothing but the final evaluation is left (`VerifyLast`). After the first failure
the worker is on its way to `_block_task`, whose own append cannot fail any more
as `Resumable` grants one failure. Requests of the owner only lead to nodes that a
scanner takes up (`Rest`, `Calm`). That is the log; the scanners look at the row, which is
written by the appends and, from a copy, by the syncs. `RowInv` says that the row of such a
task is one they find. While the question of the
gate is open nobody takes the task up, and row and log wait for its answer together
(`GateWaits`). From then on, while the log says running so does the row, because the copies
from which the syncs write it say so too (`Together`). An answer sets the log running again, so a
copy that says blocked or cancelled must not exist by then: until the plan of the
only answer is in the log nothing stops the task, and a worker that takes it up
finds a step to do (`Opened`). A failure, a cancellation or a second answer breaks that,
which is why `Resumable` excludes
them once there is an answer.

*The owner's word.* `ReadInv` gives for each stage of a request the statuses its read may
have found, as long as nobody has saved since: a request at a stage that ends in
`connected` has read `verifying`. A save that is not refused had a current read, so it
cannot have come after a pause.

*Mail.* `MailInv` says of each sync what it may rely on at its stage (`CallInv`): when it
fetches and when it saves its time, all is stored that is older than that time less the
overlap; between fetch and insert, all that came before the fetch is stored, skipped or in
its hands, and the overlap is not over. Two syncs that overlap may save their times
in any order, because each has this on its own.

*Attempts.* `JobsInv`. A row differs from what is committed only while a call that has its
connection has it locked, and whoever executes a job has it locked (`LockInv`), so two
executions of one job would be two owners of one lock. The rest of a batch is locked and as
it was selected (`BatchInv`), and whoever is about to make an attempt has one left, going
by what it has read (`LeftInv`). An execution is recorded in the row, not yet committed,
lost with its transaction or overwritten (`CountInv`); the bound follows, because an
attempt is recorded only where one was left.

Only model-checked: all liveness (`DraftsSettle`, `DeletionCompletes`, `OutboxDrains`,
`CatchesUp`, `EnrichmentArrives`, `FinishedLeavesQueue`, `MailIsRead`, `JobsSettle`, and the
fairness part of `ImplementsPromise`), which is out of this prover's reach. Every other
property of a passing run is stated by a theorem above. `TypeOK` of `Attachments` and of
`AssistantOutbound` are proved and not checked by a run; so are the inductive
invariants, which were checked by TLC on small instances before they were proved.

## 5. Plan

1. Attachments: an abstract queue (jobs that are owed, in hand, settled) that
   `AttachmentQueue` implements, with the refinement proved.
2. Outbound messages: an abstract specification of one message (written, confirmed, sent or
   not, outcome) with the refinement checked and proved.
3. Stream: the producers as a module of their own (append before and after the commit,
   deduplication of collectors) composed with the worker; an abstract log of events, each
   appended, settled and consolidated once; agenda items that are updated, and the
   reminder scan that reads them.
4. Artifact tasks: a run with two workers, of whom one overruns; plan revisions.
5. The controller of external effects over the log (one execution per confirmation; two
   processes, one task, two effects).
6. Full inspection worker (`A/worker.py:57-247`), composed with the attachment rows: claims
   and progress payloads of two workers.
7. Task orchestrator and delegated automation policy, as data models against a
   reference definition.

## 6. What is not modelled

Parsing, rendering, retrieval, prompts, text of requests, memory extraction, web
search, voice, documents, model access, push, the browser and the clients: computation on
one input, or protocols an external service decides. The reads of attachment content
and previews change nothing. Quotas of a turn (number and size of files) and the
cleaning of `.part` files are left out of the attachment model; both touch nothing
the properties speak of. `AttachmentFullInspectionWorker` is in the plan.

Of the long-tail agent: the endpoints `run-next`, `resume`, `complete-step`, `finalize` and
`run-opencode-artifact-worker`, which drive one step by hand and which only tests
call; plan revisions, policy checks and `ExternalEffectController`; tasks other than
those that make a file. Of the identities: WhatsApp, SMS and phone, which cannot be
connected; health records, credentials and the audit log. Of the stream worker: the scan
for due reminders, and the text it makes of an entry. `PROJECT.json` gives the reason for
each component.
