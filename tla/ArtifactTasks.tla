----------------------------- MODULE ArtifactTasks -----------------------------
(***************************************************************************)
(* A long-tail task that makes a file (long_tail_agent.py,                 *)
(* opencode_artifact_worker.py and the loops and endpoints of main.py      *)
(* around them): an append-only event log per task, a materialized row     *)
(* the schedulers look at, a lease on that row, the artifact worker, the   *)
(* recovery runner, and the requests of the owner.                         *)
(*                                                                         *)
(* Grain.  One action is one transaction, or the part of one up to the     *)
(* next thing another process can observe: every append_event commits by   *)
(* itself, while the rows of the artifact are written in a transaction     *)
(* that stays open until run_task returns.  Two appends in a row are one   *)
(* action when the first leaves no trace in what a replay of the log       *)
(* gives (memory.patch_applied, delivery.created, route.decided).          *)
(*                                                                         *)
(* The log.  recover_task replays it from its first event and it is only   *)
(* appended to, so what a replay gives is kept up to date event by event:  *)
(* that is view.  Of the idempotency keys only those that can meet again   *)
(* are kept; the others hold the length of the log.                        *)
(*                                                                         *)
(* One task: tasks share no row and no key.  The plan is the one of        *)
(* build_opencode_artifact_plan, three steps.  A file is the number of     *)
(* its generation.  Bounds: Limit, how often each kind of fault and        *)
(* request happens.                                                        *)
(***************************************************************************)
EXTENDS Integers, Sequences, FiniteSets

CONSTANTS
  Workers,      \* processes that run opencode_artifact_worker_loop
  Recoverer,    \* the recovery runner inside runtime-api
  NoOne,
  Gated,        \* the task begins with a question of the clarification gate
  Limit         \* how often each of Kinds may happen

Kinds == {"fault", "crash", "overrun", "cancel", "input", "answer", "pause"}

ASSUME ArtifactAssumption ==
  /\ Recoverer \notin Workers
  /\ NoOne \notin Workers \cup {Recoverer}
  /\ Gated \in BOOLEAN
  /\ Limit \in [Kinds -> Nat]

Runners == Workers \cup {Recoverer}

Gather == "gather_artifact_context"
Generate == "opencode_execute_artifact"
Verify == "verify_artifact_delivery"
Gate == "clarification_gate"
Steps == {Gather, Generate, Verify}

VARIABLES
  view,       \* what replaying the event log gives
  keys,       \* the idempotency keys in the log that can meet again
  row,        \* status and current_node of long_tail_task_runs
  lease,      \* lease_owner, and whether lease_expires_at is ahead
  lapsed,     \* runners whose lease ran out while they worked under it
  locked,     \* who holds the lock of that row inside an open transaction
  taskRun,    \* status and payload.artifact of task_runs
  stored,     \* artifacts with a committed row in task_artifacts
  turns,      \* assistant turns that delivered the task
  delivered,  \* the artifacts they named
  pc,         \* where each runner is
  stage,      \* which part of run_task it is in
  mem,        \* its copy of the task, state_by_task
  art,        \* the artifact it has in hand, 0 for none
  tx,         \* the artifact in its open transaction, 0 for none
  request,    \* the chat message that answers a question
  answers,    \* answers recorded in the log by chat messages
  made,       \* files generated
  passed,     \* files that passed verification
  used        \* faults and requests so far

logVars == <<view, keys, row>>
leaseVars == <<lease, lapsed>>
artifactVars == <<taskRun, stored>>
turnVars == <<turns, delivered>>
localVars == <<stage, mem, art, tx>>
requestVars == <<request, answers>>
fileVars == <<made, passed>>
vars == <<logVars, leaseVars, locked, artifactVars, turnVars, pc, localVars,
          requestVars, fileVars, used>>

Statuses == {"running", "waiting_user", "blocked", "completed", "cancelled"}
Nodes == {"select_step", "step_selected", "awaiting_executor", "verify_step",
          "final_evaluation", "waiting_for_human_input", "blocked",
          "delivered", "cancelled"}
RunPoints == {"ensure", "packet", "result", "verified", "checkpoint", "load",
              "final", "complete"}
Points == RunPoints \cup {"idle", "due", "claimed", "checked", "block",
          "commit", "reread", "sync", "syncing", "deliver", "insert", "release"}
Requests == {"none", "record", "plan", "validate", "checkpoint"}
Keys == {<<kind, s>> : kind \in {"selected", "packet", "checkpoint"}, s \in Steps}
          \cup {<<kind, Gate>> : kind \in {"plan", "validated", "checkpoint", "completed"}}
Views == [status: Statuses, node: Nodes, step: Steps \cup {Gate},
          done: SUBSET Steps, plan: Nat]

-----------------------------------------------------------------------------
(* What an event does to the state a replay gives: one branch each of      *)
(* recover_task.                                                           *)

Selected(v, s) == [v EXCEPT !.node = "step_selected", !.step = s]
Packet(v, s) == [v EXCEPT !.node = "awaiting_executor", !.step = s]
Result(v, s) == [v EXCEPT !.node = "verify_step", !.step = s]

Verified(v, s) == [v EXCEPT !.node = "select_step", !.done = @ \cup {s}]
Checkpoint(v, n, d) == [v EXCEPT !.node = n, !.done = d]

\* Mutants of Stopped: the task is to be tried again; the status is misnamed.
StoppedRetries(v) == [v EXCEPT !.node = "select_step"]
StoppedFails(v) == [v EXCEPT !.status = "failed", !.node = "blocked"]

Stopped(v) == [v EXCEPT !.status = "blocked", !.node = "blocked"]
Asked(v, s) == [v EXCEPT !.node = "waiting_for_human_input", !.step = s]
Answered(v) == [v EXCEPT !.node = "select_step"]
Planned(v, n) == [v EXCEPT !.plan = n]
Validated(v) == [v EXCEPT !.status = "running", !.node = "select_step"]
Evaluated(v) == [v EXCEPT !.node = "final_evaluation"]
Completed(v) == [v EXCEPT !.status = "completed", !.node = "delivered"]
Cancelled(v) == [v EXCEPT !.status = "cancelled", !.node = "cancelled"]

Init ==
  /\ view = [status |-> "running",
             node |-> IF Gated THEN "waiting_for_human_input" ELSE "awaiting_executor",
             step |-> IF Gated THEN Gate ELSE Gather,
             done |-> {}, plan |-> 0]
  /\ keys = IF Gated THEN {} ELSE {<<"selected", Gather>>, <<"packet", Gather>>}
  /\ row = [status |-> IF Gated THEN "waiting_user" ELSE "running", node |-> view.node]
  /\ lease = [owner |-> NoOne, live |-> FALSE] /\ lapsed = {}
  /\ locked = NoOne
  /\ taskRun = [status |-> row.status, artifact |-> 0] /\ stored = {}
  /\ turns = 0 /\ delivered = {}
  /\ pc = [p \in Runners |-> "idle"]
  /\ stage = [w \in Workers |-> Gather]
  /\ mem = [p \in Runners |-> view]
  /\ art = [w \in Workers |-> 0] /\ tx = [w \in Workers |-> 0]
  /\ request = [at |-> "none", done |-> {}] /\ answers = 0
  /\ made = 0 /\ passed = {}
  /\ used = [k \in Kinds |-> 0]

Spend(k) == used[k] < Limit[k] /\ used' = [used EXCEPT ![k] = @ + 1]

\* append_event with a key that holds the length of the log: the event and
\* the row it materializes are one transaction.
AppendsAlways(v, r) == view' = v /\ row' = r /\ UNCHANGED keys

\* append_event with a key of the step or the plan: a second event of that
\* key is not written.
AppendsOnce(key, v, r) ==
  IF key \in keys THEN UNCHANGED logVars
  ELSE view' = v /\ row' = r /\ keys' = keys \cup {key}

\* An event that materializes current_node waits for the lock of the row.
RowFree == locked = NoOne
AtNode(n) == [row EXCEPT !.node = n]

\* The append was answered, or it was committed and its answer was lost: then
\* the worker sees an exception.
Goes(w, p) ==
  \/ pc' = [pc EXCEPT ![w] = p] /\ UNCHANGED used
  \/ pc' = [pc EXCEPT ![w] = "block"] /\ Spend("fault")

-----------------------------------------------------------------------------
(* Scanners and leases.                                                    *)

Executable == {"select_step", "awaiting_executor"}
LeaseFree == lease.owner = NoOne \/ ~lease.live

\* Mutant of ArtifactDue: only what is to be executed, no delivery that is owed.
ArtifactDueRunning == LeaseFree /\ row.status = "running" /\ row.node \in Executable

\* PostgresOpenCodeArtifactTaskScanner.due_task_ids
ArtifactDue ==
  /\ LeaseFree
  /\ \/ row.status = "running" /\ row.node \in Executable
     \/ /\ row.status = "completed" /\ row.node = "delivered"
        /\ stored # {}
        /\ turns = 0 \/ taskRun.status # row.status

\* PostgresLongTailRecoveryScanner.due_task_ids
RecoveryDue == LeaseFree /\ row.status = "running"

Scans(p) ==
  /\ pc[p] = "idle"
  /\ IF p = Recoverer THEN RecoveryDue ELSE ArtifactDue
  /\ pc' = [pc EXCEPT ![p] = "due"]
  /\ UNCHANGED <<logVars, leaseVars, locked, artifactVars, turnVars, localVars,
                 requestVars, fileVars, used>>

\* Mutant of Claimable: the UPDATE does not look at the lease that is there.
ClaimableAlways == TRUE

\* claim_task; worker_id is new for every pass, so no pass meets its own lease.
Claimable == LeaseFree

Claims(p) ==
  /\ pc[p] = "due" /\ RowFree /\ Claimable
  /\ lease' = [owner |-> p, live |-> TRUE]
  /\ pc' = [pc EXCEPT ![p] = "claimed"]
  /\ UNCHANGED <<logVars, lapsed, locked, artifactVars, turnVars, localVars,
                 requestVars, fileVars, used>>

ClaimRefused(p) ==
  /\ pc[p] = "due" /\ RowFree /\ ~Claimable
  /\ pc' = [pc EXCEPT ![p] = "idle"]
  /\ UNCHANGED <<logVars, leaseVars, locked, artifactVars, turnVars, localVars,
                 requestVars, fileVars, used>>

\* Mutant of Owns: the lease is released whoever has it.
OwnsAny(p) == TRUE

Owns(p) == lease.owner = p

\* release_task
Releases(p) ==
  /\ pc[p] = "release" /\ RowFree
  /\ IF Owns(p) THEN lease' = [owner |-> NoOne, live |-> FALSE] ELSE UNCHANGED lease
  /\ lapsed' = lapsed \ {p}
  /\ pc' = [pc EXCEPT ![p] = "idle"]
  /\ UNCHANGED <<logVars, locked, artifactVars, turnVars, localVars,
                 requestVars, fileVars, used>>

Working(p) == pc[p] \notin {"idle", "due"}

\* Time passes lease_expires_at: of an owner that is gone, or of one that takes
\* longer than its lease.
LeaseRunsOut ==
  /\ lease.live /\ ~Working(lease.owner)
  /\ lease' = [lease EXCEPT !.live = FALSE]
  /\ UNCHANGED <<logVars, lapsed, locked, artifactVars, turnVars, pc, localVars,
                 requestVars, fileVars, used>>

Overruns ==
  /\ lease.live /\ Working(lease.owner) /\ Spend("overrun")
  /\ lease' = [lease EXCEPT !.live = FALSE]
  /\ lapsed' = lapsed \cup {lease.owner}
  /\ UNCHANGED <<logVars, locked, artifactVars, turnVars, pc, localVars,
                 requestVars, fileVars>>

-----------------------------------------------------------------------------
(* process_due_opencode_artifact_tasks_once and                            *)
(* process_due_long_tail_recovery_once, around run_task.                   *)

\* recover_task; the artifact loop goes on by the node only.
Recovers(p) ==
  /\ pc[p] = "claimed"
  /\ mem' = [mem EXCEPT ![p] = view]
  /\ pc' = [pc EXCEPT ![p] = IF p \in Workers /\ view.node \in Executable
                             THEN "checked" ELSE "sync"]
  /\ art' = IF p \in Workers THEN [art EXCEPT ![p] = 0] ELSE art
  /\ UNCHANGED <<logVars, leaseVars, locked, artifactVars, turnVars, stage, tx,
                 requestVars, fileVars, used>>

\* run_opencode_artifact_worker_once replays the log once more.
Starts(w) ==
  /\ pc[w] = "checked"
  /\ mem' = [mem EXCEPT ![w] = view]
  /\ stage' = [stage EXCEPT ![w] = Gather]
  /\ pc' = [pc EXCEPT ![w] = "ensure"]
  /\ UNCHANGED <<logVars, leaseVars, locked, artifactVars, turnVars, art, tx,
                 requestVars, fileVars, used>>

\* with db() as conn: commit.  persist_opencode_artifact sets task_runs to
\* running and puts the artifact into its payload.
Commits(w) ==
  /\ pc[w] = "commit"
  /\ IF tx[w] = 0 THEN UNCHANGED artifactVars
     ELSE /\ stored' = stored \cup {tx[w]}
          /\ taskRun' = [status |-> "running", artifact |-> tx[w]]
  /\ tx' = [tx EXCEPT ![w] = 0]
  /\ \/ pc' = [pc EXCEPT ![w] = "reread"] /\ UNCHANGED used
     \/ pc' = [pc EXCEPT ![w] = "release"] /\ Spend("fault")
  /\ UNCHANGED <<logVars, leaseVars, locked, turnVars, stage, mem, art,
                 requestVars, fileVars>>

ReadsAgain(w) ==
  /\ pc[w] = "reread"
  /\ mem' = [mem EXCEPT ![w] = view]
  /\ pc' = [pc EXCEPT ![w] = "sync"]
  /\ UNCHANGED <<logVars, leaseVars, locked, artifactVars, turnVars, stage, art, tx,
                 requestVars, fileVars, used>>

\* sync_long_tail_task_run_materialized_state: the first of its two statements
\* locks the row, the second waits for whoever has task_runs locked.
SyncLocks(p) ==
  /\ pc[p] = "sync" /\ RowFree
  /\ locked' = p
  /\ pc' = [pc EXCEPT ![p] = "syncing"]
  /\ UNCHANGED <<logVars, leaseVars, artifactVars, turnVars, localVars,
                 requestVars, fileVars, used>>

\* The INSERT of persist_opencode_artifact holds the lock of task_runs until
\* its transaction ends.
TaskRunFree(p) == \A w \in Workers \ {p} : tx[w] = 0

HasTurn(p) == mem[p].status = "completed" /\ mem[p].node = "delivered"

\* Mutants of Materialized: the UPDATE leaves status as it is; a task that asks is
\* given the status the gate gives it.
MaterializedNode(m) == [status |-> row.status, node |-> m.node]
MaterializedWaits(m) ==
  [status |-> IF m.node = "waiting_for_human_input" THEN "waiting_user" ELSE m.status,
   node |-> m.node]

Materialized(m) == [status |-> m.status, node |-> m.node]

Syncs(p) ==
  /\ pc[p] = "syncing" /\ TaskRunFree(p)
  /\ row' = Materialized(mem[p])
  /\ taskRun' = [taskRun EXCEPT !.status = mem[p].status]
  /\ locked' = NoOne
  /\ pc' = [pc EXCEPT ![p] = IF p \in Workers /\ HasTurn(p)
                             THEN "deliver" ELSE "release"]
  /\ UNCHANGED <<view, keys, leaseVars, stored, turnVars, localVars,
                 requestVars, fileVars, used>>

\* Mutant of Named: the file is taken from the result in the log, not from the
\* rows of the task.
NamedByLog(w) == IF art[w] # 0 THEN {art[w]} ELSE 1..made

Named(w) == IF art[w] # 0 THEN {art[w]} ELSE stored

\* persist_assistant_turn looks for a turn with this tool_call_id.
Undelivered == turns = 0

DeliveryLooks(w) ==
  /\ pc[w] = "deliver"
  /\ pc' = [pc EXCEPT ![w] = IF Named(w) # {} /\ Undelivered
                             THEN "insert" ELSE "release"]
  /\ UNCHANGED <<logVars, leaseVars, locked, artifactVars, turnVars, localVars,
                 requestVars, fileVars, used>>

Delivers(w) ==
  /\ pc[w] = "insert"
  /\ turns' = turns + 1
  /\ delivered' = delivered \cup Named(w)
  /\ pc' = [pc EXCEPT ![w] = "release"]
  /\ UNCHANGED <<logVars, leaseVars, locked, artifactVars, localVars,
                 requestVars, fileVars, used>>

-----------------------------------------------------------------------------
(* OpenCodeArtifactWorker.run_task.                                        *)

Pending(m) == Steps \ m.done

\* LongTailGraphRunner._next_step
NextStep(m) ==
  IF Gather \in Pending(m) THEN Gather
  ELSE IF Generate \in Pending(m) THEN Generate ELSE Verify

\* verification_ready of run_task
VerificationReady(m) ==
  \/ m.step = Verify
  \/ Generate \in m.done /\ Verify \notin m.done

\* _ensure_step_packet, run_next: the step is selected, then its packet built.
SelectsStep(w) ==
  /\ pc[w] = "ensure" /\ mem[w].node = "select_step" /\ Pending(mem[w]) # {}
  /\ LET s == NextStep(mem[w]) IN AppendsOnce(<<"selected", s>>, Selected(view, s), row)
  /\ Goes(w, "packet")
  /\ UNCHANGED <<leaseVars, locked, artifactVars, turnVars, localVars,
                 requestVars, fileVars>>

BuildsPacket(w) ==
  LET s == NextStep(mem[w]) IN
  /\ pc[w] = "packet" /\ RowFree
  /\ AppendsOnce(<<"packet", s>>, Packet(view, s), AtNode("awaiting_executor"))
  /\ mem' = [mem EXCEPT ![w] = Packet(@, s)]
  /\ Goes(w, "ensure")
  /\ UNCHANGED <<leaseVars, locked, artifactVars, turnVars, stage, art, tx,
                 requestVars, fileVars>>

HasPacket(w) == pc[w] = "ensure" /\ mem[w].node = "awaiting_executor"

\* Nothing is left to select, the task awaits no executor, or it awaits one for
\* another step than the one this part of run_task is for.
Unexpected(w) ==
  \/ mem[w].node = "select_step" /\ Pending(mem[w]) = {}
  \/ mem[w].node \notin Executable
  \/ HasPacket(w) /\ stage[w] # Gather /\ mem[w].step # stage[w]

CannotGoOn(w) ==
  /\ pc[w] = "ensure" /\ Unexpected(w)
  /\ pc' = [pc EXCEPT ![w] = "block"]
  /\ UNCHANGED <<logVars, leaseVars, locked, artifactVars, turnVars, localVars,
                 requestVars, fileVars, used>>

\* What comes after the gather step: a file that is there is only verified.
AfterGather(w, m) ==
  IF VerificationReady(m)
  THEN pc' = [pc EXCEPT ![w] = "load"] /\ UNCHANGED stage
  ELSE /\ pc' = [pc EXCEPT ![w] = "ensure"]
       /\ stage' = [stage EXCEPT ![w] = Generate]

GatherPacket(w) ==
  /\ HasPacket(w) /\ stage[w] = Gather
  /\ IF mem[w].step = Gather
     THEN pc' = [pc EXCEPT ![w] = "result"] /\ UNCHANGED stage
     ELSE AfterGather(w, mem[w])
  /\ UNCHANGED <<logVars, leaseVars, locked, artifactVars, turnVars, mem, art, tx,
                 requestVars, fileVars, used>>

\* load_persisted_opencode_artifact
LoadsArtifact(w) ==
  /\ pc[w] = "load"
  /\ IF taskRun.artifact = 0
     THEN pc' = [pc EXCEPT ![w] = "block"] /\ UNCHANGED <<stage, art>>
     ELSE /\ pc' = [pc EXCEPT ![w] = "ensure"]
          /\ stage' = [stage EXCEPT ![w] = Verify]
          /\ art' = [art EXCEPT ![w] = taskRun.artifact]
  /\ UNCHANGED <<logVars, leaseVars, locked, artifactVars, turnVars, mem, tx,
                 requestVars, fileVars, used>>

GeneratePacket(w) ==
  HasPacket(w) /\ stage[w] = Generate /\ mem[w].step = Generate

\* OpenCode returns a file, which _store_artifact_from_manifest copies and
\* inserts; the INSERT waits for another open transaction on task_runs.
StoresArtifact(w) ==
  /\ GeneratePacket(w) /\ TaskRunFree(w)
  /\ made' = made + 1
  /\ art' = [art EXCEPT ![w] = made']
  /\ tx' = [tx EXCEPT ![w] = made']
  /\ pc' = [pc EXCEPT ![w] = "result"]
  /\ UNCHANGED <<logVars, leaseVars, locked, artifactVars, turnVars, stage, mem,
                 requestVars, passed, used>>

\* _pause_for_user_input; when the answer to its append is lost run_task blocks
\* the task that waits for its owner.
PausesForInput(w) ==
  /\ GeneratePacket(w) /\ RowFree /\ used["pause"] < Limit["pause"]
  /\ AppendsAlways(Asked(view, Generate), AtNode("waiting_for_human_input"))
  /\ \/ /\ mem' = [mem EXCEPT ![w] = Asked(@, Generate)]
        /\ pc' = [pc EXCEPT ![w] = "commit"]
        /\ used' = [used EXCEPT !["pause"] = @ + 1]
     \/ /\ used["fault"] < Limit["fault"] /\ UNCHANGED mem
        /\ pc' = [pc EXCEPT ![w] = "block"]
        /\ used' = [used EXCEPT !["pause"] = @ + 1, !["fault"] = @ + 1]
  /\ UNCHANGED <<leaseVars, locked, artifactVars, turnVars, stage, art, tx,
                 requestVars, fileVars>>

VerifyPacket(w) == HasPacket(w) /\ stage[w] = Verify /\ mem[w].step = Verify

\* _complete_verification_step: the checks of the file, up to its mark.
VerifiesArtifact(w) ==
  /\ VerifyPacket(w)
  /\ passed' = passed \cup {art[w]}
  /\ pc' = [pc EXCEPT ![w] = "result"]
  /\ UNCHANGED <<logVars, leaseVars, locked, artifactVars, turnVars, localVars,
                 requestVars, made, used>>

\* OpenCode fails, writes no manifest, its file does not pass, or a statement
\* fails and with it the transaction.
StepFails(w) ==
  /\ GeneratePacket(w) \/ VerifyPacket(w)
  /\ Spend("fault")
  /\ pc' = [pc EXCEPT ![w] = "block"]
  /\ \E t \in {tx[w], 0} : tx' = [tx EXCEPT ![w] = t]
  /\ UNCHANGED <<logVars, leaseVars, locked, artifactVars, turnVars, stage, mem, art,
                 requestVars, fileVars>>

-----------------------------------------------------------------------------
(* complete_current_step and evaluate_final.                               *)

ReturnsResult(w) ==
  /\ pc[w] = "result"
  /\ AppendsAlways(Result(view, mem[w].step), row)
  /\ Goes(w, "verified")
  /\ UNCHANGED <<leaseVars, locked, artifactVars, turnVars, localVars,
                 requestVars, fileVars>>

\* What the worker returns always passes StepVerifier.
RecordsVerified(w) ==
  /\ pc[w] = "verified"
  /\ AppendsAlways(Verified(view, mem[w].step), row)
  /\ Goes(w, "checkpoint")
  /\ UNCHANGED <<leaseVars, locked, artifactVars, turnVars, localVars,
                 requestVars, fileVars>>

SavesCheckpoint(w) ==
  LET s == mem[w].step
      done == mem[w].done \cup {s}
      node == IF done = Steps THEN "final_evaluation" ELSE "select_step"
      m == Checkpoint(mem[w], node, done)
  IN
  /\ pc[w] = "checkpoint"
  /\ AppendsOnce(<<"checkpoint", s>>, Checkpoint(view, node, done), row)
  /\ mem' = [mem EXCEPT ![w] = m]
  /\ \/ /\ CASE s = Gather -> AfterGather(w, m)
             [] s = Generate -> /\ stage' = [stage EXCEPT ![w] = Verify]
                                /\ pc' = [pc EXCEPT ![w] = "ensure"]
             [] s = Verify -> pc' = [pc EXCEPT ![w] = "final"] /\ UNCHANGED stage
        /\ UNCHANGED used
     \/ pc' = [pc EXCEPT ![w] = "block"] /\ Spend("fault") /\ UNCHANGED stage
  /\ UNCHANGED <<leaseVars, locked, artifactVars, turnVars, art, tx,
                 requestVars, fileVars>>

\* A task with a step left is evaluated as partial and not completed.
EvaluatesFinal(w) ==
  /\ pc[w] = "final"
  /\ AppendsAlways(Evaluated(view), row)
  /\ Goes(w, IF Pending(mem[w]) = {} THEN "complete" ELSE "commit")
  /\ UNCHANGED <<leaseVars, locked, artifactVars, turnVars, localVars,
                 requestVars, fileVars>>

CompletesTask(w) ==
  /\ pc[w] = "complete"
  /\ AppendsOnce(<<"completed", Gate>>, Completed(view), row)
  /\ Goes(w, "commit")
  /\ UNCHANGED <<leaseVars, locked, artifactVars, turnVars, localVars,
                 requestVars, fileVars>>

\* _block_task; when its own append fails the transaction is rolled back.
BlocksTask(w) ==
  /\ pc[w] = "block"
  /\ AppendsAlways(Stopped(view), row)
  /\ art' = [art EXCEPT ![w] = 0]
  /\ \/ pc' = [pc EXCEPT ![w] = "commit"] /\ UNCHANGED <<tx, used>>
     \/ /\ pc' = [pc EXCEPT ![w] = "release"] /\ tx' = [tx EXCEPT ![w] = 0]
        /\ Spend("fault")
  /\ UNCHANGED <<leaseVars, locked, artifactVars, turnVars, stage, mem,
                 requestVars, fileVars>>


-----------------------------------------------------------------------------
(* Requests of the owner.  The memory of runtime-api is taken for what a   *)
(* replay gives: its requests and its recovery runner keep it so.          *)

runnerVars == <<leaseVars, locked, artifactVars, turnVars, pc, localVars, fileVars>>

\* agent_task_cancel: no row is materialized from the event.
Cancel ==
  /\ Spend("cancel")
  /\ AppendsAlways(Cancelled(view), row)
  /\ UNCHANGED <<runnerVars, requestVars>>

\* agent_task_human_input, whatever the task waits for.
HumanInput ==
  /\ RowFree /\ Spend("input")
  /\ AppendsAlways(Answered(view), AtNode("select_step"))
  /\ UNCHANGED <<runnerVars, requestVars>>

\* find_pending_open_task_for_conversation
AnswerFinds ==
  /\ request.at = "none" /\ view.node = "waiting_for_human_input"
  /\ Spend("answer")
  /\ request' = [at |-> "record", done |-> view.done]
  /\ UNCHANGED <<logVars, runnerVars, answers>>

\* resume_open_task_clarification_task, one action for each of its appends.
AnswerRecords ==
  /\ request.at = "record" /\ RowFree
  /\ AppendsAlways(Answered(view), AtNode("select_step"))
  /\ answers' = answers + 1
  /\ request' = [request EXCEPT !.at = "plan"]
  /\ UNCHANGED <<runnerVars, used>>

\* The answer leaves something open.
AnswerAsksAgain ==
  /\ request.at = "plan" /\ RowFree /\ Spend("pause")
  /\ AppendsAlways(Asked(view, Gate), AtNode("waiting_for_human_input"))
  /\ request' = [at |-> "none", done |-> {}]
  /\ UNCHANGED <<runnerVars, answers>>

\* Web research and planning come before this append.
AnswerPlans ==
  /\ request.at = "plan"
  /\ AppendsOnce(<<"plan", Gate>>, Planned(view, answers), row)
  /\ request' = [request EXCEPT !.at = "validate"]
  /\ UNCHANGED <<runnerVars, answers, used>>

AnswerValidates ==
  /\ request.at = "validate" /\ RowFree
  /\ AppendsOnce(<<"validated", Gate>>, Validated(view),
                 [status |-> "running", node |-> "select_step"])
  /\ request' = [request EXCEPT !.at = "checkpoint"]
  /\ UNCHANGED <<runnerVars, answers, used>>

AnswerCheckpoints ==
  /\ request.at = "checkpoint"
  /\ AppendsOnce(<<"checkpoint", Gate>>, Checkpoint(view, "select_step", request.done), row)
  /\ request' = [at |-> "none", done |-> {}]
  /\ UNCHANGED <<runnerVars, answers, used>>

-----------------------------------------------------------------------------
(* Faults.                                                                 *)

\* A statement or an append is not done and raises: run_task blocks the task,
\* the loop around it gives the lease back, and a failed release leaves it.
Fails(p) ==
  /\ pc[p] # "idle" /\ Spend("fault")
  /\ pc' = [pc EXCEPT ![p] = CASE pc[p] \in RunPoints -> "block"
                               [] pc[p] \in {"due", "release"} -> "idle"
                               [] OTHER -> "release"]
  /\ tx' = [w \in Workers |-> IF w = p /\ pc[p] \in {"block", "commit"} THEN 0 ELSE tx[w]]
  /\ lapsed' = IF pc[p] = "release" THEN lapsed \ {p} ELSE lapsed
  /\ locked' = IF locked = p THEN NoOne ELSE locked
  /\ UNCHANGED <<logVars, lease, artifactVars, turnVars, stage, mem, art,
                 requestVars, fileVars>>

\* The process of a worker dies and is started again.
Crash(w) ==
  /\ pc[w] # "idle" /\ Spend("crash")
  /\ pc' = [pc EXCEPT ![w] = "idle"]
  /\ tx' = [tx EXCEPT ![w] = 0]
  /\ lapsed' = lapsed \ {w}
  /\ locked' = IF locked = w THEN NoOne ELSE locked
  /\ UNCHANGED <<logVars, lease, artifactVars, turnVars, stage, mem, art,
                 requestVars, fileVars>>

\* runtime-api dies: its recovery runner and the request it answers.
CrashApi ==
  /\ pc[Recoverer] # "idle" \/ request.at # "none"
  /\ Spend("crash")
  /\ pc' = [pc EXCEPT ![Recoverer] = "idle"]
  /\ lapsed' = lapsed \ {Recoverer}
  /\ locked' = IF locked = Recoverer THEN NoOne ELSE locked
  /\ request' = [at |-> "none", done |-> {}]
  /\ UNCHANGED <<logVars, lease, artifactVars, turnVars, localVars, answers, fileVars>>

-----------------------------------------------------------------------------
RunTask(w) ==
  \/ SelectsStep(w) \/ BuildsPacket(w) \/ CannotGoOn(w) \/ GatherPacket(w)
  \/ LoadsArtifact(w) \/ StoresArtifact(w) \/ PausesForInput(w)
  \/ VerifiesArtifact(w) \/ StepFails(w) \/ ReturnsResult(w)
  \/ RecordsVerified(w) \/ SavesCheckpoint(w) \/ EvaluatesFinal(w)
  \/ CompletesTask(w) \/ BlocksTask(w)

Loop(p) ==
  \/ ClaimRefused(p) \/ Releases(p) \/ Recovers(p) \/ SyncLocks(p) \/ Syncs(p)

WorkerLoop(w) ==
  \/ Starts(w) \/ Commits(w) \/ ReadsAgain(w) \/ DeliveryLooks(w) \/ Delivers(w)

Answering ==
  AnswerRecords \/ AnswerAsksAgain \/ AnswerPlans \/ AnswerValidates \/ AnswerCheckpoints

Next ==
  \/ \E p \in Runners : Scans(p) \/ Claims(p) \/ Loop(p) \/ Fails(p)
  \/ \E w \in Workers : RunTask(w) \/ WorkerLoop(w) \/ Crash(w)
  \/ LeaseRunsOut \/ Overruns
  \/ Cancel \/ HumanInput \/ AnswerFinds \/ Answering
  \/ CrashApi

Spec == Init /\ [][Next]_vars

\* Both loops go round for ever and restart after a crash, a step that began
\* goes on, a lease runs out.  The other loop may take the lease between two
\* of the scans or claims of one, but not for ever: strong fairness.
Fairness ==
  /\ \A p \in Runners : /\ WF_vars(Loop(p))
                        /\ SF_vars(Scans(p)) /\ SF_vars(Claims(p))
  /\ \A w \in Workers : WF_vars(RunTask(w)) /\ WF_vars(WorkerLoop(w))
  /\ WF_vars(LeaseRunsOut)

FairSpec == Spec /\ Fairness

-----------------------------------------------------------------------------
(* Properties.                                                             *)

TypeOK ==
  /\ view \in Views /\ keys \subseteq Keys
  /\ row \in [status: Statuses, node: Nodes]
  /\ lease \in [owner: Runners \cup {NoOne}, live: BOOLEAN] /\ lapsed \subseteq Runners
  /\ locked \in Runners \cup {NoOne}
  /\ taskRun \in [status: Statuses, artifact: Nat] /\ stored \subseteq Nat
  /\ turns \in Nat /\ delivered \subseteq Nat
  /\ pc \in [Runners -> Points] /\ stage \in [Workers -> Steps]
  /\ mem \in [Runners -> Views]
  /\ art \in [Workers -> Nat] /\ tx \in [Workers -> Nat]
  /\ request \in [at: Requests, done: SUBSET Steps] /\ answers \in Nat
  /\ made \in Nat /\ passed \subseteq Nat
  /\ used \in [Kinds -> Nat]

\* What is told is done: task.completed is in the log, every file that is named
\* has a committed row, and a file passed verification.
DeliveredIsComplete ==
  turns > 0 =>
    /\ <<"completed", Gate>> \in keys
    /\ delivered # {} /\ delivered \subseteq stored
    /\ passed # {}

\* Whoever works on a task has the lease, as long as it did not run out under
\* its work: claim_task takes no lease that is alive, release_task gives back
\* no lease of another.
LeaseHeld ==
  \A p \in Runners : Working(p) /\ p \notin lapsed => lease = [owner |-> p, live |-> TRUE]

\* Unless a lease ran out under its owner nobody waits for a lock whose holder
\* waits for him: the sync has the row of the task and waits for task_runs, an
\* open transaction has task_runs and waits for the row.
Standoff ==
  \E p \in Runners, w \in Workers :
    p # w /\ locked = p /\ pc[p] = "syncing" /\ tx[w] # 0

NoStandoff == Standoff => used["overrun"] > 0

Running == view.status = "running"

\* The row follows the log out of the queue: a task that ended in the log does
\* not stay running in the table the schedulers read.
FinishedLeavesQueue == ~Running ~> (row.status # "running" \/ Running)

\* Faults and crashes alone do not let a file out that failed or missed its
\* verification, though a delivery that is recovered names every file of the
\* task: a task that stopped with such a file is not taken up again unless its
\* owner reopens it.
DeliveredIsVerified == used["input"] = 0 /\ answers = 0 => delivered \subseteq passed

\* The message about the task: see ArtifactPromise.  The task is finished when
\* the last word of its log is task.completed and no cancellation is in it.
Promise == INSTANCE ArtifactPromise WITH
  phase <- IF <<"completed", Gate>> \notin keys THEN "open"
           ELSE IF view.status = "completed" /\ view.node = "delivered" /\ used["cancel"] = 0
           THEN "finished" ELSE "withdrawn",
  kept <- stored, told <- turns, sent <- delivered

\* The loops, leases and recoveries keep that promise.
ImplementsPromise == Promise!Spec

\* A running task that was never completed and that nobody works on waits for its
\* owner, or will be taken up: no request, pause, lease or recovery strands it, and
\* no step that fails does.  The scanners look at the row.  One that says running
\* is brought to the log's node by the recovery (RecoveryDue), and a worker takes
\* it up there (ArtifactDue); a task that waits is found by the next answer when
\* its row says so, as that of a gated task does, or once it is brought there.
\* What strands a task nevertheless is left out:
\*   - a process that dies between two appends of one step;
\*   - a second failure, that of the append which blocks the task;
\*   - an answer that reopens a task that was completed in the meantime: its
\*     task.completed is in the log already and is not written again;
\*   - an answer beside a failing step, a cancellation or a second answer: the
\*     worker's sync of what it read before puts blocked or cancelled into the
\*     row of the task that the answer resumed, and no scanner finds it;
\*   - a call of agent_task_human_input for a task that waits at its gate: the
\*     row keeps waiting_user.
Resumable ==
  /\ used["crash"] = 0 /\ used["fault"] <= 1 /\ <<"completed", Gate>> \notin keys
  /\ answers = 0 \/ (used["fault"] = 0 /\ used["cancel"] = 0 /\ used["answer"] <= 1)
  /\ Gated => used["input"] = 0
  /\ Running /\ request.at = "none" /\ \A p \in Runners : ~Working(p)
  => \/ row.status = "running" /\ view.node \in Executable \cup {"waiting_for_human_input"}
     \/ row.node = "waiting_for_human_input" /\ view.node = row.node
=============================================================================
