----------------------------- MODULE OpenClawJobs -----------------------------
(***************************************************************************)
(* The queue of OpenClaw jobs in Postgres, the runner in the event loop of *)
(* runtime-api and the run-once endpoint (main.py, 3678-3971).             *)
(*                                                                         *)
(* A call is one transaction from its first statement to its last, with    *)
(* every execution of OpenClaw inside.  The runner locks up to BatchSize   *)
(* due jobs and passes by those that others have locked; the endpoint      *)
(* reads its job first and waits for the lock when it writes, and then     *)
(* writes what follows from that read, whatever the job is by then.  row   *)
(* is what is committed, work what the transaction that holds the row has  *)
(* made of it.                                                             *)
(***************************************************************************)
EXTENDS Integers, FiniteSets

CONSTANTS
  Jobs,
  Runners,      \* openclaw_execution_job_runner_loop, one per process
  Requests,     \* calls of run-once, each made at most once
  Nobody, NoJob,
  MaxAttempts,  \* max_attempts of a job
  BatchSize,    \* OPENCLAW_JOB_RUNNER_BATCH_SIZE
  MaxFaults     \* bound on the transactions that are lost

Calls == Runners \cup Requests

ASSUME OpenClawAssumption ==
  /\ Runners \cap Requests = {}
  /\ Nobody \notin Calls
  /\ NoJob \notin Jobs
  /\ MaxAttempts \in Nat \ {0}
  /\ BatchSize \in Nat \ {0}
  /\ MaxFaults \in Nat

VARIABLES
  row,          \* row[j]: the committed row of openclaw_execution_jobs
  work,         \* work[j]: the row as the transaction that holds it sees it
  holder,       \* holder[j]: the call that has the row locked
  pc,           \* pc[c]: where the call is
  todo,         \* todo[c]: the jobs of the batch that are still to be run
  job,          \* job[c]: the job in hand
  seen,         \* seen[c]: attempt_count as run-once has read it
  cut,          \* the calls whose connection is lost and that do not know it yet
  ran,          \* history: how often a job was executed
  overwritten,  \* history: the recorded attempts that a run-once did not know of
  faults

tableVars == <<row, work, holder>>
callVars == <<pc, todo, job, seen, cut>>
historyVars == <<ran, overwritten, faults>>
vars == <<tableVars, callVars, historyVars>>

\* "blocked" stands for "needs_user_input" too.
Open == {"queued", "retry_scheduled"}
Final == {"completed", "blocked", "failed"}

Row == [status : {"none", "running"} \cup Open \cup Final, attempts : 0..MaxAttempts,
        due : BOOLEAN]

TypeOK ==
  /\ row \in [Jobs -> Row] /\ work \in [Jobs -> Row]
  /\ holder \in [Jobs -> Calls \cup {Nobody}]
  /\ pc \in [Calls -> {"idle", "next", "updating", "executing", "done"}]
  /\ todo \in [Calls -> SUBSET Jobs]
  /\ job \in [Calls -> Jobs \cup {NoJob}]
  /\ seen \in [Calls -> 0..MaxAttempts]
  /\ cut \subseteq Calls
  /\ ran \in [Jobs -> Nat] /\ overwritten \in [Jobs -> Nat]
  /\ faults \in 0..MaxFaults

Init ==
  /\ row = [j \in Jobs |-> [status |-> "none", attempts |-> 0, due |-> FALSE]]
  /\ work = row
  /\ holder = [j \in Jobs |-> Nobody]
  /\ pc = [c \in Calls |-> "idle"]
  /\ todo = [c \in Calls |-> {}]
  /\ job = [c \in Calls |-> NoJob]
  /\ seen = [c \in Calls |-> 0]
  /\ cut = {}
  /\ ran = [j \in Jobs |-> 0]
  /\ overwritten = [j \in Jobs |-> 0]
  /\ faults = 0

-----------------------------------------------------------------------------
(* What a transaction does to the rows.                                     *)

\* Mutant: every statement is committed at once, and no lock outlives it.
LocksNothing(c, S) == UNCHANGED holder

Locks(c, S) == holder' = [j \in Jobs |-> IF j \in S THEN c ELSE holder[j]]

\* Mutant: the mark of an attempt is committed before the execution.
StaysRunning(S) == row' = [j \in Jobs |-> IF j \in S THEN work[j] ELSE row[j]] /\ UNCHANGED work

\* The rows in S are again as they were committed.
Restores(S) == work' = [j \in Jobs |-> IF j \in S THEN row[j] ELSE work[j]] /\ UNCHANGED row

HeldBy(C) == {j \in Jobs : holder[j] \in C}

RollsBack(C) ==
  /\ Restores(HeldBy(C))
  /\ holder' = [j \in Jobs |-> IF holder[j] \in C THEN Nobody ELSE holder[j]]
  /\ faults < MaxFaults
  /\ faults' = faults + 1
  /\ UNCHANGED <<ran, overwritten>>

\* The runner goes on with its next pass, a request is over.
Ended(c) == IF c \in Runners THEN "idle" ELSE "done"

Ends(c) ==
  /\ pc' = [pc EXCEPT ![c] = Ended(c)]
  /\ todo' = [todo EXCEPT ![c] = {}]
  /\ job' = [job EXCEPT ![c] = NoJob]
  /\ seen' = [seen EXCEPT ![c] = 0]
  /\ cut' = cut \ {c}

-----------------------------------------------------------------------------
(* A job comes, and its time comes.                                         *)

Enqueues(j) ==
  /\ row[j].status = "none"
  /\ row' = [row EXCEPT ![j] = [status |-> "queued", attempts |-> 0, due |-> TRUE]]
  /\ work' = [work EXCEPT ![j] = row'[j]]
  /\ UNCHANGED <<holder, callVars, historyVars>>

BecomesDue(j) ==
  /\ row[j].status = "retry_scheduled" /\ ~row[j].due /\ holder[j] = Nobody
  /\ row' = [row EXCEPT ![j].due = TRUE]
  /\ work' = [work EXCEPT ![j].due = TRUE]
  /\ UNCHANGED <<holder, callVars, historyVars>>

-----------------------------------------------------------------------------
(* One attempt.                                                             *)

Counted(attempts) == attempts + 1

\* Mutant: one retry more than there are attempts.
RetriesOnceMore(attempts) ==
  Final \cup (IF attempts <= MaxAttempts THEN {"retry_scheduled"} ELSE {})

\* classify_openclaw_job_result: what an attempt may end in.
AfterAttempt(attempts) ==
  Final \cup (IF attempts < MaxAttempts THEN {"retry_scheduled"} ELSE {})

\* The row is marked as running and OpenClaw is called.
Attempts(c, j, attempts) ==
  /\ work' = [work EXCEPT ![j] = [@ EXCEPT !.status = "running", !.attempts = Counted(attempts)]]
  /\ ran' = [ran EXCEPT ![j] = @ + 1]
  /\ pc' = [pc EXCEPT ![c] = "executing"]
  /\ job' = [job EXCEPT ![c] = j]
  /\ seen' = [seen EXCEPT ![c] = 0]
  /\ UNCHANGED <<row, cut, faults>>

\* OpenClaw answers, or its time is up, and the result is written.
Finishes(c) ==
  /\ pc[c] = "executing" /\ c \notin cut
  /\ \E status \in AfterAttempt(work[job[c]].attempts) :
       work' = [work EXCEPT ![job[c]] =
                 [@ EXCEPT !.status = status, !.due = status # "retry_scheduled"]]
  /\ pc' = [pc EXCEPT ![c] = "next"]
  /\ job' = [job EXCEPT ![c] = NoJob]
  /\ UNCHANGED <<row, holder, todo, seen, cut, historyVars>>

Commits(c) ==
  /\ pc[c] = "next" /\ todo[c] = {}
  /\ row' = [j \in Jobs |-> IF holder[j] = c THEN work[j] ELSE row[j]]
  /\ holder' = [j \in Jobs |-> IF holder[j] = c THEN Nobody ELSE holder[j]]
  /\ Ends(c)
  /\ UNCHANGED <<work, historyVars>>

-----------------------------------------------------------------------------
(* The runner.                                                              *)

Selectable == {j \in Jobs : row[j].status \in Open /\ row[j].due /\ holder[j] = Nobody}

FindsNothing(r) ==
  /\ pc[r] = "idle"
  /\ Selectable = {}
  /\ UNCHANGED vars

\* FOR UPDATE SKIP LOCKED, with a limit; the order is left open.
Selects(r) ==
  /\ pc[r] = "idle"
  /\ \E batch \in SUBSET Selectable :
       /\ batch # {}
       /\ \/ Cardinality(batch) = BatchSize
          \/ Cardinality(batch) < BatchSize /\ batch = Selectable
       /\ Locks(r, batch)
       /\ todo' = [todo EXCEPT ![r] = batch]
  /\ pc' = [pc EXCEPT ![r] = "next"]
  /\ UNCHANGED <<row, work, job, seen, cut, historyVars>>

RunsNext(r) ==
  /\ pc[r] = "next"
  /\ \E j \in todo[r] :
       /\ Attempts(r, j, row[j].attempts)
       /\ todo' = [todo EXCEPT ![r] = @ \ {j}]
  /\ UNCHANGED <<holder, overwritten>>

-----------------------------------------------------------------------------
(* run-once.                                                                *)

\* A job that is not open is left alone, going by this read.
RequestReads(q) ==
  /\ pc[q] = "idle"
  /\ \E j \in Jobs :
       IF row[j].status \in Open
       THEN /\ pc' = [pc EXCEPT ![q] = "updating"]
            /\ job' = [job EXCEPT ![q] = j]
            /\ seen' = [seen EXCEPT ![q] = row[j].attempts]
            /\ UNCHANGED <<todo, cut>>
       ELSE Ends(q)
  /\ UNCHANGED <<tableVars, historyVars>>

\* The update waits for the lock of the row, and does not look at the row again.
RequestUpdates(q) ==
  /\ pc[q] = "updating"
  /\ holder[job[q]] = Nobody
  /\ Locks(q, {job[q]})
  /\ Attempts(q, job[q], seen[q])
  /\ LET unknown == row[job[q]].attempts - seen[q]
     IN  overwritten' = [overwritten EXCEPT ![job[q]] = IF unknown > 0 THEN @ + unknown ELSE @]
  /\ UNCHANGED todo

-----------------------------------------------------------------------------
(* What is lost.                                                            *)

\* A statement or the execution raises: the transaction, which may hold results of
\* the jobs before, is rolled back.
Fails(c) ==
  /\ pc[c] \in {"next", "updating", "executing"} /\ c \notin cut
  /\ RollsBack({c})
  /\ Ends(c)

\* Postgres rolls back, and the execution goes on.
LosesConnection(c) ==
  /\ pc[c] = "executing" /\ c \notin cut
  /\ RollsBack({c})
  /\ cut' = cut \cup {c}
  /\ UNCHANGED <<pc, todo, job, seen>>

\* The first statement after the execution raises.
Notices(c) ==
  /\ c \in cut
  /\ Ends(c)
  /\ UNCHANGED <<tableVars, historyVars>>

\* runtime-api dies and is started again.
Restart ==
  /\ RollsBack(Calls)
  /\ pc' = [c \in Calls |-> IF pc[c] = "idle" THEN "idle" ELSE Ended(c)]
  /\ todo' = [c \in Calls |-> {}]
  /\ job' = [c \in Calls |-> NoJob]
  /\ seen' = [c \in Calls |-> 0]
  /\ cut' = {}

-----------------------------------------------------------------------------

Goes(c) == Finishes(c) \/ Commits(c) \/ Notices(c)
Runs(r) == Selects(r) \/ RunsNext(r) \/ Goes(r)
Requested(q) == RequestUpdates(q) \/ Goes(q)

Next ==
  \/ \E j \in Jobs : Enqueues(j) \/ BecomesDue(j)
  \/ \E r \in Runners : FindsNothing(r) \/ Runs(r)
  \/ \E q \in Requests : RequestReads(q) \/ Requested(q)
  \/ \E c \in Calls : Fails(c) \/ LosesConnection(c)
  \/ Restart

Spec == Init /\ [][Next]_vars

\* The loop catches what its pass raises, a call of OpenClaw has a time-out, time
\* goes on.
Fairness ==
  /\ \A r \in Runners : WF_vars(Runs(r))
  /\ \A q \in Requests : WF_vars(Requested(q))
  /\ \A j \in Jobs : WF_vars(BecomesDue(j))

FairSpec == Spec /\ Fairness

-----------------------------------------------------------------------------
(* Properties                                                               *)

\* No job is executed by two calls at a time, unless one of them has lost its
\* connection: the lock of FOR UPDATE, or of the UPDATE to "running", lasts
\* until the result is committed.
OneAtATime ==
  \A c, d \in Calls \ cut :
    pc[c] = "executing" /\ pc[d] = "executing" /\ job[c] = job[d] => c = d

\* A job is executed max_attempts times at most, and once more for every transaction
\* that was lost and every attempt that a late run-once has overwritten.
AttemptsBounded ==
  \A j \in Jobs : ran[j] <= MaxAttempts + overwritten[j] + faults

\* A job that waits is settled some time: no restart and no failure leaves it
\* "running", where nobody would look for it.
JobsSettle == \A j \in Jobs : row[j].status \in Open ~> row[j].status \in Final

-----------------------------------------------------------------------------
(* The inductive invariant of OpenClawJobsProofs.                           *)

\* A row is locked by a call that is at work on it with its connection, and only
\* then differs from what is committed; who executes a job has it locked.
LockInv ==
  /\ \A j \in Jobs : holder[j] = Nobody => work[j] = row[j]
  /\ \A j \in Jobs : holder[j] # Nobody =>
       /\ pc[holder[j]] \in {"next", "executing"} /\ holder[j] \notin cut
       /\ row[j].status # "none" /\ work[j].status # "none"
  /\ \A c \in Calls \ cut : pc[c] = "executing" => job[c] \in Jobs /\ holder[job[c]] = c
  /\ \A c \in cut : pc[c] = "executing"

\* The rest of a batch, without the job in hand, is locked and as it was selected.
BatchInv ==
  \A c \in Calls \ cut : \A j \in todo[c] :
    /\ holder[j] = c /\ work[j] = row[j] /\ row[j].status \in Open
    /\ pc[c] = "executing" => job[c] # j

\* Whoever is about to make an attempt has one left, going by what it has read.
LeftInv ==
  /\ \A j \in Jobs : row[j].status \in Open => row[j].attempts < MaxAttempts
  /\ \A j \in Jobs : work[j].status \in Open => work[j].attempts < MaxAttempts
  /\ \A j \in Jobs : row[j].status = "none" => row[j].attempts = 0
  /\ \A c \in Calls : pc[c] = "updating" =>
       job[c] \in Jobs /\ row[job[c]].status # "none" /\ seen[c] < MaxAttempts

\* What was executed is recorded in the row, or lost and counted, but for the
\* attempt that is not committed yet.
CountInv ==
  \A j \in Jobs :
    /\ ran[j] <= work[j].attempts + overwritten[j] + faults
    /\ ran[j] <= row[j].attempts + 1 + overwritten[j] + faults

JobsInv == TypeOK /\ LockInv /\ BatchInv /\ LeftInv /\ CountInv
=============================================================================
