-------------------------- MODULE OpenClawJobsProofs --------------------------
(***************************************************************************)
(* The queue of OpenClaw jobs, for any jobs, runners, requests, batch      *)
(* sizes and lost transactions.  That no two calls execute one job rests   *)
(* on the locks (LockInv): a row differs from what is committed only while *)
(* a call that is at work has it locked.  The bound on the executions is a *)
(* count (CountInv): what a row does not record is either not committed    *)
(* yet, or was lost with a transaction, or overwritten by a run-once that  *)
(* had read the row before; and who makes an attempt has one left          *)
(* (LeftInv).  JobsInv is the conjunction, and inductive; there is a lemma *)
(* for each action.                                                        *)
(***************************************************************************)
EXTENDS OpenClawJobs, TLAPS

USE OpenClawAssumption

(* What an attempt may end in, and that a retry needs an attempt left.      *)
LEMMA Outcomes ==
  ASSUME NEW n \in 0..MaxAttempts, NEW status \in AfterAttempt(n)
  PROVE  /\ status \in Final \cup {"retry_scheduled"}
         /\ status \in Open => n < MaxAttempts
  BY DEF AfterAttempt, Final, Open

(* What the three updates of a row make of it: its time has come, it has the *)
(* result of an attempt, it is marked as running.                           *)
LEMMA DueRow ==
  ASSUME NEW r \in Row
  PROVE  LET new == [r EXCEPT !.due = TRUE]
         IN  new \in Row /\ new.status = r.status /\ new.attempts = r.attempts
  BY DEF Row

LEMMA ResultRow ==
  ASSUME NEW r \in Row, NEW s \in Final \cup {"retry_scheduled"}, NEW d \in BOOLEAN
  PROVE  LET new == [r EXCEPT !.status = s, !.due = d]
         IN  new \in Row /\ new.status = s /\ new.attempts = r.attempts
  BY DEF Row, Open

LEMMA RunningRow ==
  ASSUME NEW r \in Row, NEW n \in 0..MaxAttempts
  PROVE  LET new == [r EXCEPT !.status = "running", !.attempts = n]
         IN  new \in Row /\ new.status = "running" /\ new.attempts = n
  BY DEF Row

(* The states in which nothing has happened yet.                            *)
LEMMA InitKeeps == Init => JobsInv
<1>. SUFFICES ASSUME Init PROVE JobsInv
  OBVIOUS
<1>1. TypeOK
  BY DEF Init, TypeOK, Row, Calls
<1>2. LockInv
  BY DEF Init, LockInv, Calls
<1>3. BatchInv
  BY DEF Init, BatchInv
<1>4. LeftInv
  BY DEF Init, LeftInv, Open
<1>5. CountInv
  BY DEF Init, CountInv
<1>. QED BY <1>1, <1>2, <1>3, <1>4, <1>5 DEF JobsInv

(* A job is enqueued: its row was not there, so nobody holds it.            *)
LEMMA EnqueuesKeeps ==
  ASSUME JobsInv, NEW k \in Jobs, Enqueues(k)
  PROVE  JobsInv'
<1>. USE DEF JobsInv, Enqueues, callVars, historyVars
<1>1. holder[k] = Nobody /\ work[k] = row[k]
  BY DEF LockInv
<1>2. TypeOK'
  BY DEF TypeOK, Row, Open
<1>3. LockInv'
  BY <1>1 DEF LockInv, TypeOK
<1>4. BatchInv'
  BY <1>1 DEF BatchInv, TypeOK, Calls
<1>5. LeftInv'
  BY DEF LeftInv, TypeOK, Open
<1>6. CountInv'
  <2>1. row[k].attempts = 0
    BY DEF LeftInv
  <2>. QED BY <1>1, <2>1 DEF CountInv, TypeOK, Row
<1>. QED BY <1>2, <1>3, <1>4, <1>5, <1>6

(* The time of a retry comes.                                               *)
LEMMA BecomesDueKeeps ==
  ASSUME JobsInv, NEW k \in Jobs, BecomesDue(k)
  PROVE  JobsInv'
<1>. USE DEF JobsInv
<1>. DEFINE new == [row[k] EXCEPT !.due = TRUE]
<1>1. /\ work[k] = row[k] /\ holder[k] = Nobody
      /\ row' = [row EXCEPT ![k] = new] /\ work' = [work EXCEPT ![k] = new]
      /\ UNCHANGED <<holder, pc, todo, job, seen, cut, ran, overwritten, faults>>
  BY DEF BecomesDue, callVars, historyVars, LockInv, TypeOK
<1>2. new \in Row /\ new.status = row[k].status /\ new.attempts = row[k].attempts
  <2>1. row[k] \in Row
    BY DEF TypeOK
  <2>. QED BY <2>1, DueRow
<1>. HIDE DEF new
<1>3. TypeOK'
  BY <1>1, <1>2 DEF TypeOK
<1>4. LockInv'
  BY <1>1, <1>2 DEF LockInv, TypeOK
<1>5. BatchInv'
  BY <1>1, <1>2 DEF BatchInv, TypeOK, Calls
<1>6. LeftInv'
  BY <1>1, <1>2 DEF LeftInv, TypeOK
<1>7. CountInv'
  BY <1>1, <1>2 DEF CountInv, TypeOK, Row
<1>. QED BY <1>3, <1>4, <1>5, <1>6, <1>7

(* A call writes the result of its attempt to the row it has locked.        *)
LEMMA FinishesKeeps ==
  ASSUME JobsInv, NEW c \in Calls, Finishes(c)
  PROVE  JobsInv'
<1>. USE DEF JobsInv
<1>. DEFINE k == job[c]
<1>1. k \in Jobs /\ holder[k] = c /\ c # Nobody /\ c \notin cut
  BY DEF Finishes, LockInv, Calls
<1>2. work[k] \in Row /\ work[k].attempts \in 0..MaxAttempts
  BY <1>1 DEF TypeOK, Row
<1>3. PICK s \in AfterAttempt(work[k].attempts), d \in BOOLEAN :
        work' = [work EXCEPT ![k] = [@ EXCEPT !.status = s, !.due = d]]
  <2>1. PICK s \in AfterAttempt(work[k].attempts) :
          work' = [work EXCEPT ![k] = [@ EXCEPT !.status = s, !.due = s # "retry_scheduled"]]
    BY DEF Finishes
  <2>2. (s # "retry_scheduled") \in BOOLEAN
    OBVIOUS
  <2>. QED BY <2>1, <2>2
<1>4. s \in Final \cup {"retry_scheduled"} /\ (s \in Open => work[k].attempts < MaxAttempts)
  BY <1>2, <1>3, Outcomes
<1>. DEFINE new == [work[k] EXCEPT !.status = s, !.due = d]
<1>5. /\ work' = [work EXCEPT ![k] = new]
      /\ pc[c] = "executing" /\ pc' = [pc EXCEPT ![c] = "next"] /\ job' = [job EXCEPT ![c] = NoJob]
      /\ UNCHANGED <<row, holder, todo, seen, cut, ran, overwritten, faults>>
  BY <1>1, <1>3 DEF Finishes, historyVars, TypeOK
<1>6. /\ new \in Row /\ new.status = s /\ new.attempts = work[k].attempts
      /\ s # "none"
  <2>1. s # "none"
    BY <1>4 DEF Final
  <2>2. new \in Row
    BY <1>2, <1>4, ResultRow
  <2>3. new.status = s /\ new.attempts = work[k].attempts
    BY <1>2, <1>4 DEF Row
  <2>. QED BY <2>1, <2>2, <2>3
<1>. HIDE DEF new
<1>7. TypeOK'
  BY <1>1, <1>5, <1>6 DEF TypeOK
<1>8. LockInv'
  BY <1>1, <1>5, <1>6 DEF LockInv, TypeOK
<1>9. BatchInv'
  <2>1. NoJob \notin Jobs /\ \A e \in Calls : todo[e] \subseteq Jobs
    BY DEF TypeOK
  <2>2. k \notin todo[c]
    BY <1>1, <1>5 DEF BatchInv
  <2>. QED BY <1>1, <1>5, <2>1, <2>2 DEF BatchInv, TypeOK
<1>10. LeftInv'
  BY <1>1, <1>4, <1>5, <1>6 DEF LeftInv, TypeOK
<1>11. CountInv'
  BY <1>1, <1>5, <1>6 DEF CountInv, TypeOK, Row
<1>. QED BY <1>7, <1>8, <1>9, <1>10, <1>11

(* A commit: what was locked is as the call has made it.                    *)
LEMMA CommitsKeeps ==
  ASSUME JobsInv, NEW c \in Calls, Commits(c)
  PROVE  JobsInv'
<1>. USE DEF JobsInv, Commits, Ends, historyVars
<1>1. c \notin cut /\ c # Nobody
  BY DEF LockInv, Calls
<1>2. TypeOK'
  BY DEF TypeOK, Ended, Calls
<1>3. LockInv'
  BY <1>1 DEF LockInv, TypeOK, Ended
<1>4. BatchInv'
  BY <1>1 DEF BatchInv, TypeOK
<1>5. LeftInv'
  <2>1. \A j \in Jobs : holder[j] = c => row[j].status # "none" /\ work[j].status # "none"
    BY <1>1 DEF LockInv
  <2>. QED BY <2>1 DEF LeftInv, TypeOK, Ended
<1>6. CountInv'
  BY DEF CountInv, TypeOK, Row
<1>. QED BY <1>2, <1>3, <1>4, <1>5, <1>6

(* What is common to RunsNext and RequestUpdates: a call makes an attempt at *)
(* job k, which it has locked by then, and counts n attempts before it; the *)
(* attempts of the row that n does not count are overwritten.               *)
LEMMA AttemptKeeps ==
  ASSUME JobsInv, NEW c \in Calls, NEW k \in Jobs, NEW n \in 0..(MaxAttempts - 1),
         pc[c] \in {"next", "updating"}, Attempts(c, k, n),
         holder[k] \in {c, Nobody}, work[k] = row[k], row[k].status # "none",
         holder' \in [Jobs -> Calls \cup {Nobody}], holder'[k] = c,
         \A j \in Jobs \ {k} : holder'[j] = holder[j],
         todo' \in [Calls -> SUBSET Jobs], todo'[c] = todo[c] \ {k},
         \A d \in Calls \ {c} : todo'[d] = todo[d],
         overwritten' \in [Jobs -> Nat],
         \A j \in Jobs : overwritten'[j] >= overwritten[j],
         row[k].attempts + overwritten[k] <= n + overwritten'[k]
  PROVE  JobsInv'
<1>. USE DEF JobsInv
<1>. DEFINE new == [work[k] EXCEPT !.status = "running", !.attempts = n + 1]
<1>1. work[k] \in Row /\ n + 1 \in 0..MaxAttempts
  BY DEF TypeOK
<1>2. new \in Row
  BY <1>1, RunningRow
<1>3. new.status = "running" /\ new.attempts = n + 1
  BY <1>1 DEF Row
<1>4. work' = [work EXCEPT ![k] = new]
  BY DEF Attempts, Counted, TypeOK
<1>5. /\ ran' = [ran EXCEPT ![k] = @ + 1]
      /\ pc' = [pc EXCEPT ![c] = "executing"] /\ job' = [job EXCEPT ![c] = k]
      /\ seen' = [seen EXCEPT ![c] = 0]
      /\ UNCHANGED <<row, cut, faults>>
  BY DEF Attempts
<1>. HIDE DEF new
<1>6. c # Nobody /\ c \notin cut
  BY DEF LockInv, Calls
<1>7. TypeOK'
  BY <1>2, <1>4, <1>5 DEF TypeOK
<1>8. LockInv'
  BY <1>3, <1>4, <1>5, <1>6 DEF LockInv, TypeOK
<1>9. BatchInv'
  <2>1. \A d \in Calls \ cut : d # c => k \notin todo[d]
    BY <1>6 DEF BatchInv, Calls
  <2>. QED BY <1>4, <1>5, <1>6, <2>1 DEF BatchInv, TypeOK
<1>10. LeftInv'
  BY <1>3, <1>4, <1>5 DEF LeftInv, TypeOK, Open
<1>11. CountInv'
  BY <1>1, <1>3, <1>4, <1>5 DEF CountInv, TypeOK, Row
<1>. QED BY <1>7, <1>8, <1>9, <1>10, <1>11

(* The runner goes on to a job of its batch, which is as it was selected.   *)
LEMMA RunsNextKeeps ==
  ASSUME JobsInv, NEW r \in Runners, RunsNext(r)
  PROVE  JobsInv'
<1>. USE DEF JobsInv
<1>1. r \in Calls /\ r \notin cut /\ r # Nobody /\ pc[r] = "next"
  BY DEF RunsNext, LockInv, Calls
<1>2. PICK k \in todo[r] :
        /\ Attempts(r, k, row[k].attempts)
        /\ todo' = [todo EXCEPT ![r] = @ \ {k}]
  BY DEF RunsNext
<1>3. k \in Jobs /\ holder[k] = r /\ work[k] = row[k] /\ row[k].status \in Open
  BY <1>1, <1>2 DEF TypeOK, BatchInv
<1>4. row[k].attempts \in 0..(MaxAttempts - 1)
  BY <1>3 DEF LeftInv, TypeOK, Row
<1>5. UNCHANGED <<holder, overwritten>> /\ row[k].status # "none"
  BY <1>3 DEF RunsNext, Open
<1>6. todo' \in [Calls -> SUBSET Jobs] /\ \A d \in Calls \ {r} : todo'[d] = todo[d]
  BY <1>1, <1>2 DEF TypeOK
<1>7. todo'[r] = todo[r] \ {k}
  BY <1>1, <1>2 DEF TypeOK
<1>8. \A j \in Jobs : overwritten'[j] >= overwritten[j]
  BY <1>5 DEF TypeOK
<1>9. row[k].attempts + overwritten[k] <= row[k].attempts + overwritten'[k]
  BY <1>3, <1>4, <1>5 DEF TypeOK
<1>. DEFINE n == row[k].attempts
<1>10. Attempts(r, k, n) /\ n \in 0..(MaxAttempts - 1) /\ row[k].attempts + overwritten[k] <= n + overwritten'[k]
  BY <1>2, <1>4, <1>9
<1>11. overwritten' \in [Jobs -> Nat] /\ holder' \in [Jobs -> Calls \cup {Nobody}]
  BY <1>5 DEF TypeOK
<1>. HIDE DEF n
<1>. QED BY <1>1, <1>3, <1>5, <1>6, <1>7, <1>8, <1>10, <1>11, AttemptKeeps

(* The runner locks due jobs that nobody has locked.                        *)
LEMMA SelectsKeeps ==
  ASSUME JobsInv, NEW r \in Runners, Selects(r)
  PROVE  JobsInv'
<1>. USE DEF JobsInv
<1>1. r \in Calls /\ r \notin cut /\ r # Nobody /\ pc[r] = "idle"
  BY DEF Selects, LockInv, Calls
<1>2. PICK batch \in SUBSET Selectable :
        /\ holder' = [j \in Jobs |-> IF j \in batch THEN r ELSE holder[j]]
        /\ todo' = [todo EXCEPT ![r] = batch]
  BY DEF Selects, Locks
<1>3. pc' = [pc EXCEPT ![r] = "next"] /\ UNCHANGED <<row, work, job, seen, cut, ran, overwritten, faults>>
  BY DEF Selects, historyVars
<1>4. \A j \in batch : j \in Jobs /\ row[j].status \in Open /\ holder[j] = Nobody /\ row[j].status # "none"
  BY DEF Selectable, Open
<1>5. \A j \in batch : work[j] = row[j]
  BY <1>4 DEF LockInv
<1>6. TypeOK'
  BY <1>1, <1>2, <1>3, <1>4 DEF TypeOK
<1>7. LockInv'
  BY <1>1, <1>2, <1>3, <1>4, <1>5 DEF LockInv, TypeOK
<1>8. BatchInv'
  BY <1>1, <1>2, <1>3, <1>4, <1>5 DEF BatchInv, TypeOK
<1>9. LeftInv'
  BY <1>1, <1>2, <1>3 DEF LeftInv, TypeOK
<1>10. CountInv'
  BY <1>3 DEF CountInv
<1>. QED BY <1>6, <1>7, <1>8, <1>9, <1>10

(* A request reads its job, and leaves it alone unless it is open.          *)
LEMMA RequestReadsKeeps ==
  ASSUME JobsInv, NEW q \in Requests, RequestReads(q)
  PROVE  JobsInv'
<1>. USE DEF JobsInv
<1>1. q \in Calls /\ q \notin cut /\ q # Nobody /\ pc[q] = "idle"
  BY DEF RequestReads, LockInv, Calls
<1>2. \A j \in Jobs : holder[j] # q
  BY <1>1 DEF LockInv
<1>3. todo[q] = {}
  BY <1>1, <1>2 DEF BatchInv, TypeOK
<1>4. UNCHANGED <<row, work, holder, ran, overwritten, faults>>
  BY DEF RequestReads, tableVars, historyVars
<1>5. CASE \E j \in Jobs :
             /\ row[j].status \in Open
             /\ pc' = [pc EXCEPT ![q] = "updating"]
             /\ job' = [job EXCEPT ![q] = j]
             /\ seen' = [seen EXCEPT ![q] = row[j].attempts]
             /\ UNCHANGED <<todo, cut>>
  <2>1. PICK j \in Jobs :
             /\ row[j].status \in Open
             /\ pc' = [pc EXCEPT ![q] = "updating"]
             /\ job' = [job EXCEPT ![q] = j]
             /\ seen' = [seen EXCEPT ![q] = row[j].attempts]
             /\ UNCHANGED <<todo, cut>>
    BY <1>5
  <2>2. row[j].attempts \in 0..MaxAttempts /\ row[j].attempts < MaxAttempts /\ row[j].status # "none"
    BY <2>1 DEF TypeOK, Row, LeftInv, Open
  <2>3. TypeOK'
    BY <1>4, <2>1, <2>2 DEF TypeOK
  <2>4. LockInv'
    BY <1>1, <1>2, <1>4, <2>1 DEF LockInv, TypeOK
  <2>5. BatchInv'
    BY <1>3, <1>4, <2>1 DEF BatchInv, TypeOK
  <2>6. LeftInv'
    BY <1>1, <1>4, <2>1, <2>2 DEF LeftInv, TypeOK
  <2>7. CountInv'
    BY <1>4 DEF CountInv
  <2>. QED BY <2>3, <2>4, <2>5, <2>6, <2>7
<1>6. CASE Ends(q)
  <2>. USE DEF Ends
  <2>1. TypeOK'
    BY <1>1, <1>4, <1>6 DEF TypeOK, Ended
  <2>2. LockInv'
    BY <1>1, <1>2, <1>4, <1>6 DEF LockInv, TypeOK, Ended
  <2>3. BatchInv'
    BY <1>1, <1>4, <1>6 DEF BatchInv, TypeOK
  <2>4. LeftInv'
    BY <1>4, <1>6 DEF LeftInv, TypeOK, Ended
  <2>5. CountInv'
    BY <1>4 DEF CountInv
  <2>. QED BY <2>1, <2>2, <2>3, <2>4, <2>5
<1>. QED BY <1>5, <1>6 DEF RequestReads

(* A request marks its job as running by what it has read, whatever the row *)
(* has become.                                                              *)
LEMMA RequestUpdatesKeeps ==
  ASSUME JobsInv, NEW q \in Requests, RequestUpdates(q)
  PROVE  JobsInv'
<1>. USE DEF JobsInv
<1>. DEFINE k == job[q]
            n == seen[q]
<1>1. q \in Calls /\ q # Nobody /\ pc[q] = "updating" /\ holder[k] = Nobody
  BY DEF RequestUpdates, Calls
<1>2. k \in Jobs /\ row[k].status # "none" /\ n \in 0..(MaxAttempts - 1)
  BY <1>1 DEF LeftInv, TypeOK
<1>3. q \notin cut /\ \A j \in Jobs : holder[j] # q
  BY <1>1 DEF LockInv
<1>4. todo[q] = {} /\ UNCHANGED todo
  BY <1>1, <1>3 DEF BatchInv, TypeOK, RequestUpdates
<1>5. work[k] = row[k]
  BY <1>1, <1>2 DEF LockInv
<1>6. /\ holder' \in [Jobs -> Calls \cup {Nobody}] /\ holder'[k] = q
      /\ \A j \in Jobs \ {k} : holder'[j] = holder[j]
  BY <1>1, <1>2 DEF RequestUpdates, Locks, TypeOK
<1>7. row[k].attempts \in Nat /\ n \in Nat /\ overwritten[k] \in Nat
  BY <1>2 DEF TypeOK, Row
<1>8. overwritten' = [overwritten EXCEPT ![k] =
        IF row[k].attempts - n > 0 THEN overwritten[k] + (row[k].attempts - n) ELSE overwritten[k]]
  BY <1>2 DEF RequestUpdates, TypeOK
<1>9. /\ overwritten' \in [Jobs -> Nat]
      /\ \A j \in Jobs : overwritten'[j] >= overwritten[j]
      /\ row[k].attempts + overwritten[k] <= n + overwritten'[k]
  BY <1>2, <1>7, <1>8 DEF TypeOK
<1>10. Attempts(q, k, n)
  BY DEF RequestUpdates
<1>11. todo' \in [Calls -> SUBSET Jobs] /\ todo'[q] = todo[q] \ {k} /\ \A d \in Calls \ {q} : todo'[d] = todo[d]
  BY <1>4 DEF TypeOK
<1>. HIDE DEF k, n
<1>. QED BY <1>1, <1>2, <1>5, <1>6, <1>9, <1>10, <1>11, AttemptKeeps

(* A transaction is rolled back: its rows are as they were committed.       *)
LEMMA RollsBackRows ==
  ASSUME JobsInv, NEW C \in SUBSET Calls, RollsBack(C)
  PROVE  /\ UNCHANGED <<row, ran, overwritten>> /\ faults' = faults + 1 /\ faults' \in 0..MaxFaults
         /\ work' \in [Jobs -> Row] /\ holder' \in [Jobs -> Calls \cup {Nobody}]
         /\ \A j \in Jobs : holder[j] \in C => work'[j] = row[j] /\ holder'[j] = Nobody
         /\ \A j \in Jobs : holder[j] \notin C => work'[j] = work[j] /\ holder'[j] = holder[j]
         /\ CountInv'
<1>. USE DEF JobsInv
<1>1. /\ UNCHANGED <<row, ran, overwritten>> /\ faults' = faults + 1 /\ faults' \in 0..MaxFaults
      /\ work' \in [Jobs -> Row] /\ holder' \in [Jobs -> Calls \cup {Nobody}]
      /\ \A j \in Jobs : holder[j] \in C => work'[j] = row[j] /\ holder'[j] = Nobody
      /\ \A j \in Jobs : holder[j] \notin C => work'[j] = work[j] /\ holder'[j] = holder[j]
  BY DEF RollsBack, Restores, HeldBy, TypeOK
<1>2. CountInv'
  BY <1>1 DEF CountInv, TypeOK, Row
<1>. QED BY <1>1, <1>2

(* A call fails, and gives up what it has done.                             *)
LEMMA FailsKeeps ==
  ASSUME JobsInv, NEW c \in Calls, Fails(c)
  PROVE  JobsInv'
<1>. USE DEF JobsInv, Ends
<1>1. c \notin cut /\ c # Nobody /\ Ends(c)
  BY DEF Fails, Calls
<1>2. /\ UNCHANGED <<row, ran, overwritten>> /\ faults' \in 0..MaxFaults
      /\ work' \in [Jobs -> Row] /\ holder' \in [Jobs -> Calls \cup {Nobody}]
      /\ \A j \in Jobs : holder[j] = c => work'[j] = row[j] /\ holder'[j] = Nobody
      /\ \A j \in Jobs : holder[j] # c => work'[j] = work[j] /\ holder'[j] = holder[j]
      /\ CountInv'
  BY RollsBackRows DEF Fails
<1>3. TypeOK'
  BY <1>1, <1>2 DEF TypeOK, Ended
<1>4. LockInv'
  BY <1>1, <1>2 DEF LockInv, TypeOK, Ended
<1>5. BatchInv'
  BY <1>1, <1>2 DEF BatchInv, TypeOK
<1>6. LeftInv'
  BY <1>1, <1>2 DEF LeftInv, TypeOK, Ended
<1>. QED BY <1>2, <1>3, <1>4, <1>5, <1>6

(* A connection is lost, and the call goes on without its locks.            *)
LEMMA LosesConnectionKeeps ==
  ASSUME JobsInv, NEW c \in Calls, LosesConnection(c)
  PROVE  JobsInv'
<1>. USE DEF JobsInv
<1>1. /\ c # Nobody /\ pc[c] = "executing" /\ cut' = cut \cup {c}
      /\ UNCHANGED <<pc, todo, job, seen>>
  BY DEF LosesConnection, Calls
<1>2. /\ UNCHANGED <<row, ran, overwritten>> /\ faults' \in 0..MaxFaults
      /\ work' \in [Jobs -> Row] /\ holder' \in [Jobs -> Calls \cup {Nobody}]
      /\ \A j \in Jobs : holder[j] = c => work'[j] = row[j] /\ holder'[j] = Nobody
      /\ \A j \in Jobs : holder[j] # c => work'[j] = work[j] /\ holder'[j] = holder[j]
      /\ CountInv'
  BY RollsBackRows DEF LosesConnection
<1>3. TypeOK'
  BY <1>1, <1>2 DEF TypeOK
<1>4. LockInv'
  BY <1>1, <1>2 DEF LockInv, TypeOK
<1>5. BatchInv'
  BY <1>1, <1>2 DEF BatchInv, TypeOK
<1>6. LeftInv'
  BY <1>1, <1>2 DEF LeftInv, TypeOK
<1>. QED BY <1>2, <1>3, <1>4, <1>5, <1>6

(* A call finds its connection lost: it holds nothing any more.             *)
LEMMA NoticesKeeps ==
  ASSUME JobsInv, NEW c \in Calls, Notices(c)
  PROVE  JobsInv'
<1>. USE DEF JobsInv, Notices, Ends, tableVars, historyVars
<1>1. \A j \in Jobs : holder[j] # c
  BY DEF LockInv, Calls
<1>2. TypeOK'
  BY DEF TypeOK, Ended
<1>3. LockInv'
  BY <1>1 DEF LockInv, TypeOK, Ended
<1>4. BatchInv'
  BY DEF BatchInv, TypeOK
<1>5. LeftInv'
  BY DEF LeftInv, TypeOK, Ended
<1>6. CountInv'
  BY DEF CountInv
<1>. QED BY <1>2, <1>3, <1>4, <1>5, <1>6

(* A restart rolls back every transaction there is.                         *)
LEMMA RestartKeeps ==
  ASSUME JobsInv, Restart
  PROVE  JobsInv'
<1>. USE DEF JobsInv
<1>1. /\ UNCHANGED <<row, ran, overwritten>> /\ faults' \in 0..MaxFaults
      /\ work' \in [Jobs -> Row] /\ holder' \in [Jobs -> Calls \cup {Nobody}]
      /\ \A j \in Jobs : holder[j] \in Calls => work'[j] = row[j] /\ holder'[j] = Nobody
      /\ \A j \in Jobs : holder[j] \notin Calls => work'[j] = work[j] /\ holder'[j] = holder[j]
      /\ CountInv'
  BY RollsBackRows DEF Restart
<1>2. \A j \in Jobs : work'[j] = row[j] /\ holder'[j] = Nobody
  BY <1>1 DEF LockInv, TypeOK
<1>3. /\ pc' \in [Calls -> {"idle", "done"}]
      /\ todo' = [c \in Calls |-> {}] /\ job' = [c \in Calls |-> NoJob]
      /\ seen' = [c \in Calls |-> 0] /\ cut' = {}
  BY DEF Restart, Ended
<1>4. TypeOK'
  BY <1>1, <1>3 DEF TypeOK
<1>5. LockInv'
  BY <1>1, <1>2, <1>3 DEF LockInv
<1>6. BatchInv'
  BY <1>3 DEF BatchInv
<1>7. LeftInv'
  BY <1>1, <1>2, <1>3 DEF LeftInv
<1>. QED BY <1>1, <1>4, <1>5, <1>6, <1>7

(* Nothing changes.                                                         *)
LEMMA StutterKeeps ==
  ASSUME JobsInv, UNCHANGED vars
  PROVE  JobsInv'
<1>. USE DEF vars, tableVars, callVars, historyVars
<1>1. TypeOK'
  BY DEF JobsInv, TypeOK
<1>2. LockInv'
  BY DEF JobsInv, LockInv
<1>3. BatchInv'
  BY DEF JobsInv, BatchInv
<1>4. LeftInv'
  BY DEF JobsInv, LeftInv
<1>5. CountInv'
  BY DEF JobsInv, CountInv
<1>. QED BY <1>1, <1>2, <1>3, <1>4, <1>5 DEF JobsInv

-----------------------------------------------------------------------------

(* The invariant is inductive: every step of a call, of a client, of time   *)
(* and of a failure keeps it.                                               *)
THEOREM JobsInvariant == Spec => []JobsInv
<1>1. JobsInv /\ [Next]_vars => JobsInv'
  <2>. SUFFICES ASSUME JobsInv, [Next]_vars PROVE JobsInv'
    OBVIOUS
  <2>1. ASSUME NEW j \in Jobs, Enqueues(j) \/ BecomesDue(j) PROVE JobsInv'
    BY <2>1, EnqueuesKeeps, BecomesDueKeeps
  <2>2. ASSUME NEW c \in Calls, Goes(c) PROVE JobsInv'
    BY <2>2, FinishesKeeps, CommitsKeeps, NoticesKeeps DEF Goes
  <2>3. ASSUME NEW r \in Runners, FindsNothing(r) \/ Runs(r) PROVE JobsInv'
    <3>1. CASE FindsNothing(r)
      BY <3>1, StutterKeeps DEF FindsNothing
    <3>2. CASE Selects(r) \/ RunsNext(r)
      BY <3>2, SelectsKeeps, RunsNextKeeps
    <3>3. CASE Goes(r)
      BY <3>3, <2>2 DEF Calls
    <3>. QED BY <2>3, <3>1, <3>2, <3>3 DEF Runs
  <2>4. ASSUME NEW q \in Requests, RequestReads(q) \/ Requested(q) PROVE JobsInv'
    <3>1. CASE RequestReads(q)
      BY <3>1, RequestReadsKeeps
    <3>2. CASE RequestUpdates(q)
      BY <3>2, RequestUpdatesKeeps
    <3>3. CASE Goes(q)
      BY <3>3, <2>2 DEF Calls
    <3>. QED BY <2>4, <3>1, <3>2, <3>3 DEF Requested
  <2>5. ASSUME NEW c \in Calls, Fails(c) \/ LosesConnection(c) PROVE JobsInv'
    BY <2>5, FailsKeeps, LosesConnectionKeeps
  <2>6. CASE Restart
    BY <2>6, RestartKeeps
  <2>7. CASE UNCHANGED vars
    BY <2>7, StutterKeeps
  <2>. QED BY <2>1, <2>3, <2>4, <2>5, <2>6, <2>7 DEF Next
<1>. QED BY InitKeeps, <1>1, PTL DEF Spec

(* The rows, the calls and the locks keep their types, whatever fails.      *)
THEOREM TypeCorrect == Spec => []TypeOK
<1>1. JobsInv => TypeOK
  BY DEF JobsInv
<1>. QED BY JobsInvariant, <1>1, PTL

(* OneAtATime: no job is executed by two calls that both still have their   *)
(* connection, for any number of runners and of calls of run-once.          *)
THEOREM OneCallAtATime == Spec => []OneAtATime
<1>1. JobsInv => OneAtATime
  BY DEF JobsInv, LockInv, OneAtATime
<1>. QED BY JobsInvariant, <1>1, PTL

(* AttemptsBounded: max_attempts bounds the executions of a job, but for    *)
(* the lost transactions and the overwritten attempts.                      *)
THEOREM AttemptsAreBounded == Spec => []AttemptsBounded
<1>1. JobsInv => AttemptsBounded
  BY DEF JobsInv, CountInv, TypeOK, Row, AttemptsBounded
<1>. QED BY JobsInvariant, <1>1, PTL
=============================================================================
