-------------------------- MODULE ArtifactTasksProofs --------------------------
(***************************************************************************)
(* Proofs about ArtifactTasks: types, leases and locks, deliveries, the    *)
(* promise, verification, and that no task is stranded.                    *)
(***************************************************************************)
EXTENDS ArtifactTasks, TLAPS

-----------------------------------------------------------------------------
(* Types.                                                                  *)

Rows == [status: Statuses, node: Nodes]

\* A step is only verified when it is one of the plan, and a lease that is
\* alive is somebody's.
StepKnown ==
  \A w \in Workers : pc[w] \in {"result", "verified", "checkpoint"} => mem[w].step \in Steps
LeaseOwned == lease.live => lease.owner \in Runners

TypeInv == TypeOK /\ StepKnown /\ LeaseOwned

\* What the events make of a view is a view.
LEMMA EventTypes ==
  ASSUME NEW v \in Views, NEW s \in Steps \cup {Gate}, NEW n \in Nodes,
         NEW d \in SUBSET Steps, NEW k \in Nat
  PROVE  /\ Selected(v, s) \in Views /\ Packet(v, s) \in Views /\ Result(v, s) \in Views
         /\ s \in Steps => Verified(v, s) \in Views
         /\ Checkpoint(v, n, d) \in Views /\ Stopped(v) \in Views /\ Asked(v, s) \in Views
         /\ Answered(v) \in Views /\ Planned(v, k) \in Views /\ Validated(v) \in Views
         /\ Evaluated(v) \in Views /\ Completed(v) \in Views /\ Cancelled(v) \in Views
<1>. USE DEF Views, Nodes, Statuses
<1>1. Selected(v, s) \in Views /\ Packet(v, s) \in Views /\ Result(v, s) \in Views
  BY DEF Selected, Packet, Result
<1>2. s \in Steps => Verified(v, s) \in Views
  BY DEF Verified
<1>3. Checkpoint(v, n, d) \in Views /\ Stopped(v) \in Views /\ Asked(v, s) \in Views
  BY DEF Checkpoint, Stopped, Asked
<1>4. Answered(v) \in Views /\ Planned(v, k) \in Views /\ Validated(v) \in Views
  BY DEF Answered, Planned, Validated
<1>5. Evaluated(v) \in Views /\ Completed(v) \in Views /\ Cancelled(v) \in Views
  BY DEF Evaluated, Completed, Cancelled
<1>. QED BY <1>1, <1>2, <1>3, <1>4, <1>5

LEMMA Union ==
  ASSUME NEW S, NEW A \in SUBSET S, NEW B \in SUBSET S
  PROVE  A \cup B \in SUBSET S
  OBVIOUS

\* The fields of a view.
LEMMA ViewFields ==
  ASSUME NEW v \in Views
  PROVE  v.status \in Statuses /\ v.node \in Nodes /\ v.step \in Steps \cup {Gate}
         /\ v.done \subseteq Steps /\ v.plan \in Nat
  BY DEF Views

LEMMA RowTypes ==
  ASSUME row \in Rows, NEW n \in Nodes
  PROVE  AtNode(n) \in Rows
  BY DEF Rows, AtNode

\* The log and the row keep their types when an event is appended.
LEMMA AppendTypes ==
  ASSUME TypeOK, NEW v \in Views, NEW r \in Rows, NEW key \in Keys,
         AppendsAlways(v, r) \/ AppendsOnce(key, v, r)
  PROVE  view' \in Views /\ keys' \subseteq Keys /\ row' \in Rows
  BY DEF AppendsAlways, AppendsOnce, TypeOK, Rows, logVars

LEMMA SpendType ==
  ASSUME TypeOK, NEW k \in Kinds, Spend(k)
  PROVE  used' \in [Kinds -> Nat]
  BY DEF Spend, TypeOK

LEMMA GoesType ==
  ASSUME TypeOK, NEW w \in Workers, NEW x \in Points, Goes(w, x)
  PROVE  pc' \in [Runners -> Points] /\ used' \in [Kinds -> Nat]
<1>1. "fault" \in Kinds /\ "block" \in Points /\ w \in Runners
  BY DEF Kinds, Points, Runners
<1>. QED BY <1>1, SpendType DEF Goes, TypeOK

\* What the loop around run_task does to the types.
LEMMA LoopTypes ==
  ASSUME TypeInv, NEW p \in Runners, Scans(p) \/ Claims(p) \/ Loop(p) \/ Fails(p)
  PROVE  TypeInv'
<1>. USE DEF TypeInv, StepKnown, LeaseOwned, logVars, leaseVars, artifactVars, turnVars,
             localVars, requestVars, fileVars
<1>1. CASE Scans(p)
  BY <1>1 DEF Scans, TypeOK, Points, RunPoints
<1>2. CASE Claims(p)
  BY <1>2 DEF Claims, TypeOK, Points, RunPoints
<1>3. CASE ClaimRefused(p)
  BY <1>3 DEF ClaimRefused, TypeOK, Points, RunPoints
<1>4. CASE Releases(p)
  <2>1. lease' \in [owner: Runners \cup {NoOne}, live: BOOLEAN] /\ (lease'.live => lease'.owner \in Runners)
    <3>1. CASE Owns(p)
      <4>1. lease' = [owner |-> NoOne, live |-> FALSE]
        BY <1>4, <3>1 DEF Releases
      <4>. QED BY <4>1
    <3>2. CASE ~Owns(p)
      BY <1>4, <3>2 DEF Releases, TypeOK
    <3>. QED BY <3>1, <3>2
  <2>2. pc' \in [Runners -> Points] /\ lapsed' \subseteq Runners
    BY <1>4 DEF Releases, TypeOK, Points
  <2>3. StepKnown'
    BY <1>4 DEF Releases, TypeOK
  <2>. QED BY <1>4, <2>1, <2>2, <2>3 DEF Releases, TypeOK
<1>5. CASE Recovers(p)
  BY <1>5 DEF Recovers, TypeOK, Points, RunPoints
<1>6. CASE SyncLocks(p)
  BY <1>6 DEF SyncLocks, TypeOK, Points, RunPoints
<1>7. CASE Syncs(p)
  <2>1. mem[p].status \in Statuses /\ mem[p].node \in Nodes
    BY ViewFields DEF TypeOK
  <2>. QED BY <1>7, <2>1 DEF Syncs, Materialized, TypeOK, Points, RunPoints
<1>8. CASE Fails(p)
  <2>1. used' \in [Kinds -> Nat]
    BY <1>8, SpendType DEF Fails, Kinds
  <2>. QED BY <1>8, <2>1 DEF Fails, TypeOK, Points, RunPoints
<1>. QED BY <1>1, <1>2, <1>3, <1>4, <1>5, <1>6, <1>7, <1>8 DEF Loop

LEMMA WorkerLoopTypes ==
  ASSUME TypeInv, NEW w \in Workers, WorkerLoop(w) \/ Crash(w)
  PROVE  TypeInv'
<1>. USE DEF TypeInv, StepKnown, LeaseOwned, logVars, leaseVars, artifactVars, turnVars,
             localVars, requestVars, fileVars, Runners
<1>1. CASE Starts(w)
  BY <1>1 DEF Starts, TypeOK, Points, RunPoints, Steps
<1>2. CASE Commits(w)
  <2>1. used' \in [Kinds -> Nat]
    BY <1>2, SpendType DEF Commits, Kinds, TypeOK
  <2>2. taskRun' \in [status: Statuses, artifact: Nat] /\ stored' \subseteq Nat /\ tx' \in [Workers -> Nat]
    <3>1. CASE tx[w] = 0
      BY <1>2, <3>1 DEF Commits, TypeOK
    <3>2. CASE tx[w] # 0
      <4>1. stored \subseteq Nat /\ tx \in [Workers -> Nat] /\ tx[w] \in Nat
        BY DEF TypeOK
      <4>2. stored' = stored \cup {tx[w]} /\ tx' = [tx EXCEPT ![w] = 0]
            /\ taskRun' = [status |-> "running", artifact |-> tx[w]]
        BY <1>2, <3>2 DEF Commits
      <4>. QED BY <4>1, <4>2 DEF Statuses
    <3>. QED BY <3>1, <3>2
  <2>3. pc' \in [Runners -> Points] /\ StepKnown'
    BY <1>2 DEF Commits, TypeOK, Points
  <2>. QED BY <1>2, <2>1, <2>2, <2>3 DEF Commits, TypeOK
<1>3. CASE ReadsAgain(w)
  BY <1>3 DEF ReadsAgain, TypeOK, Points, RunPoints
<1>4. CASE DeliveryLooks(w)
  BY <1>4 DEF DeliveryLooks, TypeOK, Points, RunPoints
<1>5. CASE Delivers(w)
  <2>1. turns' \in Nat /\ delivered' \subseteq Nat
    <3>1. Named(w) \subseteq Nat
      <4>1. art[w] \in Nat /\ stored \subseteq Nat
        BY DEF TypeOK
      <4>2. Named(w) = {art[w]} \/ Named(w) = stored
        BY Zenon DEF Named
      <4>. QED BY <4>1, <4>2
    <3>2. turns \in Nat /\ delivered \subseteq Nat
      BY DEF TypeOK
    <3>3. turns' = turns + 1 /\ delivered' = delivered \cup Named(w)
      BY <1>5 DEF Delivers
    <3>4. delivered \cup Named(w) \in SUBSET Nat
      BY <3>1, <3>2, Union
    <3>. QED BY <3>2, <3>3, <3>4
  <2>2. pc' \in [Runners -> Points] /\ StepKnown'
    BY <1>5 DEF Delivers, TypeOK, Points
  <2>. QED BY <1>5, <2>1, <2>2 DEF Delivers, TypeOK
<1>6. CASE Crash(w)
  <2>1. used' \in [Kinds -> Nat]
    BY <1>6, SpendType DEF Crash, Kinds
  <2>. QED BY <1>6, <2>1 DEF Crash, TypeOK, Points, RunPoints
<1>. QED BY <1>1, <1>2, <1>3, <1>4, <1>5, <1>6 DEF WorkerLoop

LEMMA RequestTypes ==
  ASSUME TypeInv,
         LeaseRunsOut \/ Overruns \/ Cancel \/ HumanInput \/ AnswerFinds \/ Answering
           \/ CrashApi
  PROVE  TypeInv'
<1>. USE DEF TypeInv, StepKnown, LeaseOwned, leaseVars, artifactVars, turnVars,
             localVars, requestVars, fileVars, runnerVars
<1>1. CASE LeaseRunsOut
  BY <1>1 DEF LeaseRunsOut, TypeOK, logVars
<1>2. CASE Overruns
  <2>1. used' \in [Kinds -> Nat]
    BY <1>2, SpendType DEF Overruns, Kinds
  <2>. QED BY <1>2, <2>1 DEF Overruns, TypeOK, logVars
<1>3. CASE CrashApi
  <2>1. used' \in [Kinds -> Nat]
    BY <1>3, SpendType DEF CrashApi, Kinds
  <2>. QED BY <1>3, <2>1 DEF CrashApi, TypeOK, logVars, Points, RunPoints, Requests, Runners
<1>4. CASE AnswerFinds
  <2>1. used' \in [Kinds -> Nat]
    BY <1>4, SpendType DEF AnswerFinds, Kinds
  <2>2. view.done \subseteq Steps
    BY ViewFields DEF TypeOK
  <2>. QED BY <1>4, <2>1, <2>2 DEF AnswerFinds, TypeOK, logVars, Requests
<1>5. CASE Cancel \/ HumanInput \/ Answering
  <2>1. used' \in [Kinds -> Nat]
    BY <1>5, SpendType DEF Cancel, HumanInput, Answering, AnswerRecords, AnswerAsksAgain,
       AnswerPlans, AnswerValidates, AnswerCheckpoints, Kinds, TypeOK
  <2>2. request' \in [at: Requests, done: SUBSET Steps] /\ answers' \in Nat
    BY <1>5 DEF Cancel, HumanInput, Answering, AnswerRecords, AnswerAsksAgain,
       AnswerPlans, AnswerValidates, AnswerCheckpoints, TypeOK, Requests
  <2>3. view' \in Views /\ keys' \subseteq Keys /\ row' \in Rows
    <3>1. /\ "select_step" \in Nodes /\ "waiting_for_human_input" \in Nodes
          /\ Gate \in Steps \cup {Gate} /\ row \in Rows
          /\ [status |-> "running", node |-> "select_step"] \in Rows
      BY DEF Nodes, Rows, Statuses, TypeOK
    <3>2. <<"plan", Gate>> \in Keys /\ <<"validated", Gate>> \in Keys /\ <<"checkpoint", Gate>> \in Keys
      BY DEF Keys
    <3>3. /\ Cancelled(view) \in Views /\ Answered(view) \in Views /\ Asked(view, Gate) \in Views
          /\ Planned(view, answers) \in Views /\ Validated(view) \in Views
          /\ Checkpoint(view, "select_step", request.done) \in Views
      BY <3>1, EventTypes DEF TypeOK
    <3>4. AtNode("select_step") \in Rows /\ AtNode("waiting_for_human_input") \in Rows
      BY <3>1, RowTypes
    <3>. QED
      BY <1>5, <3>1, <3>2, <3>3, <3>4, AppendTypes DEF Cancel, HumanInput, Answering,
         AnswerRecords, AnswerAsksAgain, AnswerPlans, AnswerValidates, AnswerCheckpoints
  <2>4. UNCHANGED runnerVars
    BY <1>5 DEF Cancel, HumanInput, Answering, AnswerRecords, AnswerAsksAgain,
       AnswerPlans, AnswerValidates, AnswerCheckpoints
  <2>. QED BY <2>1, <2>2, <2>3, <2>4 DEF TypeOK, Rows
<1>. QED BY <1>1, <1>2, <1>3, <1>4, <1>5

\* What run_task does to them.
LEMMA PlanTypes ==
  ASSUME TypeInv, NEW w \in Workers
  PROVE  /\ mem[w] \in Views /\ w \in Runners /\ row \in Rows /\ view \in Views
         /\ NextStep(mem[w]) \in Steps
         /\ \A s \in Steps : /\ <<"selected", s>> \in Keys /\ <<"packet", s>> \in Keys
                            /\ <<"checkpoint", s>> \in Keys
         /\ <<"completed", Gate>> \in Keys
         /\ AtNode("awaiting_executor") \in Rows /\ AtNode("waiting_for_human_input") \in Rows
<1>1. mem[w] \in Views /\ w \in Runners /\ row \in Rows /\ view \in Views
  BY DEF TypeInv, TypeOK, Rows, Runners
<1>2. NextStep(mem[w]) \in Steps
  BY DEF NextStep, Steps
<1>3. \A s \in Steps : <<"selected", s>> \in Keys /\ <<"packet", s>> \in Keys /\ <<"checkpoint", s>> \in Keys
  BY DEF Keys
<1>4. <<"completed", Gate>> \in Keys
  BY DEF Keys
<1>5. "awaiting_executor" \in Nodes /\ "waiting_for_human_input" \in Nodes
  BY DEF Nodes
<1>. QED BY <1>1, <1>2, <1>3, <1>4, <1>5, RowTypes

\* A step that appends an event and leaves everything but its own place as it was.
LEMMA AppendStepTypes ==
  ASSUME TypeInv, NEW w \in Workers, NEW v \in Views, NEW r \in Rows, NEW key \in Keys,
         AppendsAlways(v, r) \/ AppendsOnce(key, v, r),
         NEW x \in Points, Goes(w, x),
         x \in {"result", "verified", "checkpoint"} => mem[w].step \in Steps,
         UNCHANGED <<leaseVars, locked, artifactVars, turnVars, localVars, requestVars, fileVars>>
  PROVE  TypeInv'
<1>1. view' \in Views /\ keys' \subseteq Keys /\ row' \in Rows
  BY AppendTypes DEF TypeInv
<1>2. pc' \in [Runners -> Points] /\ used' \in [Kinds -> Nat]
  BY GoesType DEF TypeInv
<1>3. StepKnown'
  BY DEF TypeInv, TypeOK, StepKnown, Goes, Runners, localVars
<1>. QED
  BY <1>1, <1>2, <1>3 DEF TypeInv, TypeOK, LeaseOwned, Rows, leaseVars, artifactVars, turnVars,
     localVars, requestVars, fileVars

LEMMA RunTaskAppends ==
  ASSUME TypeInv, NEW w \in Workers,
         SelectsStep(w) \/ ReturnsResult(w) \/ RecordsVerified(w) \/ EvaluatesFinal(w)
           \/ CompletesTask(w)
  PROVE  TypeInv'
<1>. USE PlanTypes, EventTypes
<1>1. {"packet", "verified", "checkpoint", "complete", "commit"} \subseteq Points
  BY DEF Points, RunPoints
<1>2. CASE SelectsStep(w)
  <2>. DEFINE s == NextStep(mem[w])
  <2>1. Selected(view, s) \in Views /\ <<"selected", s>> \in Keys
    BY DEF Nodes
  <2>2. AppendsOnce(<<"selected", s>>, Selected(view, s), row) /\ Goes(w, "packet")
    BY <1>2 DEF SelectsStep
  <2>. QED BY <1>1, <1>2, <2>1, <2>2, AppendStepTypes DEF SelectsStep
<1>3. CASE ReturnsResult(w)
  <2>. DEFINE s == mem[w].step
  <2>1. s \in Steps
    BY <1>3 DEF ReturnsResult, TypeInv, StepKnown
  <2>2. Result(view, s) \in Views
    BY <2>1 DEF Nodes
  <2>3. AppendsAlways(Result(view, s), row) /\ Goes(w, "verified")
    BY <1>3 DEF ReturnsResult
  <2>. QED BY <1>1, <1>3, <2>1, <2>2, <2>3, AppendStepTypes DEF ReturnsResult
<1>4. CASE RecordsVerified(w)
  <2>. DEFINE s == mem[w].step
  <2>1. s \in Steps
    BY <1>4 DEF RecordsVerified, TypeInv, StepKnown
  <2>2. Verified(view, s) \in Views
    BY <2>1 DEF Nodes
  <2>3. AppendsAlways(Verified(view, s), row) /\ Goes(w, "checkpoint")
    BY <1>4 DEF RecordsVerified
  <2>. QED BY <1>1, <1>4, <2>1, <2>2, <2>3, AppendStepTypes DEF RecordsVerified
<1>5. CASE EvaluatesFinal(w)
  <2>1. Evaluated(view) \in Views
    BY DEF Nodes
  <2>2. PICK x \in {"complete", "commit"} : Goes(w, x)
    BY <1>5 DEF EvaluatesFinal
  <2>3. AppendsAlways(Evaluated(view), row)
    BY <1>5 DEF EvaluatesFinal
  <2>. QED BY <1>1, <1>5, <2>1, <2>2, <2>3, AppendStepTypes DEF EvaluatesFinal
<1>6. CASE CompletesTask(w)
  <2>1. Completed(view) \in Views
    BY DEF Nodes
  <2>2. AppendsOnce(<<"completed", Gate>>, Completed(view), row) /\ Goes(w, "commit")
    BY <1>6 DEF CompletesTask
  <2>. QED BY <1>1, <1>6, <2>1, <2>2, AppendStepTypes DEF CompletesTask
<1>. QED BY <1>2, <1>3, <1>4, <1>5, <1>6

LEMMA RunTaskTypes ==
  ASSUME TypeInv, NEW w \in Workers, RunTask(w)
  PROVE  TypeInv'
<1>. USE DEF TypeInv, StepKnown, LeaseOwned, logVars, leaseVars, artifactVars, turnVars,
             localVars, requestVars, fileVars
<1>0. /\ mem[w] \in Views /\ w \in Runners /\ row \in Rows /\ view \in Views
      /\ NextStep(mem[w]) \in Steps
  BY PlanTypes
<1>1. CASE SelectsStep(w) \/ ReturnsResult(w) \/ RecordsVerified(w) \/ EvaluatesFinal(w)
             \/ CompletesTask(w)
  BY <1>1, RunTaskAppends
<1>2. CASE BuildsPacket(w)
  <2>. DEFINE s == NextStep(mem[w])
  <2>1. Packet(view, s) \in Views /\ Packet(mem[w], s) \in Views
    BY <1>0, EventTypes DEF Nodes
  <2>2. <<"packet", s>> \in Keys /\ AtNode("awaiting_executor") \in Rows /\ "ensure" \in Points
    BY <1>0, PlanTypes DEF Points, RunPoints
  <2>3. AppendsOnce(<<"packet", s>>, Packet(view, s), AtNode("awaiting_executor")) /\ Goes(w, "ensure")
        /\ mem' = [mem EXCEPT ![w] = Packet(mem[w], s)]
    BY <1>2 DEF BuildsPacket
  <2>4. view' \in Views /\ keys' \subseteq Keys /\ row' \in Rows
    BY <2>1, <2>2, <2>3, AppendTypes
  <2>5. pc' \in [Runners -> Points] /\ used' \in [Kinds -> Nat]
    BY <2>2, <2>3, GoesType
  <2>6. mem' \in [Runners -> Views]
    BY <2>1, <2>3 DEF TypeOK
  <2>7. StepKnown'
    BY <1>0, <2>3 DEF Goes, TypeOK, Runners
  <2>. QED BY <1>2, <2>4, <2>5, <2>6, <2>7 DEF BuildsPacket, TypeOK, Rows
<1>3. CASE CannotGoOn(w)
  BY <1>0, <1>3 DEF CannotGoOn, TypeOK, Points
<1>4. CASE GatherPacket(w)
  <2>1. CASE mem[w].step = Gather
    <3>1. pc' = [pc EXCEPT ![w] = "result"] /\ UNCHANGED <<stage, mem>>
      BY <1>4, <2>1 DEF GatherPacket
    <3>2. pc' \in [Runners -> Points]
      BY <3>1 DEF TypeOK, Points, RunPoints
    <3>3. StepKnown'
      BY <1>0, <2>1, <3>1 DEF TypeOK, Steps
    <3>. QED BY <1>4, <3>1, <3>2, <3>3 DEF GatherPacket, TypeOK
  <2>2. CASE mem[w].step # Gather
    <3>1. /\ \E x \in {"load", "ensure"} : pc' = [pc EXCEPT ![w] = x]
          /\ UNCHANGED stage \/ stage' = [stage EXCEPT ![w] = Generate]
          /\ UNCHANGED mem
      BY <1>4, <2>2 DEF GatherPacket, AfterGather
    <3>2. pc' \in [Runners -> Points]
      BY <3>1 DEF TypeOK, Points, RunPoints
    <3>3. stage' \in [Workers -> Steps]
      BY <3>1 DEF TypeOK, Steps
    <3>4. StepKnown'
      BY <1>0, <3>1 DEF TypeOK
    <3>. QED BY <1>4, <3>2, <3>3, <3>4 DEF GatherPacket, TypeOK
  <2>. QED BY <2>1, <2>2
<1>5. CASE LoadsArtifact(w)
  <2>1. taskRun.artifact \in Nat
    BY DEF TypeOK
  <2>2. pc' \in [Runners -> Points] /\ stage' \in [Workers -> Steps] /\ art' \in [Workers -> Nat]
        /\ StepKnown'
    <3>1. /\ \E x \in {"block", "ensure"} : pc' = [pc EXCEPT ![w] = x]
          /\ UNCHANGED stage \/ stage' = [stage EXCEPT ![w] = Verify]
          /\ UNCHANGED art \/ art' = [art EXCEPT ![w] = taskRun.artifact]
          /\ UNCHANGED mem
      BY <1>5 DEF LoadsArtifact
    <3>2. pc' \in [Runners -> Points]
      BY <3>1 DEF TypeOK, Points, RunPoints
    <3>3. stage' \in [Workers -> Steps] /\ art' \in [Workers -> Nat]
      BY <2>1, <3>1 DEF TypeOK, Steps
    <3>4. StepKnown'
      BY <1>0, <3>1 DEF TypeOK
    <3>. QED BY <3>2, <3>3, <3>4
  <2>. QED BY <1>5, <2>2 DEF LoadsArtifact, TypeOK
<1>6. CASE StoresArtifact(w)
  <2>1. made' \in Nat /\ art' \in [Workers -> Nat] /\ tx' \in [Workers -> Nat]
    BY <1>6 DEF StoresArtifact, TypeOK
  <2>2. pc' \in [Runners -> Points] /\ StepKnown'
    BY <1>0, <1>6 DEF StoresArtifact, GeneratePacket, TypeOK, Points, RunPoints, Steps
  <2>. QED BY <1>6, <2>1, <2>2 DEF StoresArtifact, TypeOK
<1>7. CASE PausesForInput(w)
  <2>1. Asked(view, Generate) \in Views /\ Asked(mem[w], Generate) \in Views
    BY <1>0, EventTypes DEF Nodes, Steps
  <2>2. AtNode("waiting_for_human_input") \in Rows /\ <<"completed", Gate>> \in Keys
    BY PlanTypes
  <2>3. AppendsAlways(Asked(view, Generate), AtNode("waiting_for_human_input"))
        /\ mem' \in {mem, [mem EXCEPT ![w] = Asked(mem[w], Generate)]}
        /\ pc' \in {[pc EXCEPT ![w] = "commit"], [pc EXCEPT ![w] = "block"]}
    BY <1>7 DEF PausesForInput
  <2>4. view' \in Views /\ keys' \subseteq Keys /\ row' \in Rows
    BY <2>1, <2>2, <2>3, AppendTypes
  <2>5. used' \in [Kinds -> Nat]
    BY <1>7 DEF PausesForInput, TypeOK, Kinds
  <2>6. pc' \in [Runners -> Points] /\ mem' \in [Runners -> Views] /\ StepKnown'
    BY <1>0, <2>1, <2>3 DEF TypeOK, Points, Runners
  <2>. QED BY <1>7, <2>4, <2>5, <2>6 DEF PausesForInput, TypeOK, Rows
<1>8. CASE VerifiesArtifact(w)
  <2>1. passed' \subseteq Nat
    <3>1. passed' = passed \cup {art[w]}
      BY <1>8 DEF VerifiesArtifact
    <3>2. {art[w]} \in SUBSET Nat /\ passed \in SUBSET Nat
      BY DEF TypeOK
    <3>. QED BY <3>1, <3>2, Union
  <2>2. pc' \in [Runners -> Points] /\ StepKnown'
    BY <1>0, <1>8 DEF VerifiesArtifact, VerifyPacket, TypeOK, Points, RunPoints, Steps
  <2>. QED BY <1>8, <2>1, <2>2 DEF VerifiesArtifact, TypeOK
<1>9. CASE StepFails(w)
  <2>1. used' \in [Kinds -> Nat]
    BY <1>9, SpendType DEF StepFails, Kinds
  <2>2. pc' \in [Runners -> Points] /\ tx' \in [Workers -> Nat] /\ StepKnown'
    BY <1>0, <1>9 DEF StepFails, TypeOK, Points
  <2>. QED BY <1>9, <2>1, <2>2 DEF StepFails, TypeOK
<1>10. CASE SavesCheckpoint(w)
  <2>. DEFINE s == mem[w].step
              done == mem[w].done \cup {s}
              node == IF done = Steps THEN "final_evaluation" ELSE "select_step"
              m == Checkpoint(mem[w], node, done)
              v == Checkpoint(view, node, done)
  <2>1. s \in Steps /\ done \subseteq Steps
    BY <1>0, <1>10, ViewFields DEF SavesCheckpoint
  <2>2. m \in Views /\ v \in Views
    BY <1>0, <2>1, EventTypes DEF Nodes
  <2>3. AppendsOnce(<<"checkpoint", s>>, v, row) /\ mem' = [mem EXCEPT ![w] = m]
    BY <1>10 DEF SavesCheckpoint
  <2>4. view' \in Views /\ keys' \subseteq Keys /\ row' \in Rows
    BY <1>0, <2>1, <2>2, <2>3, PlanTypes, AppendTypes
  <2>5. mem' \in [Runners -> Views]
    BY <2>2, <2>3 DEF TypeOK
  <2>6. used' \in [Kinds -> Nat] /\ stage' \in [Workers -> Steps]
        /\ \E x \in {"load", "ensure", "final", "block"} : pc' = [pc EXCEPT ![w] = x]
    <3>1. CASE UNCHANGED used /\ s = Gather /\ AfterGather(w, m)
      BY <3>1 DEF AfterGather, TypeOK, Steps
    <3>2. CASE UNCHANGED used /\ stage' = [stage EXCEPT ![w] = Verify] /\ pc' = [pc EXCEPT ![w] = "ensure"]
      BY <3>2 DEF TypeOK, Steps
    <3>3. CASE UNCHANGED <<used, stage>> /\ pc' = [pc EXCEPT ![w] = "final"]
      BY <3>3 DEF TypeOK
    <3>4. CASE pc' = [pc EXCEPT ![w] = "block"] /\ Spend("fault") /\ UNCHANGED stage
      BY <3>4, SpendType DEF TypeOK, Kinds
    <3>5. \/ /\ CASE s = Gather -> AfterGather(w, m)
                  [] s = Generate -> /\ stage' = [stage EXCEPT ![w] = Verify]
                                     /\ pc' = [pc EXCEPT ![w] = "ensure"]
                  [] s = Verify -> pc' = [pc EXCEPT ![w] = "final"] /\ UNCHANGED stage
             /\ UNCHANGED used
          \/ pc' = [pc EXCEPT ![w] = "block"] /\ Spend("fault") /\ UNCHANGED stage
      BY <1>10 DEF SavesCheckpoint
    <3>. HIDE DEF m, s, done, node, v
    <3>. QED BY <2>1, <3>1, <3>2, <3>3, <3>4, <3>5 DEF Steps, Gather, Generate, Verify
  <2>7. pc' \in [Runners -> Points] /\ StepKnown'
    <3>. HIDE DEF m, v
    <3>. QED BY <1>0, <2>3, <2>6 DEF TypeOK, Points, RunPoints, Runners
  <2>. QED BY <1>10, <2>4, <2>5, <2>6, <2>7 DEF SavesCheckpoint, TypeOK, Rows
<1>11. CASE BlocksTask(w)
  <2>1. used' \in [Kinds -> Nat] /\ pc' \in [Runners -> Points] /\ StepKnown'
    <3>1. /\ \E x \in {"commit", "release"} : pc' = [pc EXCEPT ![w] = x]
          /\ UNCHANGED used \/ Spend("fault")
          /\ UNCHANGED mem
      BY <1>11 DEF BlocksTask
    <3>2. pc' \in [Runners -> Points]
      BY <3>1 DEF TypeOK, Points, RunPoints
    <3>3. used' \in [Kinds -> Nat]
      BY <3>1, SpendType DEF Kinds, TypeOK
    <3>4. StepKnown'
      BY <1>0, <3>1 DEF TypeOK
    <3>. QED BY <3>2, <3>3, <3>4
  <2>2. view' \in Views /\ keys' \subseteq Keys /\ row' \in Rows
    BY <1>0, <1>11, EventTypes, AppendTypes, PlanTypes DEF BlocksTask, Nodes
  <2>3. art' \in [Workers -> Nat] /\ tx' \in [Workers -> Nat]
    BY <1>11 DEF BlocksTask, TypeOK
  <2>. QED BY <1>11, <2>1, <2>2, <2>3 DEF BlocksTask, TypeOK, Rows
<1>. QED
  BY <1>1, <1>2, <1>3, <1>4, <1>5, <1>6, <1>7, <1>8, <1>9, <1>10, <1>11 DEF RunTask

LEMMA TypeStep ==
  ASSUME TypeInv, [Next]_vars
  PROVE  TypeInv'
<1>1. CASE UNCHANGED vars
  BY <1>1 DEF vars, TypeInv, TypeOK, StepKnown, LeaseOwned, logVars, leaseVars, artifactVars,
     turnVars, localVars, requestVars, fileVars
<1>2. CASE Next
  BY <1>2, LoopTypes, WorkerLoopTypes, RequestTypes, RunTaskTypes DEF Next
<1>. QED BY <1>1, <1>2

LEMMA TypeInit ==
  ASSUME Init
  PROVE  TypeInv
<1>1. view \in Views /\ keys \subseteq Keys
  BY DEF Init, Views, Statuses, Nodes, Steps, Keys
<1>2. row \in Rows
  BY <1>1, ViewFields DEF Init, Rows, Statuses
<1>3. row.status \in Statuses
  BY <1>2 DEF Rows
<1>. QED
  BY <1>1, <1>2, <1>3 DEF Init, TypeInv, TypeOK, StepKnown, LeaseOwned, Rows, Points, Steps,
     Requests, Runners

\* Every variable keeps its type, for any workers and any faults.
THEOREM TypeCorrect == Spec => []TypeOK
<1>1. Spec => []TypeInv
  BY TypeInit, TypeStep, PTL DEF Spec
<1>2. TypeInv => TypeOK
  BY DEF TypeInv
<1>. QED BY <1>1, <1>2, PTL

-----------------------------------------------------------------------------
(* Leases and locks.                                                       *)

\* What is spent on one thing is not spent on another.
LEMMA SpendsOne ==
  ASSUME TypeInv, NEW k \in Kinds, Spend(k) \/ UNCHANGED used
  PROVE  /\ \A j \in Kinds \ {k} : used'[j] = used[j]
         /\ used'[k] = 0 => used[k] = 0
<1>1. used \in [Kinds -> Nat]
  BY DEF TypeInv, TypeOK
<1>2. CASE UNCHANGED used
  BY <1>2
<1>3. CASE Spend(k)
  BY <1>1, <1>3 DEF Spend
<1>. QED BY <1>2, <1>3

OtherKinds == {"overrun", "cancel", "input", "answer", "crash"}

\* A pause may spend the fault of its lost answer too, and nothing else.
LEMMA PauseSpends ==
  ASSUME TypeInv, NEW w \in Workers, PausesForInput(w)
  PROVE  /\ \A j \in Kinds \ {"fault", "pause"} : used'[j] = used[j]
         /\ \A j \in Kinds : used[j] \in Nat /\ used'[j] \in Nat /\ used[j] <= used'[j]
  BY DEF PausesForInput, TypeInv, TypeOK, Kinds

\* A step of run_task goes on inside it, or leaves it with nothing uncommitted or
\* towards the commit; it touches no lease and no lock.
LEMMA RunTaskMoves ==
  ASSUME TypeInv, NEW w \in Workers, RunTask(w)
  PROVE  /\ pc[w] \in RunPoints \cup {"block"}
         /\ \E x \in RunPoints \cup {"block", "commit", "release"} :
              pc' = [pc EXCEPT ![w] = x] /\ (x = "release" => tx'[w] = 0)
         /\ \A v \in Workers \ {w} : tx'[v] = tx[v]
         /\ \A k \in OtherKinds : used'[k] = used[k]
         /\ UNCHANGED <<leaseVars, locked, artifactVars, turnVars, requestVars>>
<1>. USE DEF localVars
<1>0. tx \in [Workers -> Nat] /\ OtherKinds \subseteq Kinds \ {"fault", "pause"}
      /\ "fault" \in Kinds /\ "pause" \in Kinds
  BY DEF TypeInv, TypeOK, OtherKinds, Kinds
<1>1. \A k \in OtherKinds : used'[k] = used[k]
  <2>1. UNCHANGED used \/ Spend("fault") \/ PausesForInput(w)
    BY DEF RunTask, SelectsStep, BuildsPacket, CannotGoOn, GatherPacket, LoadsArtifact,
       StoresArtifact, VerifiesArtifact, StepFails, ReturnsResult, RecordsVerified,
       SavesCheckpoint, EvaluatesFinal, CompletesTask, BlocksTask, Goes
  <2>2. CASE PausesForInput(w)
    BY <1>0, <2>2, PauseSpends
  <2>. QED BY <1>0, <2>1, <2>2, SpendsOne
<1>2. pc[w] \in RunPoints \cup {"block"}
  BY DEF RunTask, SelectsStep, BuildsPacket, CannotGoOn, GatherPacket, LoadsArtifact,
     StoresArtifact, PausesForInput, VerifiesArtifact, StepFails, ReturnsResult,
     RecordsVerified, SavesCheckpoint, EvaluatesFinal, CompletesTask, BlocksTask,
     HasPacket, GeneratePacket, VerifyPacket, RunPoints
<1>3. UNCHANGED <<leaseVars, locked, artifactVars, turnVars, requestVars>>
  BY DEF RunTask, SelectsStep, BuildsPacket, CannotGoOn, GatherPacket, LoadsArtifact,
     StoresArtifact, PausesForInput, VerifiesArtifact, StepFails, ReturnsResult,
     RecordsVerified, SavesCheckpoint, EvaluatesFinal, CompletesTask, BlocksTask
<1>4. \A v \in Workers \ {w} : tx'[v] = tx[v]
  BY <1>0 DEF RunTask, SelectsStep, BuildsPacket, CannotGoOn, GatherPacket, LoadsArtifact,
     StoresArtifact, PausesForInput, VerifiesArtifact, StepFails, ReturnsResult,
     RecordsVerified, SavesCheckpoint, EvaluatesFinal, CompletesTask, BlocksTask
<1>5. \E x \in RunPoints \cup {"block", "commit", "release"} :
        pc' = [pc EXCEPT ![w] = x] /\ (x = "release" => tx'[w] = 0)
  <2>. USE DEF RunPoints
  <2>1. CASE \/ SelectsStep(w) \/ BuildsPacket(w) \/ ReturnsResult(w) \/ RecordsVerified(w)
             \/ EvaluatesFinal(w) \/ CompletesTask(w)
    BY <2>1 DEF SelectsStep, BuildsPacket, ReturnsResult, RecordsVerified, EvaluatesFinal,
       CompletesTask, Goes
  <2>2. CASE CannotGoOn(w) \/ StoresArtifact(w) \/ PausesForInput(w) \/ VerifiesArtifact(w) \/ StepFails(w)
    BY <2>2 DEF CannotGoOn, StoresArtifact, PausesForInput, VerifiesArtifact, StepFails
  <2>3. CASE GatherPacket(w) \/ LoadsArtifact(w)
    BY <2>3 DEF GatherPacket, AfterGather, LoadsArtifact
  <2>4. CASE SavesCheckpoint(w)
    <3>1. mem[w].step \in Steps
      BY <2>4 DEF SavesCheckpoint, TypeInv, StepKnown
    <3>. QED BY <2>4, <3>1 DEF SavesCheckpoint, AfterGather, Steps, Gather, Generate, Verify
  <2>5. CASE BlocksTask(w)
    BY <1>0, <2>5 DEF BlocksTask
  <2>. QED BY <2>1, <2>2, <2>3, <2>4, <2>5 DEF RunTask
<1>. QED BY <1>1, <1>2, <1>3, <1>4, <1>5

\* Nothing is uncommitted outside run_task and the commit, and no lease has run
\* out under its owner before the first overrun.
TxHeld == \A w \in Workers : tx[w] # 0 => pc[w] \in RunPoints \cup {"block", "commit"}
NoneLapsed == used["overrun"] = 0 => lapsed = {}

LeaseInv == TypeInv /\ LeaseHeld /\ TxHeld /\ NoneLapsed

\* Who was at work with a lease and is still at work has it still.
LEMMA StillHeld ==
  ASSUME TypeInv, LeaseHeld, UNCHANGED leaseVars,
         \A p \in Runners : Working(p)' => Working(p)
  PROVE  LeaseHeld'
  BY DEF LeaseHeld, leaseVars

LEMMA LeaseLoop ==
  ASSUME LeaseInv, NEW p \in Runners, Scans(p) \/ Claims(p) \/ Loop(p) \/ Fails(p)
  PROVE  LeaseHeld' /\ TxHeld' /\ NoneLapsed'
<1>. USE DEF LeaseInv
<1>0. pc \in [Runners -> Points] /\ tx \in [Workers -> Nat] /\ Workers \subseteq Runners
  BY DEF TypeInv, TypeOK, Runners
<1>1. CASE Scans(p) \/ ClaimRefused(p) \/ Recovers(p) \/ SyncLocks(p) \/ Syncs(p)
  <2>1. UNCHANGED <<leaseVars, tx, used>>
    BY <1>1 DEF Scans, ClaimRefused, Recovers, SyncLocks, Syncs, localVars
  <2>2. \A q \in Runners : Working(q)' => Working(q)
    BY <1>0, <1>1 DEF Scans, ClaimRefused, Recovers, SyncLocks, Syncs, Working
  <2>3. TxHeld'
    BY <1>0, <1>1, <2>1 DEF Scans, ClaimRefused, Recovers, SyncLocks, Syncs, TxHeld, RunPoints
  <2>. QED BY <2>1, <2>2, <2>3, StillHeld DEF NoneLapsed, leaseVars
<1>2. CASE Claims(p)
  <2>1. \A q \in Runners : ~Working(q) \/ q \in lapsed
    BY <1>2, ArtifactAssumption DEF Claims, Claimable, LeaseFree, LeaseHeld, Runners, ArtifactAssumption
  <2>2. LeaseHeld'
    BY <1>0, <1>2, <2>1 DEF Claims, LeaseHeld, Working
  <2>3. TxHeld' /\ NoneLapsed'
    BY <1>0, <1>2 DEF Claims, TxHeld, NoneLapsed, RunPoints, localVars
  <2>. QED BY <2>2, <2>3
<1>3. CASE Releases(p)
  <2>1. LeaseHeld'
    <3>. SUFFICES ASSUME NEW q \in Runners, Working(q)', q \notin lapsed'
                  PROVE  lease' = [owner |-> q, live |-> TRUE]
      BY DEF LeaseHeld
    <3>1. q # p /\ Working(q) /\ q \notin lapsed
      BY <1>0, <1>3 DEF Releases, Working
    <3>2. lease = [owner |-> q, live |-> TRUE]
      BY <3>1 DEF LeaseHeld
    <3>3. ~Owns(p)
      BY <3>1, <3>2 DEF Owns
    <3>. QED BY <1>3, <3>2, <3>3 DEF Releases
  <2>2. TxHeld' /\ NoneLapsed'
    BY <1>0, <1>3 DEF Releases, TxHeld, NoneLapsed, RunPoints, localVars
  <2>. QED BY <2>1, <2>2
<1>4. CASE Fails(p)
  <2>1. LeaseHeld'
    <3>. SUFFICES ASSUME NEW q \in Runners, Working(q)', q \notin lapsed'
                  PROVE  lease' = [owner |-> q, live |-> TRUE]
      BY DEF LeaseHeld
    <3>1. Working(q)
      BY <1>0, <1>4 DEF Fails, Working, RunPoints
    <3>2. q \notin lapsed
      BY <1>0, <1>4 DEF Fails, Working, RunPoints
    <3>. QED BY <1>4, <3>1, <3>2 DEF Fails, LeaseHeld
  <2>2. TxHeld'
    <3>. SUFFICES ASSUME NEW w \in Workers, tx'[w] # 0
                  PROVE  pc'[w] \in RunPoints \cup {"block", "commit"}
      BY DEF TxHeld
    <3>1. tx[w] # 0 /\ (w = p => pc[p] \notin {"block", "commit"})
      BY <1>0, <1>4 DEF Fails
    <3>2. pc[w] \in RunPoints \cup {"block", "commit"}
      BY <3>1 DEF TxHeld
    <3>3. CASE w # p
      BY <1>0, <1>4, <3>2, <3>3 DEF Fails
    <3>4. CASE w = p
      <4>1. pc[p] \in RunPoints
        BY <3>1, <3>2, <3>4
      <4>2. pc' = [pc EXCEPT ![p] = "block"]
        BY <1>4, <4>1 DEF Fails, RunPoints
      <4>. QED BY <1>0, <3>4, <4>2
    <3>. QED BY <3>3, <3>4
  <2>3. used'["overrun"] = used["overrun"]
    BY <1>4, SpendsOne DEF Fails, Kinds
  <2>4. NoneLapsed'
    BY <1>4, <2>3 DEF Fails, NoneLapsed
  <2>. QED BY <2>1, <2>2, <2>4
<1>. QED BY <1>1, <1>2, <1>3, <1>4 DEF Loop

LEMMA LeaseWork ==
  ASSUME LeaseInv, NEW w \in Workers, RunTask(w) \/ WorkerLoop(w) \/ Crash(w)
  PROVE  LeaseHeld' /\ TxHeld' /\ NoneLapsed'
<1>. USE DEF LeaseInv
<1>0. pc \in [Runners -> Points] /\ tx \in [Workers -> Nat] /\ w \in Runners /\ Workers \subseteq Runners
  BY DEF TypeInv, TypeOK, Runners
<1>1. CASE RunTask(w)
  <2>1. PICK x \in RunPoints \cup {"block", "commit", "release"} :
          pc' = [pc EXCEPT ![w] = x] /\ (x = "release" => tx'[w] = 0)
    BY <1>1, RunTaskMoves
  <2>2. \A q \in Runners : Working(q)' => Working(q)
    BY <1>0, <1>1, <2>1, RunTaskMoves DEF Working, RunPoints
  <2>3. TxHeld'
    BY <1>0, <1>1, <2>1, RunTaskMoves DEF TxHeld
  <2>4. NoneLapsed'
    BY <1>1, RunTaskMoves DEF NoneLapsed, leaseVars, OtherKinds
  <2>. QED BY <1>1, <2>2, <2>3, <2>4, RunTaskMoves, StillHeld
<1>2. CASE Starts(w) \/ ReadsAgain(w) \/ DeliveryLooks(w) \/ Delivers(w)
  <2>1. UNCHANGED <<leaseVars, tx, used>>
    BY <1>2 DEF Starts, ReadsAgain, DeliveryLooks, Delivers, localVars
  <2>2. \A q \in Runners : Working(q)' => Working(q)
    BY <1>0, <1>2 DEF Starts, ReadsAgain, DeliveryLooks, Delivers, Working
  <2>3. TxHeld'
    BY <1>0, <1>2, <2>1 DEF Starts, ReadsAgain, DeliveryLooks, Delivers, TxHeld, RunPoints
  <2>. QED BY <2>1, <2>2, <2>3, StillHeld DEF NoneLapsed, leaseVars
<1>3. CASE Commits(w)
  <2>1. used'["overrun"] = used["overrun"]
    BY <1>3, SpendsOne DEF Commits, Kinds
  <2>2. \A q \in Runners : Working(q)' => Working(q)
    BY <1>0, <1>3 DEF Commits, Working
  <2>3. TxHeld' /\ NoneLapsed'
    BY <1>0, <1>3, <2>1 DEF Commits, TxHeld, NoneLapsed, leaseVars
  <2>. QED BY <1>3, <2>2, <2>3, StillHeld DEF Commits
<1>4. CASE Crash(w)
  <2>1. used'["overrun"] = used["overrun"]
    BY <1>4, SpendsOne DEF Crash, Kinds
  <2>2. LeaseHeld'
    BY <1>0, <1>4 DEF Crash, LeaseHeld, Working
  <2>3. TxHeld' /\ NoneLapsed'
    BY <1>0, <1>4, <2>1 DEF Crash, TxHeld, NoneLapsed
  <2>. QED BY <2>2, <2>3
<1>. QED BY <1>1, <1>2, <1>3, <1>4 DEF WorkerLoop

LEMMA LeaseRequests ==
  ASSUME LeaseInv,
         LeaseRunsOut \/ Overruns \/ Cancel \/ HumanInput \/ AnswerFinds \/ Answering
           \/ CrashApi
  PROVE  LeaseHeld' /\ TxHeld' /\ NoneLapsed'
<1>. USE DEF LeaseInv
<1>0. pc \in [Runners -> Points] /\ tx \in [Workers -> Nat] /\ used \in [Kinds -> Nat]
      /\ Recoverer \in Runners /\ Recoverer \notin Workers
  BY ArtifactAssumption DEF TypeInv, TypeOK, Runners, ArtifactAssumption
<1>1. CASE LeaseRunsOut
  BY <1>1 DEF LeaseRunsOut, LeaseHeld, TxHeld, NoneLapsed, localVars, Working
<1>2. CASE Overruns
  <2>1. LeaseHeld'
    BY <1>2 DEF Overruns, LeaseHeld, Working
  <2>2. used'["overrun"] # 0
    BY <1>0, <1>2 DEF Overruns, Spend, Kinds
  <2>. QED BY <1>2, <2>1, <2>2 DEF Overruns, TxHeld, NoneLapsed, localVars
<1>3. CASE CrashApi
  <2>1. used'["overrun"] = used["overrun"]
    BY <1>3, SpendsOne DEF CrashApi, Kinds
  <2>2. LeaseHeld'
    BY <1>0, <1>3 DEF CrashApi, LeaseHeld, Working
  <2>. QED BY <1>0, <1>3, <2>1, <2>2 DEF CrashApi, TxHeld, NoneLapsed, localVars
<1>4. CASE Cancel \/ HumanInput \/ AnswerFinds \/ Answering
  <2>1. UNCHANGED runnerVars
    BY <1>4 DEF Cancel, HumanInput, AnswerFinds, Answering, AnswerRecords, AnswerAsksAgain,
       AnswerPlans, AnswerValidates, AnswerCheckpoints
  <2>2. used'["overrun"] = used["overrun"]
    BY <1>4, SpendsOne DEF Cancel, HumanInput, AnswerFinds, Answering, AnswerRecords,
       AnswerAsksAgain, AnswerPlans, AnswerValidates, AnswerCheckpoints, Kinds
  <2>. QED
    BY <2>1, <2>2, StillHeld DEF TxHeld, NoneLapsed, runnerVars, leaseVars, localVars, Working
<1>. QED BY <1>1, <1>2, <1>3, <1>4

LEMMA LeaseStep ==
  ASSUME LeaseInv, [Next]_vars
  PROVE  LeaseInv'
<1>1. TypeInv'
  BY TypeStep DEF LeaseInv
<1>2. CASE UNCHANGED vars
  BY <1>1, <1>2 DEF vars, LeaseInv, LeaseHeld, TxHeld, NoneLapsed, Working, leaseVars, localVars
<1>3. CASE Next
  BY <1>1, <1>3, LeaseLoop, LeaseWork, LeaseRequests DEF Next, LeaseInv
<1>. QED BY <1>2, <1>3

LEMMA LeaseInit == ASSUME Init PROVE LeaseInv
  BY TypeInit DEF Init, LeaseInv, LeaseHeld, TxHeld, NoneLapsed, Working, Runners

LEMMA LeaseInvariant == Spec => []LeaseInv
  BY LeaseInit, LeaseStep, PTL DEF Spec

\* Whoever works on a task has its lease, unless it ran out under him.
THEOREM WorkersHoldTheLease == Spec => []LeaseHeld
<1>1. LeaseInv => LeaseHeld
  BY DEF LeaseInv
<1>. QED BY <1>1, LeaseInvariant, PTL

\* The lease keeps the two lock orders of a task apart: the runner that has the
\* row locked and the worker with an open transaction would both hold it.
THEOREM LeasePreventsStandoff == Spec => []NoStandoff
<1>1. ASSUME LeaseInv, Standoff
      PROVE  used["overrun"] > 0
  <2>1. PICK p \in Runners, w \in Workers : p # w /\ pc[p] = "syncing" /\ tx[w] # 0
    BY <1>1 DEF Standoff
  <2>2. Working(p) /\ Working(w) /\ w \in Runners
    BY <1>1, <2>1 DEF Working, LeaseInv, TxHeld, RunPoints, Runners
  <2>3. lapsed # {}
    BY <1>1, <2>1, <2>2 DEF LeaseInv, LeaseHeld
  <2>4. used["overrun"] \in Nat
    BY <1>1 DEF LeaseInv, TypeInv, TypeOK, Kinds
  <2>. QED BY <1>1, <2>3, <2>4 DEF LeaseInv, NoneLapsed
<1>2. LeaseInv => NoStandoff
  BY <1>1 DEF NoStandoff
<1>. QED BY <1>2, LeaseInvariant, PTL

-----------------------------------------------------------------------------
(* What is told is done.                                                   *)

End == <<"completed", Gate>>

\* An event that neither completes the task nor puts it at "delivered", and that
\* calls the verification done only after a file passed it.
Quiet(v) ==
  /\ v.status = "completed" => view.status = "completed"
  /\ v.node = "delivered" => view.node = "delivered" /\ v.status = view.status
  /\ Verify \in v.done => Verify \in view.done \/ passed # {}

LEMMA EventsQuiet ==
  ASSUME view \in Views, NEW s \in Steps \cup {Gate}, NEW n \in Nodes \ {"delivered"},
         NEW d \in SUBSET Steps, NEW k \in Nat
  PROVE  /\ Quiet(Selected(view, s)) /\ Quiet(Packet(view, s)) /\ Quiet(Result(view, s))
         /\ Quiet(Asked(view, s)) /\ Quiet(Answered(view)) /\ Quiet(Evaluated(view))
         /\ Quiet(Stopped(view)) /\ Quiet(Validated(view)) /\ Quiet(Cancelled(view))
         /\ Quiet(Planned(view, k))
         /\ (s = Verify => passed # {}) => Quiet(Verified(view, s))
         /\ (Verify \in d => passed # {}) => Quiet(Checkpoint(view, n, d))
<1>. USE DEF Views, Quiet
<1>1. Quiet(Selected(view, s)) /\ Quiet(Packet(view, s)) /\ Quiet(Result(view, s))
  BY DEF Selected, Packet, Result
<1>2. Quiet(Asked(view, s)) /\ Quiet(Answered(view)) /\ Quiet(Evaluated(view))
  BY DEF Asked, Answered, Evaluated
<1>3. Quiet(Stopped(view)) /\ Quiet(Validated(view)) /\ Quiet(Cancelled(view))
  BY DEF Stopped, Validated, Cancelled
<1>4. Quiet(Planned(view, k))
  BY DEF Planned
<1>5. (s = Verify => passed # {}) => Quiet(Verified(view, s))
  BY DEF Verified
<1>6. (Verify \in d => passed # {}) => Quiet(Checkpoint(view, n, d))
  BY DEF Checkpoint
<1>. QED BY <1>1, <1>2, <1>3, <1>4, <1>5, <1>6

QuietLog == keys \subseteq keys' /\ (End \in keys' => End \in keys) /\ Quiet(view')

LEMMA QuietAppend ==
  ASSUME NEW v, NEW r, NEW key, AppendsAlways(v, r) \/ (key # End /\ AppendsOnce(key, v, r)),
         Quiet(v)
  PROVE  QuietLog
<1>1. Quiet(view)
  BY DEF Quiet
<1>2. CASE AppendsAlways(v, r)
  BY <1>2 DEF AppendsAlways, QuietLog
<1>3. CASE key # End /\ AppendsOnce(key, v, r)
  BY <1>1, <1>3 DEF AppendsOnce, QuietLog, logVars
<1>. QED BY <1>2, <1>3

\* The verification is called done, anywhere, only after a file passed it.
StepPassed ==
  \A w \in Workers :
    \/ pc[w] \in {"result", "verified", "checkpoint"} /\ mem[w].step = Verify
    \/ pc[w] = "complete"
    => passed # {}
DonePassed ==
  /\ Verify \in view.done => passed # {}
  /\ Verify \in request.done => passed # {}
  /\ \A p \in Runners : Verify \in mem[p].done => passed # {}
EndPassed == End \in keys => passed # {}

\* A task is called completed, anywhere, only after task.completed.
EndKnown ==
  /\ view.status = "completed" => End \in keys
  /\ \A p \in Runners : mem[p].status = "completed" => End \in keys
  /\ \A w \in Workers : pc[w] \in {"deliver", "insert"} => End \in keys

\* The file in hand has a committed row, or will with the open transaction.
Holding == RunPoints \cup {"checked", "commit", "reread", "sync", "syncing", "deliver", "insert"}
FilesKept ==
  /\ taskRun.artifact # 0 => taskRun.artifact \in stored
  /\ \A w \in Workers : pc[w] \in Holding /\ art[w] # 0 => art[w] = tx[w] \/ art[w] \in stored
  /\ \A w \in Workers : pc[w] = "insert" => Named(w) # {}

Told ==
  /\ turns > 0 => End \in keys /\ delivered # {}
  /\ delivered \subseteq stored

DeliveryInv ==
  LeaseInv /\ StepPassed /\ DonePassed /\ EndPassed /\ EndKnown /\ FilesKept /\ Told

LEMMA RunTaskQuiet ==
  ASSUME DeliveryInv, NEW w \in Workers, RunTask(w), ~CompletesTask(w)
  PROVE  QuietLog
<1>. USE DEF DeliveryInv, LeaseInv
<1>0. /\ mem[w] \in Views /\ view \in Views /\ NextStep(mem[w]) \in Steps
      /\ {"final_evaluation", "select_step"} \subseteq Nodes \ {"delivered"} /\ w \in Runners
      /\ mem[w].step \in Steps \cup {Gate} /\ Generate \in Steps
  BY PlanTypes, ViewFields DEF Nodes, Steps
<1>1. CASE UNCHANGED logVars
  BY <1>1 DEF QuietLog, Quiet, logVars
<1>2. CASE SelectsStep(w)
  <2>1. AppendsOnce(<<"selected", NextStep(mem[w])>>, Selected(view, NextStep(mem[w])), row)
    BY <1>2 DEF SelectsStep
  <2>2. Quiet(Selected(view, NextStep(mem[w])))
    BY <1>0, EventsQuiet DEF Nodes
  <2>3. <<"selected", NextStep(mem[w])>> # End
    BY DEF End
  <2>. QED BY <2>1, <2>2, <2>3, QuietAppend
<1>3. CASE BuildsPacket(w)
  <2>1. AppendsOnce(<<"packet", NextStep(mem[w])>>, Packet(view, NextStep(mem[w])), AtNode("awaiting_executor"))
    BY <1>3 DEF BuildsPacket
  <2>2. Quiet(Packet(view, NextStep(mem[w])))
    BY <1>0, EventsQuiet DEF Nodes
  <2>3. <<"packet", NextStep(mem[w])>> # End
    BY DEF End
  <2>. QED BY <2>1, <2>2, <2>3, QuietAppend
<1>4. CASE PausesForInput(w)
  <2>1. AppendsAlways(Asked(view, Generate), AtNode("waiting_for_human_input"))
    BY <1>4 DEF PausesForInput
  <2>2. Quiet(Asked(view, Generate))
    BY <1>0, EventsQuiet
  <2>. QED BY <2>1, <2>2, QuietAppend
<1>5. CASE ReturnsResult(w)
  <2>1. AppendsAlways(Result(view, mem[w].step), row)
    BY <1>5 DEF ReturnsResult
  <2>2. Quiet(Result(view, mem[w].step))
    BY <1>0, EventsQuiet
  <2>. QED BY <2>1, <2>2, QuietAppend
<1>6. CASE RecordsVerified(w)
  <2>1. AppendsAlways(Verified(view, mem[w].step), row)
    BY <1>6 DEF RecordsVerified
  <2>2. mem[w].step = Verify => passed # {}
    BY <1>6 DEF RecordsVerified, StepPassed
  <2>3. Quiet(Verified(view, mem[w].step))
    <3>. HIDE DEF DeliveryInv, LeaseInv
    <3>. QED BY <1>0, <2>2, EventsQuiet
  <2>. QED BY <2>1, <2>3, QuietAppend
<1>7. CASE SavesCheckpoint(w)
  <2>. DEFINE done == mem[w].done \cup {mem[w].step}
  <2>1. PICK n \in {"final_evaluation", "select_step"} :
          AppendsOnce(<<"checkpoint", mem[w].step>>, Checkpoint(view, n, done), row)
    BY <1>7 DEF SavesCheckpoint
  <2>2. mem[w].step \in Steps
    BY <1>7 DEF SavesCheckpoint, TypeInv, StepKnown
  <2>3. done \in SUBSET Steps
    BY <1>0, <2>2, ViewFields
  <2>4. Verify \in done => passed # {}
    BY <1>0, <1>7 DEF SavesCheckpoint, StepPassed, DonePassed
  <2>5. n \in Nodes \ {"delivered"} /\ <<"checkpoint", mem[w].step>> # End
    BY <1>0, <2>1 DEF End
  <2>. HIDE DEF done
  <2>6. Quiet(Checkpoint(view, n, done))
    BY <1>0, <2>3, <2>4, <2>5, EventsQuiet
  <2>. QED BY <2>1, <2>5, <2>6, QuietAppend
<1>8. CASE EvaluatesFinal(w)
  <2>1. AppendsAlways(Evaluated(view), row)
    BY <1>8 DEF EvaluatesFinal
  <2>2. Quiet(Evaluated(view))
    BY <1>0, EventsQuiet DEF Nodes
  <2>. QED BY <2>1, <2>2, QuietAppend
<1>9. CASE BlocksTask(w)
  <2>1. AppendsAlways(Stopped(view), row)
    BY <1>9 DEF BlocksTask
  <2>2. Quiet(Stopped(view))
    BY <1>0, EventsQuiet DEF Nodes
  <2>. QED BY <2>1, <2>2, QuietAppend
<1>. QED
  BY <1>1, <1>2, <1>3, <1>4, <1>5, <1>6, <1>7, <1>8, <1>9 DEF RunTask, CannotGoOn,
     GatherPacket, LoadsArtifact, StoresArtifact, VerifiesArtifact, StepFails

LEMMA RequestQuiet ==
  ASSUME DeliveryInv, Cancel \/ HumanInput \/ AnswerFinds \/ Answering
  PROVE  QuietLog
<1>0. view \in Views /\ "select_step" \in Nodes \ {"delivered"} /\ request.done \in SUBSET Steps
      /\ answers \in Nat
  BY DEF DeliveryInv, LeaseInv, TypeInv, TypeOK, Nodes
<1>q. /\ Quiet(Cancelled(view)) /\ Quiet(Answered(view)) /\ Quiet(Asked(view, Gate))
      /\ Quiet(Planned(view, answers)) /\ Quiet(Validated(view))
  BY <1>0, EventsQuiet
<1>1. CASE AnswerFinds
  BY <1>1 DEF AnswerFinds, QuietLog, Quiet, logVars
<1>2. CASE Cancel
  BY <1>2, <1>q, QuietAppend DEF Cancel
<1>3. CASE HumanInput \/ AnswerRecords
  BY <1>3, <1>q, QuietAppend DEF HumanInput, AnswerRecords
<1>4. CASE AnswerAsksAgain
  BY <1>4, <1>q, QuietAppend DEF AnswerAsksAgain
<1>5. CASE AnswerPlans \/ AnswerValidates
  <2>1. <<"plan", Gate>> # End /\ <<"validated", Gate>> # End
    BY DEF End
  <2>. QED BY <1>5, <1>q, <2>1, QuietAppend DEF AnswerPlans, AnswerValidates
<1>6. CASE AnswerCheckpoints
  <2>1. Quiet(Checkpoint(view, "select_step", request.done))
    BY <1>0, EventsQuiet DEF DeliveryInv, DonePassed
  <2>2. <<"checkpoint", Gate>> # End
    BY DEF End
  <2>. QED BY <1>6, <2>1, <2>2, QuietAppend DEF AnswerCheckpoints
<1>. QED BY <1>1, <1>2, <1>3, <1>4, <1>5, <1>6 DEF Answering

\* The loops and the faults append nothing.
LEMMA OthersQuiet ==
  ASSUME \/ \E p \in Runners : Scans(p) \/ Claims(p) \/ Loop(p) \/ Fails(p)
         \/ \E w \in Workers : WorkerLoop(w) \/ Crash(w)
         \/ LeaseRunsOut \/ Overruns \/ CrashApi
  PROVE  UNCHANGED <<view, keys>> /\ UNCHANGED fileVars
<1>. USE DEF logVars
<1>1. CASE \E p \in Runners : Scans(p) \/ Claims(p) \/ Fails(p)
  BY <1>1 DEF Scans, Claims, Fails
<1>2. CASE \E p \in Runners : Loop(p)
  BY <1>2 DEF Loop, ClaimRefused, Releases, Recovers, SyncLocks, Syncs
<1>3. CASE \E w \in Workers : WorkerLoop(w) \/ Crash(w)
  BY <1>3 DEF WorkerLoop, Starts, Commits, ReadsAgain, DeliveryLooks, Delivers, Crash
<1>4. CASE LeaseRunsOut \/ Overruns \/ CrashApi
  BY <1>4 DEF LeaseRunsOut, Overruns, CrashApi
<1>. QED BY <1>1, <1>2, <1>3, <1>4

\* run_task changes its own copy of the task only, and never its status.
LEMMA RunTaskMem ==
  ASSUME DeliveryInv, NEW w \in Workers, RunTask(w)
  PROVE  /\ \A p \in Runners \ {w} : mem'[p] = mem[p]
         /\ mem'[w].status = mem[w].status
         /\ Verify \in mem'[w].done => passed # {}
         /\ passed \subseteq passed'
<1>. USE DEF localVars, fileVars
<1>0. mem \in [Runners -> Views] /\ w \in Runners /\ mem[w] \in Views
      /\ (Verify \in mem[w].done => passed # {})
  BY PlanTypes DEF DeliveryInv, LeaseInv, TypeInv, TypeOK, DonePassed
<1>1. CASE UNCHANGED <<mem, passed>>
  BY <1>0, <1>1
<1>2. CASE VerifiesArtifact(w)
  BY <1>0, <1>2 DEF VerifiesArtifact
<1>3. CASE BuildsPacket(w) \/ PausesForInput(w)
  <2>1. PICK s : \/ mem' = [mem EXCEPT ![w] = Packet(mem[w], s)]
                 \/ mem' = [mem EXCEPT ![w] = Asked(mem[w], s)]
                 \/ mem' = mem
    BY <1>3 DEF BuildsPacket, PausesForInput
  <2>2. passed' = passed
    BY <1>3 DEF BuildsPacket, PausesForInput
  <2>3. /\ Packet(mem[w], s).status = mem[w].status /\ Packet(mem[w], s).done = mem[w].done
        /\ Asked(mem[w], s).status = mem[w].status /\ Asked(mem[w], s).done = mem[w].done
    BY <1>0 DEF Packet, Asked, Views
  <2>. QED BY <1>0, <2>1, <2>2, <2>3
<1>4. CASE SavesCheckpoint(w)
  <2>. DEFINE d == mem[w].done \cup {mem[w].step}
  <2>1. PICK n : mem' = [mem EXCEPT ![w] = Checkpoint(mem[w], n, d)]
    BY <1>4 DEF SavesCheckpoint
  <2>2. passed' = passed
    BY <1>4 DEF SavesCheckpoint
  <2>3. Checkpoint(mem[w], n, d).status = mem[w].status /\ Checkpoint(mem[w], n, d).done = d
    BY <1>0 DEF Checkpoint, Views
  <2>4. Verify \in d => passed # {}
    BY <1>0, <1>4 DEF SavesCheckpoint, DeliveryInv, StepPassed
  <2>. HIDE DEF d
  <2>. QED BY <1>0, <2>1, <2>2, <2>3, <2>4
<1>. QED
  BY <1>1, <1>2, <1>3, <1>4 DEF RunTask, SelectsStep, CannotGoOn, GatherPacket, LoadsArtifact,
     StoresArtifact, StepFails, ReturnsResult, RecordsVerified, EvaluatesFinal, CompletesTask,
     BlocksTask

LEMMA RunTaskEnds ==
  ASSUME DeliveryInv, NEW w \in Workers, RunTask(w)
  PROVE  EndPassed' /\ DonePassed' /\ EndKnown' /\ Told'
<1>0. pc \in [Runners -> Points] /\ Workers \subseteq Runners /\ view \in Views
  BY DEF DeliveryInv, LeaseInv, TypeInv, TypeOK, Runners
<1>1. PICK x \in RunPoints \cup {"block", "commit", "release"} : pc' = [pc EXCEPT ![w] = x]
  BY RunTaskMoves DEF DeliveryInv, LeaseInv
<1>2. UNCHANGED <<artifactVars, turnVars, requestVars>>
  BY RunTaskMoves DEF DeliveryInv, LeaseInv
<1>3. /\ keys \subseteq keys'
      /\ End \in keys' => passed # {}
      /\ Verify \in view'.done => passed # {}
      /\ view'.status = "completed" => End \in keys'
  <2>1. CASE CompletesTask(w)
    <3>1. passed # {}
      BY <2>1 DEF CompletesTask, DeliveryInv, StepPassed
    <3>2. keys \subseteq keys' /\ End \in keys'
      BY <2>1 DEF CompletesTask, AppendsOnce, End, logVars
    <3>. QED BY <3>1, <3>2
  <2>2. CASE ~CompletesTask(w)
    BY <2>2, RunTaskQuiet DEF QuietLog, Quiet, DeliveryInv, EndPassed, DonePassed, EndKnown
  <2>. QED BY <2>1, <2>2
<1>4. EndPassed' /\ DonePassed'
  BY <1>2, <1>3, RunTaskMem DEF EndPassed, DonePassed, DeliveryInv, requestVars
<1>5. EndKnown'
  <2>1. \A v \in Workers : pc'[v] \in {"deliver", "insert"} => pc[v] \in {"deliver", "insert"}
    BY <1>0, <1>1 DEF RunPoints
  <2>. QED BY <1>3, <2>1, RunTaskMem DEF EndKnown, DeliveryInv
<1>6. Told'
  BY <1>2, <1>3 DEF Told, DeliveryInv, turnVars, artifactVars
<1>. QED BY <1>4, <1>5, <1>6

\* A step under verification is Verify only when a file passed.
LEMMA RunTaskPasses ==
  ASSUME DeliveryInv, NEW w \in Workers, RunTask(w)
  PROVE  StepPassed'
<1>. USE DEF localVars
<1>0. pc \in [Runners -> Points] /\ Workers \subseteq Runners /\ passed \subseteq Nat /\ art \in [Workers -> Nat]
  BY DEF DeliveryInv, LeaseInv, TypeInv, TypeOK, Runners
<1>1. PICK x : pc' = [pc EXCEPT ![w] = x]
  BY RunTaskMoves DEF DeliveryInv, LeaseInv
<1>2. \A v \in Workers \ {w} : pc'[v] = pc[v] /\ mem'[v] = mem[v]
  BY <1>0, <1>1, RunTaskMem
<1>3. /\ pc'[w] \in {"result", "verified", "checkpoint"} /\ mem'[w].step = Verify => passed' # {}
      /\ pc'[w] = "complete" => passed' # {}
  <2>1. CASE CannotGoOn(w) \/ LoadsArtifact(w) \/ PausesForInput(w) \/ StepFails(w) \/ BlocksTask(w)
    BY <1>0, <2>1 DEF CannotGoOn, LoadsArtifact, PausesForInput, StepFails, BlocksTask
  <2>2. CASE SelectsStep(w) \/ BuildsPacket(w) \/ CompletesTask(w)
    BY <1>0, <2>2 DEF SelectsStep, BuildsPacket, CompletesTask, Goes
  <2>3. CASE GatherPacket(w)
    BY <1>0, <2>3 DEF GatherPacket, AfterGather, Gather, Verify
  <2>4. CASE StoresArtifact(w)
    BY <1>0, <2>4 DEF StoresArtifact, GeneratePacket, Generate, Verify
  <2>5. CASE VerifiesArtifact(w)
    BY <2>5 DEF VerifiesArtifact
  <2>6. CASE ReturnsResult(w) \/ RecordsVerified(w)
    <3>1. pc[w] \in {"result", "verified"} /\ UNCHANGED <<mem, passed>>
      BY <2>6 DEF ReturnsResult, RecordsVerified, fileVars
    <3>2. pc'[w] # "complete"
      BY <1>0, <2>6 DEF ReturnsResult, RecordsVerified, Goes
    <3>. QED BY <3>1, <3>2 DEF DeliveryInv, StepPassed
  <2>7. CASE SavesCheckpoint(w)
    <3>1. mem[w].step \in Steps
      BY <2>7 DEF SavesCheckpoint, DeliveryInv, LeaseInv, TypeInv, StepKnown
    <3>. QED BY <1>0, <2>7, <3>1 DEF SavesCheckpoint, AfterGather, Steps, Gather, Generate, Verify
  <2>8. CASE EvaluatesFinal(w)
    <3>1. UNCHANGED <<mem, passed>> /\ pc'[w] \in {"complete", "commit", "block"}
          /\ (pc'[w] = "complete" => Pending(mem[w]) = {})
      BY <1>0, <2>8 DEF EvaluatesFinal, Goes, fileVars
    <3>2. Pending(mem[w]) = {} => Verify \in mem[w].done
      BY DEF Pending, Steps
    <3>. QED BY <1>0, <3>1, <3>2 DEF DeliveryInv, DonePassed
  <2>. QED BY <2>1, <2>2, <2>3, <2>4, <2>5, <2>6, <2>7, <2>8 DEF RunTask
<1>4. passed \subseteq passed'
  BY RunTaskMem
<1>. QED BY <1>2, <1>3, <1>4 DEF DeliveryInv, StepPassed

LEMMA RunTaskFiles ==
  ASSUME DeliveryInv, NEW w \in Workers, RunTask(w)
  PROVE  FilesKept'
<1>. USE DEF localVars
<1>0. /\ pc \in [Runners -> Points] /\ Workers \subseteq Runners
      /\ art \in [Workers -> Nat] /\ tx \in [Workers -> Nat]
  BY DEF DeliveryInv, LeaseInv, TypeInv, TypeOK, Runners
<1>1. PICK x \in RunPoints \cup {"block", "commit", "release"} : pc' = [pc EXCEPT ![w] = x]
  BY RunTaskMoves DEF DeliveryInv, LeaseInv
<1>2. UNCHANGED <<stored, taskRun>> /\ \A v \in Workers \ {w} : tx'[v] = tx[v]
  BY RunTaskMoves DEF DeliveryInv, LeaseInv, artifactVars
<1>3. \A v \in Workers \ {w} : art'[v] = art[v]
  BY <1>0 DEF RunTask, SelectsStep, BuildsPacket, CannotGoOn, GatherPacket, LoadsArtifact,
     StoresArtifact, PausesForInput, VerifiesArtifact, StepFails, ReturnsResult,
     RecordsVerified, SavesCheckpoint, EvaluatesFinal, CompletesTask, BlocksTask
<1>4. pc'[w] \in Holding /\ art'[w] # 0 => art'[w] = tx'[w] \/ art'[w] \in stored
  <2>1. CASE UNCHANGED <<art, tx>> /\ pc[w] \in RunPoints
    BY <2>1 DEF DeliveryInv, FilesKept, Holding
  <2>2. CASE LoadsArtifact(w)
    <3>1. art'[w] = taskRun.artifact \/ pc'[w] = "block"
      BY <1>0, <2>2 DEF LoadsArtifact
    <3>. QED BY <3>1 DEF DeliveryInv, FilesKept, Holding, RunPoints
  <2>3. CASE StoresArtifact(w)
    BY <1>0, <2>3 DEF StoresArtifact
  <2>4. CASE StepFails(w)
    BY <1>0, <2>4 DEF StepFails, Holding, RunPoints
  <2>5. CASE BlocksTask(w)
    BY <1>0, <2>5 DEF BlocksTask
  <2>. QED
    BY <2>1, <2>2, <2>3, <2>4, <2>5 DEF RunTask, SelectsStep, BuildsPacket, CannotGoOn,
       GatherPacket, PausesForInput, VerifiesArtifact, ReturnsResult, RecordsVerified,
       SavesCheckpoint, EvaluatesFinal, CompletesTask, HasPacket, GeneratePacket,
       VerifyPacket, RunPoints
<1>5. \A v \in Workers : pc'[v] = "insert" => v # w /\ Named(v)' = Named(v)
  BY <1>0, <1>1, <1>2, <1>3 DEF RunPoints, Named
<1>6. \A v \in Workers : v # w => pc'[v] = pc[v]
  BY <1>0, <1>1
<1>. QED BY <1>2, <1>3, <1>4, <1>5, <1>6 DEF DeliveryInv, FilesKept

Others ==
  \/ \E p \in Runners : Scans(p) \/ Claims(p) \/ Loop(p) \/ Fails(p)
  \/ \E w \in Workers : WorkerLoop(w) \/ Crash(w)
  \/ LeaseRunsOut \/ Overruns \/ CrashApi

\* What the loops and the faults do to the places and the copies of the runners.
LEMMA OthersMove ==
  ASSUME DeliveryInv, Others
  PROVE  /\ \A q \in Runners : mem'[q] = mem[q] \/ mem'[q] = view
         /\ Verify \in request'.done => Verify \in request.done
         /\ \A v \in Workers : pc'[v] \in {"result", "verified", "checkpoint", "complete"} =>
              pc'[v] = pc[v] /\ mem'[v] = mem[v]
         /\ \A v \in Workers : pc'[v] \in {"deliver", "insert"} =>
              pc[v] \in {"deliver", "insert"} \/ mem[v].status = "completed"
<1>. USE DEF localVars, requestVars
<1>0. pc \in [Runners -> Points] /\ mem \in [Runners -> Views] /\ Workers \subseteq Runners
      /\ Recoverer \in Runners /\ Recoverer \notin Workers
  BY ArtifactAssumption DEF DeliveryInv, LeaseInv, TypeInv, TypeOK, Runners, ArtifactAssumption
<1>1. CASE \E p \in Runners : Scans(p) \/ Claims(p) \/ ClaimRefused(p) \/ Releases(p) \/ SyncLocks(p)
  BY <1>0, <1>1 DEF Scans, Claims, ClaimRefused, Releases, SyncLocks
<1>2. CASE \E p \in Runners : Recovers(p)
  BY <1>0, <1>2 DEF Recovers
<1>3. CASE \E p \in Runners : Syncs(p)
  BY <1>0, <1>3 DEF Syncs, HasTurn
<1>4. CASE \E p \in Runners : Fails(p)
  BY <1>0, <1>4 DEF Fails
<1>5. CASE \E w \in Workers : Starts(w) \/ ReadsAgain(w)
  BY <1>0, <1>5 DEF Starts, ReadsAgain
<1>6. CASE \E w \in Workers : Commits(w) \/ DeliveryLooks(w) \/ Delivers(w) \/ Crash(w)
  BY <1>0, <1>6 DEF Commits, DeliveryLooks, Delivers, Crash
<1>7. CASE LeaseRunsOut \/ Overruns \/ CrashApi
  BY <1>0, <1>7 DEF LeaseRunsOut, Overruns, CrashApi
<1>. QED BY <1>1, <1>2, <1>3, <1>4, <1>5, <1>6, <1>7 DEF Others, Loop, WorkerLoop

LEMMA OthersEnd ==
  ASSUME DeliveryInv, Others
  PROVE  StepPassed' /\ EndPassed' /\ DonePassed' /\ EndKnown'
<1>1. UNCHANGED <<view, keys>> /\ UNCHANGED fileVars
  BY OthersQuiet DEF Others
<1>2. StepPassed'
  BY <1>1, OthersMove DEF DeliveryInv, StepPassed, fileVars
<1>3. EndPassed' /\ DonePassed'
  BY <1>1, OthersMove DEF DeliveryInv, EndPassed, DonePassed, fileVars
<1>4. EndKnown'
  <2>1. Workers \subseteq Runners
    BY DEF Runners
  <2>. QED BY <1>1, <2>1, OthersMove DEF DeliveryInv, EndKnown
<1>. QED BY <1>2, <1>3, <1>4

\* The files of a worker whose place is its own and whose transaction is as it was.
LEMMA FilesStill ==
  ASSUME DeliveryInv, NEW v \in Workers, art'[v] = art[v], tx'[v] = tx[v],
         stored \subseteq stored', pc[v] \in Holding
  PROVE  art'[v] # 0 => art'[v] = tx'[v] \/ art'[v] \in stored'
  BY DEF DeliveryInv, FilesKept

LEMMA OthersFiles ==
  ASSUME DeliveryInv, Others
  PROVE  FilesKept' /\ Told'
<1>. USE DEF localVars, artifactVars, turnVars
<1>0. /\ pc \in [Runners -> Points] /\ Workers \subseteq Runners
      /\ art \in [Workers -> Nat] /\ tx \in [Workers -> Nat] /\ turns \in Nat
      /\ Recoverer \in Runners /\ Recoverer \notin Workers
  BY ArtifactAssumption DEF DeliveryInv, LeaseInv, TypeInv, TypeOK, Runners, ArtifactAssumption
<1>1. UNCHANGED keys
  BY OthersQuiet DEF Others
<1>2. CASE /\ UNCHANGED <<stored, turns, delivered>> /\ taskRun'.artifact = taskRun.artifact
           /\ \A v \in Workers :
                /\ pc'[v] \in Holding => \/ art'[v] = 0
                                         \/ art'[v] = art[v] /\ tx'[v] = tx[v] /\ pc[v] \in Holding
                /\ pc'[v] = "insert" => Named(v)' # {}
  <2>1. \A v \in Workers : pc'[v] \in Holding /\ art'[v] # 0 => art'[v] = tx'[v] \/ art'[v] \in stored'
    BY <1>2, FilesStill
  <2>. QED BY <1>1, <1>2, <2>1 DEF DeliveryInv, FilesKept, Told
<1>3. CASE \E p \in Runners : \/ Scans(p) \/ Claims(p) \/ ClaimRefused(p) \/ Releases(p)
                              \/ Recovers(p) \/ SyncLocks(p) \/ Fails(p)
  <2>. PICK p \in Runners : \/ Scans(p) \/ Claims(p) \/ ClaimRefused(p) \/ Releases(p)
                            \/ Recovers(p) \/ SyncLocks(p) \/ Fails(p)
    BY <1>3
  <2>1. UNCHANGED <<stored, turns, delivered, taskRun>>
    BY DEF Scans, Claims, ClaimRefused, Releases, Recovers, SyncLocks, Fails
  <2>2. \A v \in Workers : v # p => pc'[v] = pc[v] /\ art'[v] = art[v] /\ tx'[v] = tx[v]
    BY <1>0 DEF Scans, Claims, ClaimRefused, Releases, Recovers, SyncLocks, Fails
  <2>3. pc'[p] # "insert"
    BY <1>0 DEF Scans, Claims, ClaimRefused, Releases, Recovers, SyncLocks, Fails
  <2>4. p \in Workers /\ pc'[p] \in Holding =>
          art'[p] = 0 \/ (art'[p] = art[p] /\ tx'[p] = tx[p] /\ pc[p] \in Holding)
    BY <1>0 DEF Scans, Claims, ClaimRefused, Releases, Recovers, SyncLocks, Fails, Holding, RunPoints
  <2>5. \A v \in Workers : v # p /\ pc'[v] = "insert" => Named(v)' # {}
    BY <2>1, <2>2 DEF DeliveryInv, FilesKept, Named
  <2>. QED BY <1>2, <2>1, <2>2, <2>3, <2>4, <2>5
<1>4. CASE \E p \in Runners : Syncs(p)
  <2>. PICK p \in Runners : Syncs(p)
    BY <1>4
  <2>1. UNCHANGED <<stored, turns, delivered, art, tx>> /\ taskRun'.artifact = taskRun.artifact
    BY DEF Syncs, DeliveryInv, LeaseInv, TypeInv, TypeOK
  <2>2. \A v \in Workers : pc'[v] = "insert" => pc[v] = "insert"
    BY <1>0 DEF Syncs
  <2>3. \A v \in Workers : pc'[v] \in Holding => pc[v] \in Holding
    BY <1>0 DEF Syncs, Holding
  <2>4. \A v \in Workers : pc'[v] = "insert" => Named(v)' # {}
    BY <2>1, <2>2 DEF DeliveryInv, FilesKept, Named
  <2>. QED BY <1>2, <2>1, <2>3, <2>4
<1>5. CASE \E w \in Workers : Starts(w) \/ ReadsAgain(w) \/ DeliveryLooks(w) \/ Crash(w)
  <2>. PICK w \in Workers : Starts(w) \/ ReadsAgain(w) \/ DeliveryLooks(w) \/ Crash(w)
    BY <1>5
  <2>1. UNCHANGED <<stored, turns, delivered, taskRun, art>>
    BY DEF Starts, ReadsAgain, DeliveryLooks, Crash
  <2>2. \A v \in Workers : v # w => pc'[v] = pc[v] /\ tx'[v] = tx[v]
    BY <1>0 DEF Starts, ReadsAgain, DeliveryLooks, Crash
  <2>3. pc'[w] \in Holding => tx'[w] = tx[w] /\ pc[w] \in Holding
    BY <1>0 DEF Starts, ReadsAgain, DeliveryLooks, Crash, Holding, RunPoints
  <2>4. pc'[w] = "insert" => Named(w) # {}
    BY <1>0 DEF Starts, ReadsAgain, DeliveryLooks, Crash
  <2>5. \A v \in Workers : pc'[v] = "insert" => Named(v)' # {}
    BY <2>1, <2>2, <2>4 DEF DeliveryInv, FilesKept, Named
  <2>. QED BY <1>2, <2>1, <2>2, <2>3, <2>5
<1>6. CASE \E w \in Workers : Commits(w)
  <2>. PICK w \in Workers : Commits(w)
    BY <1>6
  <2>1. UNCHANGED <<turns, delivered, art>> /\ stored \subseteq stored'
    BY DEF Commits
  <2>2. \A v \in Workers : v # w => pc'[v] = pc[v] /\ tx'[v] = tx[v]
    BY <1>0 DEF Commits
  <2>3. tx[w] # 0 => tx[w] \in stored'
    BY DEF Commits
  <2>4. taskRun'.artifact # 0 => taskRun'.artifact \in stored'
    BY DEF Commits, DeliveryInv, FilesKept
  <2>5. pc'[w] # "insert" /\ pc[w] \in Holding
    BY <1>0 DEF Commits, Holding
  <2>6. art[w] # 0 => art[w] \in stored'
    BY <2>1, <2>3, <2>5 DEF DeliveryInv, FilesKept
  <2>7. \A v \in Workers : pc'[v] \in Holding /\ art'[v] # 0 => art'[v] = tx'[v] \/ art'[v] \in stored'
    BY <2>1, <2>2, <2>6, FilesStill
  <2>8. \A v \in Workers : pc'[v] = "insert" => Named(v)' # {}
    BY <2>1, <2>2, <2>5 DEF DeliveryInv, FilesKept, Named
  <2>9. FilesKept'
    BY <2>4, <2>7, <2>8 DEF FilesKept
  <2>10. Told'
    BY <1>1, <2>1 DEF DeliveryInv, Told
  <2>. QED BY <2>9, <2>10
<1>7. CASE \E w \in Workers : Delivers(w)
  <2>. PICK w \in Workers : Delivers(w)
    BY <1>7
  <2>1. UNCHANGED <<stored, taskRun, art, tx>> /\ pc[w] = "insert"
    BY DEF Delivers
  <2>2. \A v \in Workers : v # w => pc'[v] = pc[v]
    BY <1>0 DEF Delivers
  <2>3. pc'[w] = "release"
    BY <1>0 DEF Delivers
  <2>4. tx[w] = 0
    BY <2>1 DEF DeliveryInv, LeaseInv, TxHeld, RunPoints
  <2>5. art[w] # 0 => art[w] \in stored
    BY <1>0, <2>1, <2>4 DEF DeliveryInv, FilesKept, Holding
  <2>6. Named(w) # {} /\ Named(w) \subseteq stored
    BY <2>1, <2>5 DEF DeliveryInv, FilesKept, Named
  <2>7. End \in keys
    BY <2>1 DEF DeliveryInv, EndKnown
  <2>8. delivered' = delivered \cup Named(w)
    BY DEF Delivers
  <2>9. Told'
    <3>1. delivered' \subseteq stored' /\ delivered' # {}
      BY <2>1, <2>6, <2>8 DEF DeliveryInv, Told
    <3>. QED BY <1>1, <2>7, <3>1 DEF Told
  <2>10. \A v \in Workers : pc'[v] \in Holding => v # w
    BY <2>3 DEF Holding, RunPoints
  <2>11. \A v \in Workers : pc'[v] = "insert" => Named(v)' # {}
    BY <2>1, <2>2, <2>3 DEF DeliveryInv, FilesKept, Named
  <2>12. FilesKept'
    BY <2>1, <2>2, <2>10, <2>11 DEF DeliveryInv, FilesKept
  <2>. QED BY <2>9, <2>12
<1>8. CASE LeaseRunsOut \/ Overruns \/ CrashApi
  <2>1. UNCHANGED <<stored, turns, delivered, taskRun, art, tx>>
    BY <1>8 DEF LeaseRunsOut, Overruns, CrashApi
  <2>2. \A v \in Workers : pc'[v] = pc[v]
    BY <1>0, <1>8 DEF LeaseRunsOut, Overruns, CrashApi
  <2>3. \A v \in Workers : pc'[v] = "insert" => Named(v)' # {}
    BY <2>1, <2>2 DEF DeliveryInv, FilesKept, Named
  <2>. QED BY <1>2, <2>1, <2>2, <2>3
<1>. QED BY <1>3, <1>4, <1>5, <1>6, <1>7, <1>8 DEF Others, Loop, WorkerLoop

LEMMA RequestsDelivery ==
  ASSUME DeliveryInv, Cancel \/ HumanInput \/ AnswerFinds \/ Answering
  PROVE  StepPassed' /\ EndPassed' /\ DonePassed' /\ EndKnown' /\ FilesKept' /\ Told'
<1>1. UNCHANGED <<artifactVars, turnVars, pc, localVars, fileVars>>
  BY DEF Cancel, HumanInput, AnswerFinds, Answering, AnswerRecords, AnswerAsksAgain, AnswerPlans,
     AnswerValidates, AnswerCheckpoints, runnerVars
<1>2. Verify \in request'.done => Verify \in request.done \/ Verify \in view.done
  <2>1. request \in [at: Requests, done: SUBSET Steps]
    BY DEF DeliveryInv, LeaseInv, TypeInv, TypeOK
  <2>. QED
    BY <2>1 DEF Cancel, HumanInput, AnswerFinds, Answering, AnswerRecords, AnswerAsksAgain,
       AnswerPlans, AnswerValidates, AnswerCheckpoints, requestVars
<1>3. QuietLog
  BY RequestQuiet
<1>4. StepPassed' /\ EndPassed' /\ DonePassed'
  BY <1>1, <1>2, <1>3 DEF DeliveryInv, StepPassed, EndPassed, DonePassed, QuietLog, Quiet,
     localVars, fileVars
<1>5. EndKnown'
  BY <1>1, <1>3 DEF DeliveryInv, EndKnown, QuietLog, Quiet, localVars
<1>6. FilesKept' /\ Told'
  BY <1>1, <1>3 DEF DeliveryInv, FilesKept, Told, QuietLog, Named, localVars, artifactVars, turnVars
<1>. QED BY <1>4, <1>5, <1>6

LEMMA DeliveryStep ==
  ASSUME DeliveryInv, [Next]_vars
  PROVE  DeliveryInv'
<1>1. LeaseInv'
  BY LeaseStep DEF DeliveryInv
<1>2. CASE UNCHANGED vars
  BY <1>1, <1>2 DEF vars, DeliveryInv, StepPassed, EndPassed, DonePassed, EndKnown, FilesKept, Told,
     Named, logVars, artifactVars, turnVars, localVars, requestVars, fileVars
<1>3. CASE Others
  BY <1>1, <1>3, OthersEnd, OthersFiles DEF DeliveryInv
<1>4. CASE \E w \in Workers : RunTask(w)
  BY <1>1, <1>4, RunTaskEnds, RunTaskPasses, RunTaskFiles DEF DeliveryInv
<1>5. CASE Cancel \/ HumanInput \/ AnswerFinds \/ Answering
  BY <1>1, <1>5, RequestsDelivery DEF DeliveryInv
<1>. QED BY <1>2, <1>3, <1>4, <1>5 DEF Next, Others

LEMMA DeliveryInit == ASSUME Init PROVE DeliveryInv
<1>1. LeaseInv
  BY LeaseInit
<1>2. /\ view.status = "running" /\ view.done = {} /\ request.done = {} /\ End \notin keys
      /\ \A p \in Runners : mem[p] = view
      /\ \A w \in Workers : pc[w] = "idle"
      /\ turns = 0 /\ delivered = {} /\ taskRun.artifact = 0
  BY DEF Init, End, Runners
<1>. QED
  BY <1>1, <1>2 DEF DeliveryInv, StepPassed, EndPassed, DonePassed, EndKnown, FilesKept, Told,
     Holding, RunPoints

LEMMA DeliveryInvariant == Spec => []DeliveryInv
  BY DeliveryInit, DeliveryStep, PTL DEF Spec

\* The conversation is told of a file only after task.completed, and every file
\* it is told of has its row: also for several workers, any number of crashes,
\* failures, overrun leases, cancellations and answers.
THEOREM DeliveryIsComplete == Spec => []DeliveredIsComplete
<1>1. DeliveryInv => DeliveredIsComplete
  BY DEF DeliveryInv, Told, EndPassed, End, DeliveredIsComplete
<1>. QED BY <1>1, DeliveryInvariant, PTL

-----------------------------------------------------------------------------
(* The promise, with the one worker that is started: its safety part.      *)

OneWorkerOnly == \A v, w \in Workers : v = w

\* A turn is about to be inserted only while there is none.
OneTeller ==
  /\ \A w \in Workers : pc[w] = "insert" => turns = 0
  /\ turns = 0 => delivered = {}

PromiseInv == DeliveryInv /\ OneTeller

\* Only the insert of a worker makes a turn, and only its look at the turns
\* leads there.
LEMMA TurnsMade ==
  ASSUME DeliveryInv, [Next]_vars,
         \A w \in Workers : ~Delivers(w)
  PROVE  /\ UNCHANGED turnVars
         /\ \A w \in Workers : pc'[w] = "insert" => pc[w] = "insert" \/ Undelivered
<1>. USE DEF turnVars
<1>0. pc \in [Runners -> Points] /\ Workers \subseteq Runners /\ Recoverer \notin Workers
      /\ Recoverer \in Runners
  BY ArtifactAssumption DEF DeliveryInv, LeaseInv, TypeInv, TypeOK, Runners, ArtifactAssumption
<1>1. CASE UNCHANGED vars
  BY <1>1 DEF vars
<1>2. CASE \E p \in Runners : \/ Scans(p) \/ Claims(p) \/ ClaimRefused(p) \/ Releases(p)
                              \/ Recovers(p) \/ SyncLocks(p) \/ Fails(p) \/ Syncs(p)
  BY <1>0, <1>2 DEF Scans, Claims, ClaimRefused, Releases, Recovers, SyncLocks, Fails, Syncs
<1>3. CASE \E w \in Workers : RunTask(w)
  BY <1>0, <1>3, RunTaskMoves DEF DeliveryInv, LeaseInv, RunPoints
<1>4. CASE \E w \in Workers : Starts(w) \/ Commits(w) \/ ReadsAgain(w) \/ DeliveryLooks(w) \/ Crash(w)
  BY <1>0, <1>4 DEF Starts, Commits, ReadsAgain, DeliveryLooks, Crash
<1>5. CASE LeaseRunsOut \/ Overruns \/ CrashApi
  BY <1>0, <1>5 DEF LeaseRunsOut, Overruns, CrashApi
<1>6. CASE Cancel \/ HumanInput \/ AnswerFinds \/ Answering
  BY <1>6 DEF Cancel, HumanInput, AnswerFinds, Answering, AnswerRecords, AnswerAsksAgain,
     AnswerPlans, AnswerValidates, AnswerCheckpoints, runnerVars
<1>. QED BY <1>1, <1>2, <1>3, <1>4, <1>5, <1>6 DEF Next, Loop, WorkerLoop

LEMMA TellerStep ==
  ASSUME OneWorkerOnly, PromiseInv, [Next]_vars
  PROVE  PromiseInv'
<1>1. DeliveryInv'
  BY DeliveryStep DEF PromiseInv
<1>2. CASE \A w \in Workers : ~Delivers(w)
  BY <1>1, <1>2, TurnsMade DEF PromiseInv, OneTeller, turnVars, Undelivered
<1>3. CASE \E w \in Workers : Delivers(w)
  <2>. PICK w \in Workers : Delivers(w)
    BY <1>3
  <2>1. \A v \in Workers : pc'[v] # "insert"
    BY DEF Delivers, OneWorkerOnly, PromiseInv, DeliveryInv, LeaseInv, TypeInv, TypeOK, Runners
  <2>2. turns' # 0
    BY DEF Delivers, PromiseInv, DeliveryInv, LeaseInv, TypeInv, TypeOK
  <2>. QED BY <1>1, <2>1, <2>2 DEF PromiseInv, OneTeller
<1>. QED BY <1>2, <1>3

Phase ==
  IF <<"completed", Gate>> \notin keys THEN "open"
  ELSE IF view.status = "completed" /\ view.node = "delivered" /\ used["cancel"] = 0
  THEN "finished" ELSE "withdrawn"

\* An event that completes nothing leaves the phase, or withdraws the task.
LEMMA QuietPhase ==
  ASSUME QuietLog, used'["cancel"] = 0 => used["cancel"] = 0
  PROVE  Phase' = Phase \/ (Phase = "finished" /\ Phase' = "withdrawn")
<1>1. (End \in keys') = (End \in keys)
  BY DEF QuietLog
<1>2. view'.status = "completed" /\ view'.node = "delivered"
        => view.status = "completed" /\ view.node = "delivered"
  BY DEF QuietLog, Quiet
<1>. QED BY <1>1, <1>2 DEF Phase, End

\* Everything but a cancellation leaves that count alone.
LEMMA CancelSpent ==
  ASSUME DeliveryInv, [Next]_vars
  PROVE  /\ used'["cancel"] = 0 => used["cancel"] = 0
         /\ Others => used'["cancel"] = used["cancel"]
<1>0. TypeInv /\ "cancel" \in Kinds /\ {"fault", "crash", "overrun"} \subseteq Kinds \ {"cancel"}
      /\ {"input", "answer", "pause"} \subseteq Kinds \ {"cancel"}
  BY DEF DeliveryInv, LeaseInv, Kinds
<1>1. ASSUME Others
      PROVE  UNCHANGED used \/ Spend("fault") \/ Spend("crash") \/ Spend("overrun")
  <2>1. CASE \E p \in Runners : Scans(p) \/ Claims(p) \/ Loop(p) \/ Fails(p)
    BY <2>1 DEF Scans, Claims, Loop, ClaimRefused, Releases, Recovers, SyncLocks, Syncs, Fails
  <2>2. CASE \E w \in Workers : WorkerLoop(w) \/ Crash(w)
    BY <2>2 DEF WorkerLoop, Starts, Commits, ReadsAgain, DeliveryLooks, Delivers, Crash
  <2>3. CASE LeaseRunsOut \/ Overruns \/ CrashApi
    BY <2>3 DEF LeaseRunsOut, Overruns, CrashApi
  <2>. QED BY <1>1, <2>1, <2>2, <2>3 DEF Others
<1>2. Others => used'["cancel"] = used["cancel"]
  BY <1>0, <1>1, SpendsOne
<1>3. ASSUME \E w \in Workers : RunTask(w)
      PROVE  used'["cancel"] = used["cancel"]
  BY <1>0, <1>3, RunTaskMoves DEF OtherKinds
<1>4. ASSUME Cancel \/ HumanInput \/ AnswerFinds \/ Answering
      PROVE  used'["cancel"] = 0 => used["cancel"] = 0
  <2>1. \/ UNCHANGED used \/ Spend("cancel") \/ Spend("input") \/ Spend("answer") \/ Spend("pause")
    BY <1>4 DEF Cancel, HumanInput, AnswerFinds, Answering, AnswerRecords, AnswerAsksAgain,
       AnswerPlans, AnswerValidates, AnswerCheckpoints
  <2>. QED BY <1>0, <2>1, SpendsOne
<1>. QED BY <1>2, <1>3, <1>4 DEF Next, Others, vars

LEMMA PromiseStep ==
  ASSUME OneWorkerOnly, PromiseInv, [Next]_vars
  PROVE  [Promise!Next]_(Promise!vars)
<1>. USE DEF PromiseInv
<1>p. Promise!vars = <<Phase, stored, turns, delivered>>
  BY DEF Promise!vars, Phase
<1>s. SUFFICES \/ UNCHANGED <<Phase, stored, turns, delivered>>
               \/ Promise!Next
  BY DEF Promise!vars, Phase
<1>0. used'["cancel"] = 0 => used["cancel"] = 0
  BY CancelSpent
<1>1. CASE UNCHANGED vars
  BY <1>1 DEF vars, logVars, artifactVars, turnVars, Phase
<1>q. ASSUME QuietLog, UNCHANGED <<stored, turns, delivered>>
      PROVE  UNCHANGED <<Phase, stored, turns, delivered>> \/ Promise!Next
  <2>1. CASE Phase' = Phase
    BY <1>q, <2>1
  <2>2. CASE Phase = "finished" /\ Phase' = "withdrawn"
    <3>1. Promise!Withdraw
      BY <1>q, <2>2 DEF Promise!Withdraw, Phase
    <3>. QED BY <3>1 DEF Promise!Next
  <2>. QED BY <1>0, <1>q, <2>1, <2>2, QuietPhase
<1>2. CASE \E w \in Workers : RunTask(w)
  <2>. PICK w \in Workers : RunTask(w)
    BY <1>2
  <2>1. UNCHANGED <<stored, turns, delivered>>
    BY RunTaskMoves DEF DeliveryInv, LeaseInv, artifactVars, turnVars
  <2>2. CASE ~CompletesTask(w)
    BY <1>q, <2>1, <2>2, RunTaskQuiet
  <2>3. CASE CompletesTask(w)
    <3>1. AppendsOnce(End, Completed(view), row)
      BY <2>3 DEF CompletesTask, End
    <3>2. CASE End \in keys
      <4>1. QuietLog
        BY <3>1, <3>2 DEF AppendsOnce, logVars, QuietLog, Quiet
      <4>. QED BY <1>q, <2>1, <4>1
    <3>3. CASE End \notin keys
      <4>1. End \in keys'
        BY <3>1, <3>3 DEF AppendsOnce
      <4>2. Phase = "open" /\ Phase' \in {"finished", "withdrawn"}
        BY <3>3, <4>1 DEF Phase, End
      <4>3. Promise!Finish
        BY <2>1, <4>2 DEF Promise!Finish, Phase
      <4>. QED BY <4>3 DEF Promise!Next
    <3>. QED BY <3>2, <3>3
  <2>. QED BY <2>2, <2>3
<1>3. CASE Cancel \/ HumanInput \/ AnswerFinds \/ Answering
  <2>1. UNCHANGED <<stored, turns, delivered>>
    BY <1>3 DEF Cancel, HumanInput, AnswerFinds, Answering, AnswerRecords, AnswerAsksAgain,
       AnswerPlans, AnswerValidates, AnswerCheckpoints, runnerVars, artifactVars, turnVars
  <2>. QED BY <1>3, <1>q, <2>1, RequestQuiet
<1>4. CASE Others
  <2>1. Phase' = Phase
    BY <1>4, OthersQuiet, CancelSpent DEF Others, Phase
  <2>2. CASE UNCHANGED <<stored, turns, delivered>>
    BY <2>1, <2>2
  <2>3. CASE \E w \in Workers : Commits(w)
    <3>. PICK w \in Workers : Commits(w)
      BY <2>3
    <3>1. UNCHANGED <<turns, delivered>>
      BY DEF Commits, turnVars
    <3>2. UNCHANGED stored \/ stored' = stored \cup {tx[w]}
      BY DEF Commits, artifactVars
    <3>3. CASE UNCHANGED stored
      BY <2>1, <3>1, <3>3
    <3>4. CASE stored' # stored
      <4>1. stored' = stored \cup {tx[w]} /\ tx[w] \notin stored
        BY <3>2, <3>4
      <4>2. Promise!Keep
        BY <2>1, <3>1, <4>1 DEF Promise!Keep, Phase
      <4>. QED BY <4>2 DEF Promise!Next
    <3>. QED BY <3>3, <3>4
  <2>4. CASE \E w \in Workers : Delivers(w)
    <3>. PICK w \in Workers : Delivers(w)
      BY <2>4
    <3>1. pc[w] = "insert" /\ stored' = stored /\ turns' = turns + 1
          /\ delivered' = delivered \cup Named(w)
      BY DEF Delivers, artifactVars
    <3>2. turns = 0 /\ delivered = {}
      BY <3>1 DEF OneTeller
    <3>3. Phase # "open"
      BY <3>1 DEF DeliveryInv, EndKnown, Phase, End
    <3>4. DeliveryInv'
      BY DeliveryStep
    <3>5. delivered' # {} /\ delivered' \in SUBSET stored
      BY <3>1, <3>2, <3>4 DEF DeliveryInv, Told
    <3>6. Promise!Tell
      BY <2>1, <3>1, <3>2, <3>3, <3>5 DEF Promise!Tell, Phase
    <3>. QED BY <3>6 DEF Promise!Next
  <2>5. \/ UNCHANGED <<stored, turns, delivered>>
        \/ \E w \in Workers : Commits(w) \/ Delivers(w)
    <3>. USE DEF artifactVars, turnVars
    <3>1. CASE \E p \in Runners : Scans(p) \/ Claims(p) \/ Loop(p) \/ Fails(p)
      BY <3>1 DEF Scans, Claims, Loop, ClaimRefused, Releases, Recovers, SyncLocks, Syncs, Fails
    <3>2. CASE \E w \in Workers : WorkerLoop(w) \/ Crash(w)
      BY <3>2 DEF WorkerLoop, Starts, ReadsAgain, DeliveryLooks, Crash
    <3>3. CASE LeaseRunsOut \/ Overruns \/ CrashApi
      BY <3>3 DEF LeaseRunsOut, Overruns, CrashApi
    <3>. QED BY <1>4, <3>1, <3>2, <3>3 DEF Others
  <2>. QED BY <2>2, <2>3, <2>4, <2>5
<1>. QED BY <1>1, <1>2, <1>3, <1>4 DEF Next, Others

LEMMA PromiseInitially ==
  ASSUME Init
  PROVE  PromiseInv /\ Promise!Init
<1>1. DeliveryInv
  BY DeliveryInit
<1>2. End \notin keys /\ turns = 0 /\ delivered = {} /\ stored = {}
  BY DEF Init, End
<1>. QED BY <1>1, <1>2 DEF PromiseInv, OneTeller, Promise!Init, End

\* With the one worker that is started, every step of the task is a step of
\* ArtifactPromise or leaves its state alone: one message, after the end, about
\* files that are kept.  That it is sent at last is left to the model checker.
THEOREM PromiseIsSafe ==
  ASSUME OneWorkerOnly
  PROVE  Spec => Promise!Init /\ [][Promise!Next]_(Promise!vars)
<1>1. Init => PromiseInv /\ Promise!Init
  BY PromiseInitially
<1>2. PromiseInv /\ [Next]_vars => PromiseInv' /\ [Promise!Next]_(Promise!vars)
  BY TellerStep, PromiseStep
<1>. QED BY <1>1, <1>2, PTL DEF Spec

-----------------------------------------------------------------------------
(* What is told passed its verification.                                   *)

\* No two workers are in the task together: there is one, or no lease ran out
\* under its owner.
Alone == OneWorkerOnly \/ used["overrun"] = 0

\* The owner has answered something, or an answer is on its way in.
Reopened == used["input"] > 0 \/ answers > 0
AnswersCounted == request.at \in {"plan", "validate", "checkpoint"} => answers > 0

\* Where run_task is: the step of a result is the one its stage is for, a file is
\* uncommitted from the end of the generation on and it is the one in hand.
HasResult(w) == pc[w] \in {"result", "verified", "checkpoint"}
RunShape ==
  \A w \in Workers :
    /\ HasResult(w) => mem[w].step = stage[w]
    /\ pc[w] = "load" => stage[w] = Gather
    /\ pc[w] \in RunPoints /\ tx[w] # 0 =>
         /\ art[w] = tx[w]
         /\ stage[w] = Verify \/ (stage[w] = Generate /\ HasResult(w))

\* A file that is kept and did not pass is one of a task that stopped: no worker
\* is in it, and none will tell of it or take it up.
AllPassed == stored \subseteq passed
Shut == view.status # "completed" /\ view.node \notin Executable
Inside == RunPoints \cup {"checked", "block", "commit"}
Unverified ==
  /\ ~AllPassed => Shut
  /\ \A w \in Workers :
       /\ pc[w] \in Inside => AllPassed
       /\ pc[w] = "commit" /\ tx[w] # 0 => tx[w] \in passed \/ Shut
       /\ HasResult(w) /\ stage[w] = Verify => art[w] \in passed
       /\ pc[w] \in {"final", "complete"} => art[w] \in passed
       /\ pc[w] \in {"sync", "syncing"} /\ HasTurn(w) => AllPassed
       /\ pc[w] \in {"deliver", "insert"} => AllPassed
  /\ delivered \subseteq passed

VerifiedInv ==
  /\ DeliveryInv /\ AnswersCounted /\ RunShape
  /\ Alone /\ ~Reopened => Unverified

LEMMA Sole ==
  ASSUME LeaseInv, Alone, NEW v \in Workers, NEW w \in Workers, Working(v), Working(w)
  PROVE  v = w
<1>1. CASE OneWorkerOnly
  BY <1>1 DEF OneWorkerOnly
<1>2. CASE used["overrun"] = 0
  <2>1. lapsed = {} /\ v \in Runners /\ w \in Runners
    BY <1>2 DEF LeaseInv, NoneLapsed, Runners
  <2>2. lease = [owner |-> v, live |-> TRUE] /\ lease = [owner |-> w, live |-> TRUE]
    BY <2>1 DEF LeaseInv, LeaseHeld
  <2>. QED BY <2>2
<1>. QED BY <1>1, <1>2 DEF Alone

\* What was spent stays spent.
LEMMA NothingUnspent ==
  ASSUME TypeInv, [Next]_vars, NEW k \in Kinds
  PROVE  used[k] \in Nat /\ used'[k] \in Nat /\ used[k] <= used'[k]
<1>1. used \in [Kinds -> Nat]
  BY DEF TypeInv, TypeOK
<1>2. UNCHANGED used \/ (\E j \in Kinds : Spend(j)) \/ \E w \in Workers : PausesForInput(w)
  <2>. USE DEF Kinds
  <2>1. CASE \E p \in Runners : Scans(p) \/ Claims(p) \/ Loop(p) \/ Fails(p)
    BY <2>1 DEF Scans, Claims, Loop, ClaimRefused, Releases, Recovers, SyncLocks, Syncs, Fails
  <2>2. CASE \E w \in Workers : RunTask(w)
    BY <2>2 DEF RunTask, SelectsStep, BuildsPacket, CannotGoOn, GatherPacket, LoadsArtifact,
       StoresArtifact, VerifiesArtifact, StepFails, ReturnsResult,
       RecordsVerified, SavesCheckpoint, EvaluatesFinal, CompletesTask, BlocksTask, Goes
  <2>3. CASE \E w \in Workers : WorkerLoop(w) \/ Crash(w)
    BY <2>3 DEF WorkerLoop, Starts, Commits, ReadsAgain, DeliveryLooks, Delivers, Crash
  <2>4. CASE LeaseRunsOut \/ Overruns \/ CrashApi
    BY <2>4 DEF LeaseRunsOut, Overruns, CrashApi
  <2>5. CASE Cancel \/ HumanInput \/ AnswerFinds \/ Answering
    BY <2>5 DEF Cancel, HumanInput, AnswerFinds, Answering, AnswerRecords, AnswerAsksAgain,
       AnswerPlans, AnswerValidates, AnswerCheckpoints
  <2>6. CASE UNCHANGED vars
    BY <2>6 DEF vars
  <2>. QED BY <2>1, <2>2, <2>3, <2>4, <2>5, <2>6 DEF Next
<1>. QED BY <1>1, <1>2, PauseSpends DEF Spend

\* What is counted stays counted.
LEMMA StaysReopened ==
  ASSUME TypeInv, AnswersCounted, [Next]_vars
  PROVE  /\ AnswersCounted'
         /\ Alone' /\ ~Reopened' => Alone /\ ~Reopened
         /\ answers' = 0 => answers = 0
<1>1. answers \in Nat /\ request \in [at: Requests, done: SUBSET Steps]
  BY DEF TypeInv, TypeOK
<1>2. /\ answers' = answers \/ answers' = answers + 1
      /\ request'.at \in {"plan", "validate", "checkpoint"} =>
           answers' > 0 \/ (answers' = answers /\ request.at \in {"plan", "validate", "checkpoint"})
  <2>1. CASE Others
    BY <2>1 DEF Others, Scans, Claims, Loop, ClaimRefused, Releases, Recovers, SyncLocks, Syncs,
       Fails, WorkerLoop, Starts, Commits, ReadsAgain, DeliveryLooks, Delivers, Crash,
       LeaseRunsOut, Overruns, CrashApi, requestVars
  <2>2. CASE \E w \in Workers : RunTask(w)
    BY <2>2, RunTaskMoves DEF requestVars
  <2>3. CASE Cancel \/ HumanInput \/ AnswerFinds
    BY <2>3 DEF Cancel, HumanInput, AnswerFinds, requestVars
  <2>4. CASE Answering
    BY <1>1, <2>4 DEF Answering, AnswerRecords, AnswerAsksAgain, AnswerPlans, AnswerValidates,
       AnswerCheckpoints
  <2>5. CASE UNCHANGED vars
    BY <2>5 DEF vars, requestVars
  <2>. QED BY <2>1, <2>2, <2>3, <2>4, <2>5 DEF Next, Others
<1>3. /\ used["overrun"] \in Nat /\ used'["overrun"] \in Nat /\ used["overrun"] <= used'["overrun"]
      /\ used["input"] \in Nat /\ used'["input"] \in Nat /\ used["input"] <= used'["input"]
  BY NothingUnspent DEF Kinds
<1>4. AnswersCounted'
  BY <1>2 DEF AnswersCounted
<1>5. Reopened => Reopened'
  BY <1>1, <1>2, <1>3 DEF Reopened
<1>6. Alone' => Alone
  BY <1>3 DEF Alone, OneWorkerOnly
<1>. QED BY <1>1, <1>2, <1>4, <1>5, <1>6

LEMMA RunTaskShape ==
  ASSUME DeliveryInv, RunShape, NEW w \in Workers, RunTask(w)
  PROVE  RunShape'
<1>. USE DEF localVars
<1>0. /\ pc \in [Runners -> Points] /\ Workers \subseteq Runners /\ stage \in [Workers -> Steps]
      /\ art \in [Workers -> Nat] /\ tx \in [Workers -> Nat] /\ made \in Nat /\ mem \in [Runners -> Views]
      /\ w \in Runners
  BY DEF DeliveryInv, LeaseInv, TypeInv, TypeOK, Runners
<1>1. PICK x : pc' = [pc EXCEPT ![w] = x]
  BY RunTaskMoves DEF DeliveryInv, LeaseInv
<1>2. \A v \in Workers \ {w} :
        pc'[v] = pc[v] /\ mem'[v] = mem[v] /\ art'[v] = art[v] /\ stage'[v] = stage[v] /\ tx'[v] = tx[v]
  <2>1. \A v \in Workers \ {w} : art'[v] = art[v] /\ stage'[v] = stage[v]
    <3>1. CASE GatherPacket(w) \/ LoadsArtifact(w)
      BY <1>0, <3>1 DEF GatherPacket, LoadsArtifact, AfterGather
    <3>2. CASE SavesCheckpoint(w)
      <4>1. mem[w].step \in Steps
        BY <3>2 DEF SavesCheckpoint, DeliveryInv, LeaseInv, TypeInv, StepKnown
      <4>. QED BY <1>0, <3>2, <4>1 DEF SavesCheckpoint, AfterGather, Steps
    <3>. QED
      BY <1>0, <3>1, <3>2 DEF RunTask, SelectsStep, BuildsPacket, CannotGoOn, StoresArtifact,
         PausesForInput, VerifiesArtifact, StepFails, ReturnsResult, RecordsVerified,
         EvaluatesFinal, CompletesTask, BlocksTask
  <2>. QED BY <1>0, <1>1, <2>1, RunTaskMem, RunTaskMoves DEF DeliveryInv, LeaseInv
<1>. DEFINE Shape == /\ HasResult(w) => mem[w].step = stage[w]
                     /\ pc[w] = "load" => stage[w] = Gather
                     /\ pc[w] \in RunPoints /\ tx[w] # 0 =>
                          /\ art[w] = tx[w]
                          /\ stage[w] = Verify \/ (stage[w] = Generate /\ HasResult(w))
<1>3. Shape'
  <2>. USE DEF HasResult, RunPoints
  <2>1. CASE CannotGoOn(w) \/ PausesForInput(w) \/ StepFails(w) \/ BlocksTask(w)
    BY <1>0, <2>1 DEF CannotGoOn, PausesForInput, StepFails, BlocksTask
  <2>2. CASE SelectsStep(w) \/ BuildsPacket(w)
    BY <1>0, <2>2 DEF SelectsStep, BuildsPacket, Goes, RunShape
  <2>3. CASE GatherPacket(w)
    BY <1>0, <2>3 DEF GatherPacket, AfterGather, HasPacket, RunShape, Gather, Generate, Verify
  <2>4. CASE LoadsArtifact(w)
    BY <1>0, <2>4 DEF LoadsArtifact, RunShape, Gather, Generate, Verify
  <2>5. CASE StoresArtifact(w)
    BY <1>0, <2>5 DEF StoresArtifact, GeneratePacket
  <2>6. CASE VerifiesArtifact(w)
    BY <1>0, <2>6 DEF VerifiesArtifact, VerifyPacket, HasPacket, RunShape
  <2>7. CASE ReturnsResult(w) \/ RecordsVerified(w)
    BY <1>0, <2>7 DEF ReturnsResult, RecordsVerified, Goes, RunShape
  <2>8. CASE SavesCheckpoint(w)
    <3>1. /\ pc[w] = "checkpoint" /\ mem[w].step = stage[w] /\ stage[w] \in Steps
          /\ UNCHANGED <<art, tx>>
      BY <1>0, <2>8 DEF SavesCheckpoint, RunShape
    <3>. QED BY <1>0, <2>8, <3>1 DEF SavesCheckpoint, AfterGather, RunShape, Steps, Gather, Generate, Verify
  <2>9. CASE EvaluatesFinal(w) \/ CompletesTask(w)
    BY <1>0, <2>9 DEF EvaluatesFinal, CompletesTask, Goes, RunShape
  <2>. QED BY <2>1, <2>2, <2>3, <2>4, <2>5, <2>6, <2>7, <2>8, <2>9 DEF RunTask
<1>. QED BY <1>2, <1>3 DEF RunShape, HasResult

LEMMA OthersShape ==
  ASSUME DeliveryInv, RunShape, Others
  PROVE  RunShape'
<1>. USE DEF localVars, HasResult, RunPoints
<1>0. /\ pc \in [Runners -> Points] /\ Workers \subseteq Runners /\ stage \in [Workers -> Steps]
      /\ art \in [Workers -> Nat] /\ tx \in [Workers -> Nat] /\ Recoverer \in Runners
      /\ Recoverer \notin Workers /\ mem \in [Runners -> Views]
  BY ArtifactAssumption DEF DeliveryInv, LeaseInv, TypeInv, TypeOK, Runners, ArtifactAssumption
<1>1. CASE \A v \in Workers :
             \/ pc'[v] \notin RunPoints
             \/ /\ pc'[v] = pc[v] /\ mem'[v] = mem[v] /\ art'[v] = art[v] /\ stage'[v] = stage[v]
                /\ tx'[v] = tx[v]
  BY <1>1 DEF RunShape
<1>2. CASE \E w \in Workers : Starts(w)
  <2>. PICK w \in Workers : Starts(w)
    BY <1>2
  <2>1. tx[w] = 0 /\ tx' = tx /\ pc' = [pc EXCEPT ![w] = "ensure"] /\ art' = art
    BY DEF Starts, DeliveryInv, LeaseInv, TxHeld
  <2>2. \A v \in Workers : v # w => mem'[v] = mem[v] /\ stage'[v] = stage[v]
    BY <1>0 DEF Starts
  <2>. QED BY <1>0, <2>1, <2>2 DEF RunShape
<1>3. CASE \E p \in Runners : Scans(p) \/ Claims(p) \/ Loop(p)
  BY <1>0, <1>1, <1>3 DEF Scans, Claims, Loop, ClaimRefused, Releases, Recovers, SyncLocks, Syncs
<1>4. CASE \E p \in Runners : Fails(p)
  BY <1>0, <1>1, <1>4 DEF Fails
<1>5. CASE \E w \in Workers : Commits(w) \/ ReadsAgain(w) \/ DeliveryLooks(w) \/ Delivers(w) \/ Crash(w)
  BY <1>0, <1>1, <1>5 DEF Commits, ReadsAgain, DeliveryLooks, Delivers, Crash
<1>6. CASE LeaseRunsOut \/ Overruns \/ CrashApi
  BY <1>0, <1>1, <1>6 DEF LeaseRunsOut, Overruns, CrashApi
<1>. QED BY <1>2, <1>3, <1>4, <1>5, <1>6 DEF Others, WorkerLoop

\* Inside the task a worker is at work, as he is on the way to the delivery.
LEMMA AtWork ==
  ASSUME NEW w \in Workers,
         pc[w] \in Inside \cup {"sync", "syncing", "deliver", "insert"} \/ HasResult(w)
  PROVE  Working(w)
  BY DEF Inside, RunPoints, HasResult, Working

LEMMA RunTaskVerified ==
  ASSUME VerifiedInv, Alone, Unverified, NEW w \in Workers, RunTask(w)
  PROVE  Unverified'
<1>. USE DEF localVars
<1>0. /\ pc \in [Runners -> Points] /\ Workers \subseteq Runners /\ stage \in [Workers -> Steps]
      /\ art \in [Workers -> Nat] /\ tx \in [Workers -> Nat] /\ mem \in [Runners -> Views]
      /\ w \in Runners /\ view \in Views /\ DeliveryInv /\ LeaseInv /\ TypeInv
  BY DEF VerifiedInv, DeliveryInv, LeaseInv, TypeInv, TypeOK, Runners
<1>1. PICK x \in RunPoints \cup {"block", "commit", "release"} : pc' = [pc EXCEPT ![w] = x]
  BY <1>0, RunTaskMoves
<1>2. pc[w] \in RunPoints \cup {"block"} /\ UNCHANGED <<stored, delivered>>
  BY <1>0, RunTaskMoves DEF artifactVars, turnVars
<1>3. AllPassed /\ passed \subseteq passed' /\ AllPassed'
  BY <1>0, <1>2, RunTaskMem DEF Unverified, Inside, AllPassed
<1>4. ASSUME NEW v \in Workers, v # w
      PROVE  pc'[v] \notin Inside /\ ~HasResult(v)'
  <2>1. pc'[v] = pc[v] /\ Working(w)
    BY <1>0, <1>1, <1>2, <1>4 DEF Working, RunPoints
  <2>. QED BY <1>0, <1>4, <2>1, AtWork, Sole DEF HasResult
<1>5. pc'[w] = "commit" /\ tx'[w] # 0 => tx'[w] \in passed' \/ Shut'
  <2>1. CASE PausesForInput(w)
    <3>1. tx'[w] = 0
      BY <1>0, <2>1 DEF PausesForInput, GeneratePacket, HasPacket, VerifiedInv, RunShape,
         HasResult, RunPoints, Generate, Verify
    <3>. QED BY <3>1
  <2>2. CASE EvaluatesFinal(w) \/ CompletesTask(w)
    <3>1. pc[w] \in {"final", "complete"} /\ UNCHANGED <<tx, passed>>
      BY <2>2 DEF EvaluatesFinal, CompletesTask, fileVars
    <3>2. tx[w] # 0 => tx[w] = art[w]
      BY <3>1 DEF VerifiedInv, RunShape, RunPoints
    <3>. QED BY <3>1, <3>2 DEF Unverified
  <2>3. CASE BlocksTask(w)
    <3>1. view' = Stopped(view)
      BY <2>3 DEF BlocksTask, AppendsAlways
    <3>. QED BY <1>0, <3>1 DEF Stopped, Views, Shut, Executable
  <2>4. CASE ~(PausesForInput(w) \/ EvaluatesFinal(w) \/ CompletesTask(w) \/ BlocksTask(w))
    <3>1. CASE SavesCheckpoint(w)
      <4>1. mem[w].step \in Steps
        BY <3>1 DEF SavesCheckpoint, VerifiedInv, DeliveryInv, LeaseInv, TypeInv, StepKnown
      <4>. QED BY <1>0, <3>1, <4>1 DEF SavesCheckpoint, AfterGather, Steps
    <3>. QED
      BY <1>0, <2>4, <3>1 DEF RunTask, SelectsStep, BuildsPacket, CannotGoOn, GatherPacket,
         LoadsArtifact, StoresArtifact, VerifiesArtifact, StepFails, ReturnsResult,
         RecordsVerified, Goes, AfterGather
  <2>. QED BY <2>1, <2>2, <2>3, <2>4
<1>6. /\ HasResult(w)' /\ stage'[w] = Verify => art'[w] \in passed'
      /\ pc'[w] \in {"final", "complete"} => art'[w] \in passed'
  <2>. USE DEF HasResult
  <2>1. CASE CannotGoOn(w) \/ LoadsArtifact(w) \/ PausesForInput(w) \/ StepFails(w) \/ BlocksTask(w)
    BY <1>0, <2>1 DEF CannotGoOn, LoadsArtifact, PausesForInput, StepFails, BlocksTask
  <2>2. CASE SelectsStep(w) \/ BuildsPacket(w) \/ CompletesTask(w)
    BY <1>0, <2>2 DEF SelectsStep, BuildsPacket, CompletesTask, Goes
  <2>3. CASE GatherPacket(w)
    BY <1>0, <2>3 DEF GatherPacket, AfterGather, Gather, Verify
  <2>4. CASE StoresArtifact(w)
    BY <1>0, <2>4 DEF StoresArtifact, GeneratePacket, Generate, Verify
  <2>5. CASE VerifiesArtifact(w)
    BY <1>0, <2>5 DEF VerifiesArtifact
  <2>6. CASE ReturnsResult(w) \/ RecordsVerified(w) \/ EvaluatesFinal(w)
    BY <1>0, <2>6 DEF ReturnsResult, RecordsVerified, EvaluatesFinal, Goes, Unverified, fileVars
  <2>7. CASE SavesCheckpoint(w)
    <3>1. mem[w].step = stage[w] /\ stage[w] \in Steps /\ pc[w] = "checkpoint" /\ UNCHANGED <<art, passed>>
      BY <1>0, <2>7 DEF SavesCheckpoint, VerifiedInv, RunShape, fileVars
    <3>2. stage[w] = Verify => art[w] \in passed
      BY <3>1 DEF Unverified
    <3>. QED BY <1>0, <2>7, <3>1, <3>2 DEF SavesCheckpoint, AfterGather, Steps, Gather, Generate, Verify
  <2>. QED BY <2>1, <2>2, <2>3, <2>4, <2>5, <2>6, <2>7 DEF RunTask
<1>7. delivered' \subseteq passed'
  BY <1>2, <1>3 DEF Unverified
<1>8. \A v \in Workers :
        /\ pc'[v] = "commit" /\ tx'[v] # 0 => tx'[v] \in passed' \/ Shut'
        /\ HasResult(v)' /\ stage'[v] = Verify => art'[v] \in passed'
        /\ pc'[v] \in {"final", "complete"} => art'[v] \in passed'
  BY <1>4, <1>5, <1>6 DEF Inside, RunPoints
<1>. QED BY <1>3, <1>7, <1>8 DEF Unverified

\* The clauses about one worker.
Clear(w) ==
  /\ pc[w] \in Inside => AllPassed
  /\ pc[w] = "commit" /\ tx[w] # 0 => tx[w] \in passed \/ Shut
  /\ HasResult(w) /\ stage[w] = Verify => art[w] \in passed
  /\ pc[w] \in {"final", "complete"} => art[w] \in passed
  /\ pc[w] \in {"sync", "syncing"} /\ HasTurn(w) => AllPassed
  /\ pc[w] \in {"deliver", "insert"} => AllPassed

\* A worker that a step of the loops leaves alone stays clear, and so does one
\* that it sends out of the task.
LEMMA StaysClear ==
  ASSUME Unverified, NEW w \in Workers, UNCHANGED <<view, passed, stored>>,
         \/ pc'[w] = pc[w] /\ tx'[w] = tx[w] /\ art'[w] = art[w] /\ stage'[w] = stage[w]
            /\ mem'[w] = mem[w]
         \/ pc'[w] \in {"idle", "due", "claimed", "reread", "release"}
  PROVE  Clear(w)'
<1>1. CASE pc'[w] \in {"idle", "due", "claimed", "reread", "release"}
  BY <1>1 DEF Clear, Inside, RunPoints, HasResult
<1>2. CASE pc'[w] = pc[w] /\ tx'[w] = tx[w] /\ art'[w] = art[w] /\ stage'[w] = stage[w]
           /\ mem'[w] = mem[w]
  BY <1>2 DEF Unverified, Clear, AllPassed, HasResult, HasTurn, Shut
<1>. QED BY <1>1, <1>2

LEMMA OthersVerified ==
  ASSUME VerifiedInv, Alone, Unverified, Others
  PROVE  Unverified'
<1>. USE DEF localVars, artifactVars, turnVars, fileVars
<1>0. /\ pc \in [Runners -> Points] /\ Workers \subseteq Runners /\ stage \in [Workers -> Steps]
      /\ art \in [Workers -> Nat] /\ tx \in [Workers -> Nat] /\ mem \in [Runners -> Views]
      /\ view \in Views /\ DeliveryInv /\ LeaseInv /\ Recoverer \in Runners /\ Recoverer \notin Workers
  BY ArtifactAssumption DEF VerifiedInv, DeliveryInv, LeaseInv, TypeInv, TypeOK, Runners, ArtifactAssumption
<1>1. UNCHANGED <<view, passed>>
  BY OthersQuiet DEF Others
<1>2. CASE /\ UNCHANGED stored /\ delivered' \subseteq passed
           /\ \A v \in Workers : Clear(v)'
  BY <1>1, <1>2 DEF Unverified, Clear, AllPassed, Shut
<1>3. CASE \E p \in Runners : Scans(p) \/ Claims(p) \/ ClaimRefused(p) \/ Releases(p) \/ SyncLocks(p)
  <2>1. UNCHANGED <<stored, delivered>>
    BY <1>3 DEF Scans, Claims, ClaimRefused, Releases, SyncLocks
  <2>2. ASSUME NEW v \in Workers
        PROVE  Clear(v)'
    <3>1. CASE \E p \in Runners : Scans(p) \/ Claims(p) \/ ClaimRefused(p) \/ Releases(p)
      <4>1. \/ pc'[v] = pc[v] /\ tx'[v] = tx[v] /\ art'[v] = art[v] /\ stage'[v] = stage[v] /\ mem'[v] = mem[v]
            \/ pc'[v] \in {"idle", "due", "claimed", "reread", "release"}
        BY <1>0, <3>1 DEF Scans, Claims, ClaimRefused, Releases
      <4>. QED BY <1>1, <2>1, <4>1, StaysClear
    <3>2. CASE \E p \in Runners : SyncLocks(p)
      <4>1. /\ pc'[v] = pc[v] \/ (pc[v] = "sync" /\ pc'[v] = "syncing")
            /\ tx' = tx /\ art' = art /\ stage' = stage /\ mem' = mem
        BY <1>0, <3>2 DEF SyncLocks
      <4>2. CASE pc'[v] = pc[v]
        BY <1>1, <2>1, <4>1, <4>2, StaysClear
      <4>3. CASE pc[v] = "sync" /\ pc'[v] = "syncing"
        BY <1>1, <2>1, <4>1, <4>3 DEF Unverified, Clear, AllPassed, HasTurn, Inside, RunPoints, HasResult
      <4>. QED BY <4>1, <4>2, <4>3
    <3>. QED BY <1>3, <3>1, <3>2
  <2>. QED BY <1>2, <2>1, <2>2 DEF Unverified
<1>4. CASE \E p \in Runners : Recovers(p)
  <2>. PICK p \in Runners : Recovers(p)
    BY <1>4
  <2>1. UNCHANGED <<stored, delivered, tx, stage>>
    BY DEF Recovers
  <2>2. ASSUME NEW v \in Workers
        PROVE  Clear(v)'
    <3>1. CASE v # p
      BY <1>0, <1>1, <2>1, <3>1, StaysClear DEF Recovers
    <3>2. CASE v = p
      <4>1. /\ (pc'[v] = "checked" /\ view.node \in Executable) \/ pc'[v] = "sync"
            /\ mem'[v] = view
        BY <1>0, <3>2 DEF Recovers
      <4>2. AllPassed \/ Shut
        BY DEF Unverified
      <4>. QED
        BY <1>1, <2>1, <4>1, <4>2 DEF Clear, AllPassed, HasTurn, HasResult, Shut, Inside, RunPoints
    <3>. QED BY <3>1, <3>2
  <2>. QED BY <1>2, <2>1, <2>2 DEF Unverified
<1>5. CASE \E p \in Runners : Syncs(p)
  <2>. PICK p \in Runners : Syncs(p)
    BY <1>5
  <2>1. UNCHANGED <<stored, delivered, tx, stage, mem, art>> /\ pc[p] = "syncing"
    BY DEF Syncs
  <2>2. ASSUME NEW v \in Workers
        PROVE  Clear(v)'
    <3>1. CASE v # p
      BY <1>0, <1>1, <2>1, <3>1, StaysClear DEF Syncs
    <3>2. CASE v = p
      <4>1. (pc'[v] = "deliver" /\ HasTurn(v)) \/ pc'[v] = "release"
        BY <1>0, <3>2 DEF Syncs
      <4>2. HasTurn(v) => AllPassed
        BY <2>1, <3>2 DEF Unverified
      <4>. QED
        BY <1>1, <2>1, <4>1, <4>2 DEF Clear, AllPassed, HasTurn, HasResult, Inside, RunPoints
    <3>. QED BY <3>1, <3>2
  <2>. QED BY <1>2, <2>1, <2>2 DEF Unverified
<1>6. CASE \E p \in Runners : Fails(p)
  <2>. PICK p \in Runners : Fails(p)
    BY <1>6
  <2>1. UNCHANGED <<stored, delivered, stage, mem, art>>
    BY DEF Fails
  <2>2. ASSUME NEW v \in Workers
        PROVE  Clear(v)'
    <3>1. CASE v # p \/ pc'[v] # "block"
      BY <1>0, <1>1, <2>1, <3>1, StaysClear DEF Fails
    <3>2. CASE v = p /\ pc'[v] = "block"
      <4>1. pc[v] \in RunPoints
        BY <1>0, <3>2 DEF Fails
      <4>2. AllPassed
        BY <4>1 DEF Unverified, Inside
      <4>. QED BY <1>1, <2>1, <3>2, <4>2 DEF Clear, AllPassed, HasResult
    <3>. QED BY <3>1, <3>2
  <2>. QED BY <1>2, <2>1, <2>2 DEF Unverified
<1>7. CASE \E w \in Workers : Starts(w) \/ ReadsAgain(w) \/ DeliveryLooks(w) \/ Crash(w)
  <2>. PICK w \in Workers : Starts(w) \/ ReadsAgain(w) \/ DeliveryLooks(w) \/ Crash(w)
    BY <1>7
  <2>1. UNCHANGED <<stored, delivered, art>>
    BY DEF Starts, ReadsAgain, DeliveryLooks, Crash
  <2>2. ASSUME NEW v \in Workers
        PROVE  Clear(v)'
    <3>1. CASE v # w
      BY <1>0, <1>1, <2>1, <3>1, StaysClear DEF Starts, ReadsAgain, DeliveryLooks, Crash
    <3>2. CASE v = w /\ Starts(w)
      <4>1. AllPassed /\ pc'[w] = "ensure"
        BY <1>0, <3>2 DEF Starts, Unverified, Inside
      <4>. QED BY <1>1, <2>1, <3>2, <4>1 DEF Clear, AllPassed, HasResult
    <3>3. CASE v = w /\ ReadsAgain(w)
      <4>1. pc'[w] = "sync" /\ mem'[w] = view
        BY <1>0, <3>3 DEF ReadsAgain
      <4>2. AllPassed \/ Shut
        BY DEF Unverified
      <4>. QED
        BY <1>1, <2>1, <3>3, <4>1, <4>2 DEF Clear, AllPassed, HasTurn, HasResult, Shut, Inside, RunPoints
    <3>4. CASE v = w /\ DeliveryLooks(w)
      <4>1. AllPassed /\ pc'[w] \in {"insert", "release"}
        BY <1>0, <3>4 DEF DeliveryLooks, Unverified
      <4>. QED BY <1>1, <2>1, <3>4, <4>1 DEF Clear, AllPassed, HasResult, Inside, RunPoints
    <3>5. CASE v = w /\ Crash(w)
      BY <1>0, <1>1, <2>1, <3>5, StaysClear DEF Crash
    <3>. QED BY <3>1, <3>2, <3>3, <3>4, <3>5
  <2>. QED BY <1>2, <2>1, <2>2 DEF Unverified
<1>8. CASE \E w \in Workers : Commits(w)
  <2>. PICK w \in Workers : Commits(w)
    BY <1>8
  <2>1. delivered' = delivered /\ pc[w] = "commit" /\ pc'[w] \in {"reread", "release"}
    BY <1>0 DEF Commits
  <2>2. AllPassed /\ (AllPassed' \/ Shut')
    BY <1>1, <2>1 DEF Commits, Unverified, Inside, AllPassed, Shut
  <2>3. ASSUME NEW v \in Workers
        PROVE  Clear(v)'
    <3>1. CASE v = w
      BY <2>1, <3>1 DEF Clear, Inside, RunPoints, HasResult
    <3>2. CASE v # w
      <4>1. Working(w) /\ pc'[v] = pc[v]
        BY <1>0, <2>1, <3>2 DEF Working, Commits
      <4>2. pc[v] \notin Inside \cup {"sync", "syncing", "deliver", "insert"} /\ ~HasResult(v)
        BY <1>0, <3>2, <4>1, AtWork, Sole
      <4>. QED BY <4>1, <4>2 DEF Clear, Inside, RunPoints, HasResult
    <3>. QED BY <3>1, <3>2
  <2>4. delivered' \subseteq passed'
    BY <1>1, <2>1 DEF Unverified
  <2>. QED BY <2>2, <2>3, <2>4 DEF Unverified, Clear
<1>9. CASE \E w \in Workers : Delivers(w)
  <2>. PICK w \in Workers : Delivers(w)
    BY <1>9
  <2>1. UNCHANGED <<stored, art, tx, stage, mem>> /\ pc[w] = "insert" /\ pc' = [pc EXCEPT ![w] = "release"]
        /\ delivered' = delivered \cup Named(w)
    BY DEF Delivers
  <2>2. AllPassed
    BY <2>1 DEF Unverified
  <2>3. tx[w] = 0
    BY <1>0, <2>1 DEF LeaseInv, TxHeld, RunPoints
  <2>4. art[w] # 0 => art[w] \in stored
    BY <1>0, <2>1, <2>3 DEF DeliveryInv, FilesKept, Holding
  <2>5. Named(w) \subseteq passed
    BY <2>2, <2>4 DEF Named, AllPassed
  <2>6. \A v \in Workers : Clear(v)'
    BY <1>0, <1>1, <2>1, StaysClear
  <2>. QED BY <1>2, <2>1, <2>5, <2>6 DEF Unverified
<1>10. CASE LeaseRunsOut \/ Overruns \/ CrashApi
  <2>1. UNCHANGED <<stored, delivered, art, tx, stage, mem>> /\ \A v \in Workers : pc'[v] = pc[v]
    BY <1>0, <1>10 DEF LeaseRunsOut, Overruns, CrashApi
  <2>2. \A v \in Workers : Clear(v)'
    BY <1>1, <2>1, StaysClear
  <2>. QED BY <1>2, <2>1, <2>2 DEF Unverified
<1>. QED
  BY <1>3, <1>4, <1>5, <1>6, <1>7, <1>8, <1>9, <1>10 DEF Others, Loop, WorkerLoop

\* While nothing is answered, the owner can only cancel, which shuts the task.
LEMMA RequestsVerified ==
  ASSUME VerifiedInv, Unverified, Cancel \/ HumanInput \/ AnswerFinds \/ Answering,
         ~Reopened'
  PROVE  Unverified'
<1>0. view \in Views /\ used \in [Kinds -> Nat] /\ answers \in Nat
  BY DEF VerifiedInv, DeliveryInv, LeaseInv, TypeInv, TypeOK
<1>1. UNCHANGED <<artifactVars, turnVars, pc, localVars, fileVars>>
  BY DEF Cancel, HumanInput, AnswerFinds, Answering, AnswerRecords, AnswerAsksAgain, AnswerPlans,
     AnswerValidates, AnswerCheckpoints, runnerVars
<1>2. view' = view \/ Shut'
  <2>1. CASE Cancel
    BY <1>0, <2>1 DEF Cancel, AppendsAlways, Cancelled, Views, Shut, Executable
  <2>2. CASE HumanInput
    BY <1>0, <2>2 DEF HumanInput, Spend, Reopened, Kinds
  <2>3. CASE AnswerFinds
    BY <2>3 DEF AnswerFinds, logVars
  <2>4. CASE Answering
    BY <1>0, <2>4 DEF Answering, AnswerRecords, AnswerAsksAgain, AnswerPlans, AnswerValidates,
       AnswerCheckpoints, VerifiedInv, AnswersCounted, Reopened
  <2>. QED BY <2>1, <2>2, <2>3, <2>4
<1>. QED
  BY <1>1, <1>2 DEF Unverified, AllPassed, HasResult, HasTurn, Shut, artifactVars, turnVars, localVars, fileVars

LEMMA VerifiedStep ==
  ASSUME VerifiedInv, [Next]_vars
  PROVE  VerifiedInv'
<1>1. DeliveryInv' /\ AnswersCounted'
  BY DeliveryStep, StaysReopened DEF VerifiedInv, DeliveryInv, LeaseInv
<1>2. CASE UNCHANGED vars
  <2>. USE <1>2 DEF vars, logVars, leaseVars, artifactVars, turnVars, localVars, requestVars, fileVars
  <2>1. RunShape'
    BY DEF VerifiedInv, RunShape, HasResult
  <2>2. Alone' /\ ~Reopened' => Alone /\ ~Reopened
    BY DEF Alone, Reopened, OneWorkerOnly
  <2>3. Unverified => Unverified'
    BY DEF Unverified, AllPassed, HasResult, HasTurn, Shut
  <2>. QED BY <1>1, <2>1, <2>2, <2>3 DEF VerifiedInv
<1>3. CASE Next
  <2>1. RunShape'
    <3>1. CASE Others
      BY <3>1, OthersShape DEF VerifiedInv
    <3>2. CASE \E w \in Workers : RunTask(w)
      BY <3>2, RunTaskShape DEF VerifiedInv
    <3>3. CASE Cancel \/ HumanInput \/ AnswerFinds \/ Answering
      <4>1. UNCHANGED <<pc, localVars>>
        BY <3>3 DEF Cancel, HumanInput, AnswerFinds, Answering, AnswerRecords, AnswerAsksAgain,
           AnswerPlans, AnswerValidates, AnswerCheckpoints, runnerVars
      <4>. QED BY <4>1 DEF VerifiedInv, RunShape, HasResult, localVars
    <3>. QED BY <1>3, <3>1, <3>2, <3>3 DEF Next, Others
  <2>2. ASSUME Alone', ~Reopened'
        PROVE  Unverified'
    <3>1. Alone /\ ~Reopened /\ Unverified
      BY <2>2, StaysReopened DEF VerifiedInv, DeliveryInv, LeaseInv
    <3>2. CASE Others
      BY <3>1, <3>2, OthersVerified
    <3>3. CASE \E w \in Workers : RunTask(w)
      BY <3>1, <3>3, RunTaskVerified
    <3>4. CASE Cancel \/ HumanInput \/ AnswerFinds \/ Answering
      BY <2>2, <3>1, <3>4, RequestsVerified
    <3>. QED BY <1>3, <3>2, <3>3, <3>4 DEF Next, Others
  <2>. QED BY <1>1, <2>1, <2>2 DEF VerifiedInv
<1>. QED BY <1>2, <1>3

LEMMA VerifiedInit == ASSUME Init PROVE VerifiedInv
<1>1. DeliveryInv
  BY DeliveryInit
<1>2. /\ \A w \in Workers : pc[w] = "idle"
      /\ stored = {} /\ delivered = {} /\ request.at = "none"
  BY DEF Init, Runners
<1>. QED
  BY <1>1, <1>2 DEF VerifiedInv, AnswersCounted, RunShape, Unverified, AllPassed, HasResult, Inside, RunPoints

LEMMA VerifiedInvariant == Spec => []VerifiedInv
  BY VerifiedInit, VerifiedStep, PTL DEF Spec

\* Faults, crashes, cancellations: no file that failed or missed its
\* verification is told of while the owner has answered nothing, with the one
\* worker that is started, ...
THEOREM DeliveryIsVerified ==
  ASSUME OneWorkerOnly
  PROVE  Spec => []DeliveredIsVerified
<1>1. ASSUME VerifiedInv
      PROVE  DeliveredIsVerified
  <2>1. used \in [Kinds -> Nat] /\ answers \in Nat
    BY <1>1 DEF VerifiedInv, DeliveryInv, LeaseInv, TypeInv, TypeOK
  <2>. QED BY <1>1, <2>1 DEF VerifiedInv, Alone, Unverified, Reopened, DeliveredIsVerified
<1>. QED BY <1>1, VerifiedInvariant, PTL

\* ... and with any number of workers until a lease runs out under one of them.
THEOREM LeasesKeepVerification == Spec => [](used["overrun"] = 0 => DeliveredIsVerified)
<1>1. ASSUME VerifiedInv
      PROVE  used["overrun"] = 0 => DeliveredIsVerified
  <2>1. used \in [Kinds -> Nat] /\ answers \in Nat
    BY <1>1 DEF VerifiedInv, DeliveryInv, LeaseInv, TypeInv, TypeOK
  <2>. QED BY <1>1, <2>1 DEF VerifiedInv, Alone, Unverified, Reopened, DeliveredIsVerified
<1>. QED BY <1>1, VerifiedInvariant, PTL

-----------------------------------------------------------------------------
(* A task is not stranded.                                                 *)

\* What Resumable supposes of the past.
Few == used["crash"] = 0 /\ used["fault"] <= 1 /\ End \notin keys

\* A task that is blocked, delivered or cancelled does not run.
Calm == view.node \in {"blocked", "delivered", "cancelled"} => ~Running

\* The log of a task that is left to itself.
Rest ==
  /\ Running => view.node \in Executable \cup {"waiting_for_human_input"}
  /\ view.node = "awaiting_executor" => view.step = Gather /\ view.done = {}

\* The steps before a step of the plan.
Before(s) == CASE s = Gather -> {} [] s = Generate -> {Gather} [] s = Verify -> {Gather, Generate}

InTask(w) == pc[w] \in RunPoints \cup {"block"}

\* The generation is verified: from here run_task goes on to the end unless
\* something fails.
Past(w) ==
  /\ pc[w] \in RunPoints
  /\ stage[w] = Verify \/ (stage[w] = Generate /\ pc[w] = "checkpoint")

\* What a worker in the task does before anything has failed: the steps in the
\* order of the plan, and it blocks the task only when it finds it at rest.
Orderly(w) ==
  /\ pc[w] = "block" => Rest
  /\ pc[w] # "load"
  /\ pc[w] = "ensure" /\ mem[w].node \notin Executable => Rest /\ stage[w] = Gather
  /\ (pc[w] = "ensure" /\ mem[w].node = "select_step") \/ pc[w] = "packet" =>
       mem[w].done = Before(stage[w]) \/ (stage[w] = Gather /\ mem[w].done = {Gather})
  /\ HasPacket(w) =>
       /\ mem[w].step \in Steps /\ mem[w].done = Before(mem[w].step)
       /\ mem[w].step = stage[w] \/ (stage[w] = Gather /\ mem[w].step = Generate)
  /\ HasResult(w) => mem[w].done = Before(stage[w])
  /\ pc[w] \in {"final", "complete"} => stage[w] = Verify

\* The verification is the last step that is done, also after a failure.
VerifyLast ==
  \A w \in Workers :
    /\ HasResult(w) \/ (pc[w] \in {"ensure", "load"} /\ mem[w].node = "awaiting_executor") =>
         (mem[w].step = Verify => {Gather, Generate} \subseteq mem[w].done)
    /\ pc[w] = "final" => Pending(mem[w]) = {}

Early ==
  /\ \A d \in {view.done, request.done} : d \subseteq {Gather} \/ \E w \in Workers : Past(w)
  /\ \A w \in Workers : InTask(w) => Orderly(w)

NotStranded ==
  /\ (\A w \in Workers : ~InTask(w)) => Rest
  /\ VerifyLast
  /\ used["fault"] = 0 => Early

ResumeInv ==
  /\ DeliveryInv /\ RunShape /\ Calm
  /\ Alone /\ Few => NotStranded

\* Nothing leaves the log.
LEMMA KeysGrow ==
  ASSUME DeliveryInv, [Next]_vars
  PROVE  keys \subseteq keys'
<1>1. CASE Others
  BY <1>1, OthersQuiet DEF Others
<1>2. CASE Cancel \/ HumanInput \/ AnswerFinds \/ Answering
  BY <1>2, RequestQuiet DEF QuietLog
<1>3. CASE \E w \in Workers : CompletesTask(w)
  BY <1>3 DEF CompletesTask, AppendsOnce, logVars
<1>4. CASE \E w \in Workers : RunTask(w) /\ ~CompletesTask(w)
  BY <1>4, RunTaskQuiet DEF QuietLog
<1>5. CASE UNCHANGED vars
  BY <1>5 DEF vars, logVars
<1>. QED BY <1>1, <1>2, <1>3, <1>4, <1>5 DEF Next, Others

LEMMA FewBefore ==
  ASSUME DeliveryInv, [Next]_vars, Few'
  PROVE  /\ Alone' => Alone
         /\ Few
         /\ keys \subseteq keys'
         /\ used'["crash"] = used["crash"]
         /\ used["fault"] \in Nat /\ used'["fault"] \in Nat /\ used["fault"] <= used'["fault"]
<1>1. TypeInv /\ {"crash", "fault", "overrun"} \subseteq Kinds
  BY DEF DeliveryInv, LeaseInv, Kinds
<1>2. \A k \in Kinds : used[k] \in Nat /\ used'[k] \in Nat /\ used[k] <= used'[k]
  BY <1>1, NothingUnspent
<1>3. keys \subseteq keys'
  BY KeysGrow
<1>4. Alone' => Alone
  BY <1>1, <1>2 DEF Alone, OneWorkerOnly
<1>5. Few
  BY <1>1, <1>2, <1>3 DEF Few
<1>. QED BY <1>1, <1>2, <1>3, <1>4, <1>5 DEF Few

LEMMA CalmStep ==
  ASSUME DeliveryInv, Calm, [Next]_vars
  PROVE  Calm'
<1>. USE DEF Calm, Running, Views, AppendsAlways, AppendsOnce, logVars
<1>0. view \in Views
  BY DEF DeliveryInv, LeaseInv, TypeInv, TypeOK
<1>1. CASE UNCHANGED vars
  BY <1>1 DEF vars
<1>2. CASE Others
  BY <1>2, OthersQuiet DEF Others
<1>3. CASE Cancel \/ HumanInput \/ AnswerFinds \/ Answering
  BY <1>0, <1>3 DEF Cancel, HumanInput, AnswerFinds, Answering, AnswerRecords, AnswerAsksAgain,
     AnswerPlans, AnswerValidates, AnswerCheckpoints, Cancelled, Answered, Asked, Planned,
     Validated, Checkpoint
<1>4. CASE \E w \in Workers : RunTask(w)
  <2>. PICK w \in Workers : RunTask(w)
    BY <1>4
  <2>1. CASE SelectsStep(w) \/ BuildsPacket(w)
    BY <1>0, <2>1 DEF SelectsStep, BuildsPacket, Selected, Packet
  <2>2. CASE PausesForInput(w) \/ ReturnsResult(w) \/ RecordsVerified(w)
    BY <1>0, <2>2 DEF PausesForInput, ReturnsResult, RecordsVerified, Asked, Result, Verified
  <2>3. CASE SavesCheckpoint(w)
    BY <1>0, <2>3 DEF SavesCheckpoint, Checkpoint
  <2>4. CASE EvaluatesFinal(w) \/ CompletesTask(w) \/ BlocksTask(w)
    BY <1>0, <2>4 DEF EvaluatesFinal, CompletesTask, BlocksTask, Evaluated, Completed, Stopped
  <2>5. CASE UNCHANGED logVars
    BY <2>5
  <2>. QED
    BY <2>1, <2>2, <2>3, <2>4, <2>5 DEF RunTask, CannotGoOn, GatherPacket, LoadsArtifact,
       StoresArtifact, VerifiesArtifact, StepFails
<1>. QED BY <1>1, <1>2, <1>3, <1>4 DEF Next, Others

\* Whoever is in the task is in it alone.
LEMMA OneInTask ==
  ASSUME LeaseInv, Alone, NEW v \in Workers, NEW w \in Workers, InTask(v), Working(w)
  PROVE  v = w
  BY Sole DEF InTask, Working, RunPoints

\* The requests leave a log at rest, and bring no step into it that is not there.
LEMMA RequestsRest ==
  ASSUME DeliveryInv, Cancel \/ HumanInput \/ AnswerFinds \/ Answering
  PROVE  /\ Rest => Rest'
         /\ view'.done \in {view.done, request.done}
         /\ request'.done \in {request.done, view.done, {}}
         /\ UNCHANGED <<pc, mem, stage>>
<1>. USE DEF Views, AppendsAlways, AppendsOnce, logVars, requestVars, Rest, Running, Executable
<1>0. view \in Views /\ request \in [at: Requests, done: SUBSET Steps]
  BY DEF DeliveryInv, LeaseInv, TypeInv, TypeOK
<1>1. CASE Cancel
  BY <1>0, <1>1 DEF Cancel, Cancelled, runnerVars, localVars
<1>2. CASE HumanInput
  BY <1>0, <1>2 DEF HumanInput, Answered, runnerVars, localVars
<1>3. CASE AnswerFinds
  BY <1>0, <1>3 DEF AnswerFinds, runnerVars, localVars
<1>4. CASE AnswerRecords
  BY <1>0, <1>4 DEF AnswerRecords, Answered, runnerVars, localVars
<1>5. CASE AnswerAsksAgain
  BY <1>0, <1>5 DEF AnswerAsksAgain, Asked, runnerVars, localVars
<1>6. CASE AnswerPlans
  BY <1>0, <1>6 DEF AnswerPlans, Planned, runnerVars, localVars
<1>7. CASE AnswerValidates
  BY <1>0, <1>7 DEF AnswerValidates, Validated, runnerVars, localVars
<1>8. CASE AnswerCheckpoints
  BY <1>0, <1>8 DEF AnswerCheckpoints, Checkpoint, runnerVars, localVars
<1>. QED BY <1>1, <1>2, <1>3, <1>4, <1>5, <1>6, <1>7, <1>8 DEF Answering

LEMMA RequestsResume ==
  ASSUME DeliveryInv, NotStranded, Cancel \/ HumanInput \/ AnswerFinds \/ Answering,
         used'["fault"] = 0 => used["fault"] = 0
  PROVE  NotStranded'
<1>1. /\ Rest => Rest'
      /\ view'.done \in {view.done, request.done}
      /\ request'.done \in {request.done, view.done, {}}
      /\ UNCHANGED <<pc, mem, stage>>
  BY RequestsRest
<1>2. (\A w \in Workers : ~InTask(w)') => Rest'
  BY <1>1 DEF NotStranded, InTask
<1>3. VerifyLast'
  BY <1>1 DEF NotStranded, VerifyLast, HasResult, Pending
<1>4. ASSUME Early
      PROVE  Early'
  <2>1. ASSUME NEW w \in Workers, InTask(w), Orderly(w)
        PROVE  Orderly(w)'
    BY <1>1, <2>1 DEF Orderly, HasPacket, HasResult
  <2>2. \A w \in Workers : Past(w)' = Past(w) /\ InTask(w)' = InTask(w)
    BY <1>1 DEF Past, InTask
  <2>. QED BY <1>1, <1>4, <2>1, <2>2 DEF Early
<1>. QED BY <1>2, <1>3, <1>4 DEF NotStranded

\* A step that touches no worker in the task, the log or the request.
LEMMA StaysResumable ==
  ASSUME NotStranded, UNCHANGED view, request'.done \in {request.done, {}},
         used'["fault"] = 0 => used["fault"] = 0,
         \A v \in Workers : InTask(v)' \/ InTask(v) =>
           pc'[v] = pc[v] /\ mem'[v] = mem[v] /\ stage'[v] = stage[v]
  PROVE  NotStranded'
<1>1. \A v \in Workers : InTask(v)' = InTask(v)
  BY DEF InTask
<1>2. Rest' = Rest
  BY DEF Rest, Running
<1>3. VerifyLast'
  <2>1. ASSUME NEW v \in Workers, HasResult(v)' \/ pc'[v] \in {"ensure", "load", "final"}
        PROVE  pc'[v] = pc[v] /\ mem'[v] = mem[v]
    BY <2>1 DEF HasResult, InTask, RunPoints
  <2>. QED BY <2>1 DEF NotStranded, VerifyLast, HasResult, Pending
<1>4. ASSUME Early
      PROVE  Early'
  <2>1. ASSUME NEW w \in Workers, InTask(w)'
        PROVE  Orderly(w)'
    BY <1>1, <1>2, <1>4, <2>1 DEF Early, Orderly, HasPacket, HasResult
  <2>2. \A w \in Workers : Past(w) => Past(w)'
    BY DEF Past, InTask
  <2>. QED BY <1>4, <2>1, <2>2 DEF Early
<1>. QED BY <1>1, <1>2, <1>3, <1>4 DEF NotStranded

LEMMA OthersResume ==
  ASSUME DeliveryInv, Alone, Few, NotStranded, Others,
         used'["crash"] = used["crash"], used["fault"] \in Nat, used'["fault"] \in Nat,
         used["fault"] <= used'["fault"], Few'
  PROVE  NotStranded'
<1>. USE DEF localVars, requestVars
<1>0. /\ pc \in [Runners -> Points] /\ Workers \subseteq Runners /\ stage \in [Workers -> Steps]
      /\ mem \in [Runners -> Views] /\ view \in Views /\ LeaseInv /\ used \in [Kinds -> Nat]
      /\ Recoverer \in Runners /\ Recoverer \notin Workers
  BY ArtifactAssumption DEF DeliveryInv, LeaseInv, TypeInv, TypeOK, Runners, ArtifactAssumption
<1>1. UNCHANGED view /\ (used'["fault"] = 0 => used["fault"] = 0)
  BY OthersQuiet DEF Others
<1>2. ~CrashApi /\ \A w \in Workers : ~Crash(w)
  BY <1>0 DEF CrashApi, Crash, Spend, Kinds
<1>3. UNCHANGED requestVars
  BY <1>2 DEF Others, Scans, Claims, Loop, ClaimRefused, Releases, Recovers, SyncLocks, Syncs,
     Fails, WorkerLoop, Starts, Commits, ReadsAgain, DeliveryLooks, Delivers,
     LeaseRunsOut, Overruns
<1>4. CASE \A v \in Workers : InTask(v)' \/ InTask(v) =>
             pc'[v] = pc[v] /\ mem'[v] = mem[v] /\ stage'[v] = stage[v]
  BY <1>1, <1>3, <1>4, StaysResumable
<1>5. CASE \E p \in Runners : Scans(p) \/ Claims(p) \/ Loop(p)
  BY <1>0, <1>4, <1>5 DEF Scans, Claims, Loop, ClaimRefused, Releases, Recovers, SyncLocks, Syncs,
     InTask, RunPoints
<1>6. CASE \E w \in Workers : Commits(w) \/ ReadsAgain(w) \/ DeliveryLooks(w) \/ Delivers(w)
  BY <1>0, <1>4, <1>6 DEF Commits, ReadsAgain, DeliveryLooks, Delivers, InTask, RunPoints
<1>7. CASE LeaseRunsOut \/ Overruns
  BY <1>0, <1>4, <1>7 DEF LeaseRunsOut, Overruns, InTask
<1>8. CASE \E p \in Runners : Fails(p)
  <2>. PICK p \in Runners : Fails(p)
    BY <1>8
  <2>1. /\ UNCHANGED <<stage, mem>> /\ used'["fault"] # 0 /\ used["fault"] = 0
        /\ \A v \in Workers : v # p => pc'[v] = pc[v]
    BY <1>0 DEF Fails, Spend, Few, Kinds
  <2>2. CASE p \notin Workers \/ ~InTask(p)
    <3>1. \A v \in Workers : InTask(v)' \/ InTask(v) => v # p
      BY <1>0, <2>2 DEF Fails, InTask, RunPoints
    <3>. QED BY <1>4, <2>1, <3>1
  <2>3. CASE p \in Workers /\ InTask(p)
    <3>1. \A v \in Workers : v # p => ~InTask(v)
      BY <1>0, <2>3, OneInTask DEF InTask, Working, RunPoints
    <3>2. pc'[p] \in {"block", "release"} /\ (pc'[p] = "release" => pc[p] = "block")
      BY <1>0, <2>3 DEF Fails, InTask, RunPoints
    <3>3. pc[p] = "block" => Rest
      BY <2>1, <2>3 DEF NotStranded, Early, Orderly
    <3>4. (\A w \in Workers : ~InTask(w)') => Rest'
      BY <1>1, <2>3, <3>2, <3>3 DEF InTask, Rest, Running
    <3>5. VerifyLast'
      BY <2>1, <3>1, <3>2 DEF VerifyLast, InTask, HasResult, RunPoints
    <3>. QED BY <2>1, <3>4, <3>5 DEF NotStranded
  <2>. QED BY <2>2, <2>3
<1>9. CASE \E w \in Workers : Starts(w)
  <2>. PICK w \in Workers : Starts(w)
    BY <1>9
  <2>1. /\ pc[w] = "checked" /\ pc'[w] = "ensure" /\ mem'[w] = view /\ stage'[w] = Gather
        /\ \A v \in Workers : v # w => pc'[v] = pc[v]
    BY <1>0 DEF Starts
  <2>2. \A v \in Workers : ~InTask(v)
    BY <1>0, <2>1, OneInTask DEF InTask, Working, RunPoints
  <2>3. Rest /\ Rest'
    BY <1>1, <2>2 DEF NotStranded, Rest, Running
  <2>4. InTask(w)'
    BY <2>1 DEF InTask, RunPoints
  <2>5. VerifyLast'
    BY <2>1, <2>2, <2>3 DEF VerifyLast, InTask, HasResult, RunPoints, Rest, Gather, Verify
  <2>6. ASSUME used["fault"] = 0
        PROVE  Early'
    <3>1. view.done \subseteq {Gather} /\ request.done \subseteq {Gather}
      BY <2>2, <2>6 DEF NotStranded, Early, Past, InTask
    <3>2. Orderly(w)'
      BY <2>1, <2>3, <3>1 DEF Orderly, HasPacket, HasResult, Rest, Before, Steps, Gather, Generate, Verify, Executable
    <3>3. \A v \in Workers : v # w => ~InTask(v)'
      BY <2>1, <2>2 DEF InTask
    <3>. QED BY <1>1, <1>3, <3>1, <3>2, <3>3 DEF Early
  <2>. QED BY <1>1, <2>4, <2>5, <2>6 DEF NotStranded
<1>. QED BY <1>2, <1>5, <1>6, <1>7, <1>8, <1>9 DEF Others, WorkerLoop

\* What a step of run_task keeps of NotStranded, as seen from its worker: the
\* others are not in the task.
Resumes(w) ==
  /\ pc'[w] \notin RunPoints \cup {"block"} => Rest'
  /\ HasResult(w)' \/ (pc'[w] \in {"ensure", "load"} /\ mem'[w].node = "awaiting_executor") =>
       (mem'[w].step = Verify => {Gather, Generate} \subseteq mem'[w].done)
  /\ pc'[w] = "final" => Pending(mem[w])' = {}
  /\ used'["fault"] = 0 =>
       /\ InTask(w)' => Orderly(w)'
       /\ Past(w) => Past(w)'
       /\ view'.done \subseteq view.done \cup {Gather} \/ Past(w)'

\* What is supposed of the worker before.
Ready(w) ==
  /\ HasResult(w) \/ (pc[w] \in {"ensure", "load"} /\ mem[w].node = "awaiting_executor") =>
       (mem[w].step = Verify => {Gather, Generate} \subseteq mem[w].done)
  /\ pc[w] = "final" => Pending(mem[w]) = {}
  /\ used["fault"] = 0 => Orderly(w)
  /\ HasResult(w) => mem[w].step = stage[w]
  /\ used["fault"] \in Nat /\ used'["fault"] \in Nat
  /\ used'["fault"] = 0 => used["fault"] = 0
  /\ w \in Workers /\ pc \in [Runners -> Points] /\ w \in Runners /\ mem \in [Runners -> Views]
  /\ stage \in [Workers -> Steps] /\ view \in Views /\ used \in [Kinds -> Nat]

\* An append that fails has spent a fault.
LEMMA GoesOrFails ==
  ASSUME NEW w, NEW p, Ready(w), Goes(w, p)
  PROVE  /\ used'["fault"] = 0 => pc' = [pc EXCEPT ![w] = p]
         /\ pc' = [pc EXCEPT ![w] = p] \/ pc' = [pc EXCEPT ![w] = "block"]
  BY DEF Goes, Spend, Ready, Kinds

LEMMA EnsureResumes ==
  ASSUME NEW w \in Workers, Ready(w), SelectsStep(w) \/ BuildsPacket(w) \/ CannotGoOn(w)
  PROVE  Resumes(w)
<1>. USE DEF HasResult, HasPacket, Past, InTask, RunPoints, localVars, Views
<1>1. CASE SelectsStep(w)
  <2>1. /\ pc[w] = "ensure" /\ mem[w].node = "select_step" /\ UNCHANGED <<mem, stage>>
        /\ Goes(w, "packet")
    BY <1>1 DEF SelectsStep
  <2>2. view'.done = view.done
    BY <1>1 DEF SelectsStep, AppendsOnce, Selected, logVars, Ready
  <2>3. pc'[w] \in {"packet", "block"} /\ (used'["fault"] = 0 => pc'[w] = "packet")
    BY <2>1, GoesOrFails DEF Ready
  <2>4. used'["fault"] = 0 => Orderly(w)'
    BY <2>1, <2>3 DEF Ready, Orderly
  <2>. QED BY <2>1, <2>2, <2>3, <2>4 DEF Resumes
<1>2. CASE BuildsPacket(w)
  <2>. DEFINE s == NextStep(mem[w])
  <2>1. /\ pc[w] = "packet" /\ mem' = [mem EXCEPT ![w] = Packet(mem[w], s)] /\ UNCHANGED stage
        /\ Goes(w, "ensure")
    BY <1>2 DEF BuildsPacket
  <2>2. view'.done = view.done
    BY <1>2 DEF BuildsPacket, AppendsOnce, Packet, logVars, Ready
  <2>3. pc'[w] \in {"ensure", "block"} /\ (used'["fault"] = 0 => pc'[w] = "ensure")
    BY <2>1, GoesOrFails DEF Ready
  <2>4. mem'[w].step = s /\ mem'[w].done = mem[w].done /\ mem'[w].node = "awaiting_executor"
    BY <2>1 DEF Ready, Packet
  <2>5. s \in Steps /\ (s = Verify => {Gather, Generate} \subseteq mem[w].done)
    BY DEF NextStep, Pending, Steps, Gather, Generate, Verify
  <2>6. ASSUME used'["fault"] = 0
        PROVE  Orderly(w)'
    <3>1. mem[w].done = Before(stage[w]) \/ (stage[w] = Gather /\ mem[w].done = {Gather})
      BY <2>1, <2>6 DEF Ready, Orderly
    <3>2. stage[w] \in Steps
      BY DEF Ready
    <3>3. \/ s = stage[w] /\ mem[w].done = Before(s)
          \/ stage[w] = Gather /\ s = Generate /\ mem[w].done = Before(s)
      BY <3>1, <3>2 DEF NextStep, Pending, Before, Steps, Gather, Generate, Verify
    <3>. QED BY <2>1, <2>3, <2>4, <2>5, <2>6, <3>3 DEF Orderly, Executable
  <2>. HIDE DEF s
  <2>. QED BY <2>1, <2>2, <2>3, <2>4, <2>5, <2>6 DEF Resumes
<1>3. CASE CannotGoOn(w)
  <2>1. pc[w] = "ensure" /\ Unexpected(w) /\ pc'[w] = "block" /\ UNCHANGED <<view, mem, stage>>
        /\ UNCHANGED used
    BY <1>3 DEF CannotGoOn, Ready, logVars
  <2>2. ASSUME used["fault"] = 0
        PROVE  Rest /\ ~Past(w)
    <3>1. Orderly(w) /\ stage[w] \in Steps
      BY <2>2 DEF Ready
    <3>2. CASE mem[w].node \notin Executable
      BY <2>1, <3>1, <3>2 DEF Orderly, Gather, Verify
    <3>3. CASE mem[w].node = "select_step" /\ Pending(mem[w]) = {}
      BY <2>1, <3>1, <3>3 DEF Orderly, Pending, Before, Steps, Gather, Generate, Verify
    <3>4. CASE HasPacket(w) /\ stage[w] # Gather /\ mem[w].step # stage[w]
      BY <2>1, <3>1, <3>4 DEF Orderly
    <3>. QED BY <2>1, <3>2, <3>3, <3>4 DEF Unexpected
  <2>3. Rest' = Rest
    BY <2>1 DEF Rest, Running
  <2>4. used'["fault"] = 0 => Orderly(w)'
    BY <2>1, <2>2, <2>3 DEF Orderly
  <2>. QED BY <2>1, <2>2, <2>4 DEF Resumes
<1>. QED BY <1>1, <1>2, <1>3

LEMMA PacketResumes ==
  ASSUME NEW w \in Workers, Ready(w),
         \/ GatherPacket(w) \/ LoadsArtifact(w) \/ StoresArtifact(w)
         \/ PausesForInput(w) \/ VerifiesArtifact(w) \/ StepFails(w)
  PROVE  Resumes(w)
<1>. USE DEF HasResult, Past, InTask, RunPoints, localVars, Views, logVars
<1>1. CASE GatherPacket(w)
  <2>1. HasPacket(w) /\ stage[w] = Gather /\ UNCHANGED <<view, mem, used>> /\ pc[w] = "ensure"
    BY <1>1 DEF GatherPacket, HasPacket
  <2>2. \/ mem[w].step = Gather /\ pc'[w] = "result" /\ stage'[w] = Gather
        \/ mem[w].step # Gather /\ VerificationReady(mem[w]) /\ pc'[w] = "load" /\ stage'[w] = Gather
        \/ mem[w].step # Gather /\ ~VerificationReady(mem[w]) /\ pc'[w] = "ensure" /\ stage'[w] = Generate
    BY <1>1, <2>1 DEF GatherPacket, AfterGather, Ready
  <2>3. ASSUME used'["fault"] = 0
        PROVE  Orderly(w)'
    <3>1. Orderly(w)
      BY <2>3 DEF Ready
    <3>2. /\ mem[w].step \in {Gather, Generate} /\ mem[w].done = Before(mem[w].step)
          /\ mem[w].node = "awaiting_executor"
      BY <2>1, <3>1 DEF Orderly, HasPacket, Gather, Generate, Verify
    <3>3. mem[w].step = Generate => ~VerificationReady(mem[w])
      BY <3>2 DEF VerificationReady, Before, Gather, Generate, Verify
    <3>. QED BY <2>1, <2>2, <3>2, <3>3 DEF Orderly, HasPacket, Executable, Steps
  <2>4. mem[w].node = "awaiting_executor"
    BY <2>1 DEF HasPacket
  <2>. QED BY <2>1, <2>2, <2>3, <2>4 DEF Resumes, Ready, Gather, Generate, Verify
<1>2. CASE LoadsArtifact(w)
  <2>1. pc[w] = "load" /\ UNCHANGED <<view, mem, used>> /\ pc'[w] \in {"block", "ensure"}
    BY <1>2 DEF LoadsArtifact, Ready
  <2>2. used["fault"] # 0
    BY <2>1 DEF Ready, Orderly
  <2>. QED BY <2>1, <2>2 DEF Resumes, Ready
<1>3. CASE StoresArtifact(w) \/ VerifiesArtifact(w)
  <2>1. /\ HasPacket(w) /\ mem[w].step = stage[w] /\ UNCHANGED <<view, mem, stage, used>>
        /\ pc[w] = "ensure" /\ pc'[w] = "result"
    BY <1>3 DEF StoresArtifact, GeneratePacket, VerifiesArtifact, VerifyPacket, HasPacket, Ready
  <2>2. used'["fault"] = 0 => Orderly(w)'
    BY <2>1 DEF Ready, Orderly, HasPacket
  <2>. QED BY <2>1, <2>2 DEF Resumes, Ready, HasPacket
<1>4. CASE PausesForInput(w)
  <2>1. /\ pc[w] = "ensure" /\ stage[w] = Generate
        /\ pc'[w] = "commit" \/ (pc'[w] = "block" /\ used'["fault"] # 0)
        /\ view' = Asked(view, Generate)
    BY <1>4 DEF PausesForInput, GeneratePacket, HasPacket, Ready, AppendsAlways, Kinds
  <2>2. view'.node = "waiting_for_human_input" /\ view'.done = view.done
    BY <2>1 DEF Asked, Ready
  <2>3. Rest'
    BY <2>2 DEF Rest
  <2>. QED BY <2>1, <2>2, <2>3 DEF Resumes, Generate, Verify
<1>5. CASE StepFails(w)
  <2>1. pc'[w] = "block" /\ used'["fault"] # 0
    BY <1>5 DEF StepFails, Ready, Spend, Kinds
  <2>. QED BY <2>1 DEF Resumes
<1>. QED BY <1>1, <1>2, <1>3, <1>4, <1>5

LEMMA ResultResumes ==
  ASSUME NEW w \in Workers, Ready(w), ReturnsResult(w) \/ RecordsVerified(w)
  PROVE  Resumes(w)
<1>. USE DEF HasResult, HasPacket, Past, InTask, RunPoints, localVars, Views, AppendsAlways
<1>1. CASE ReturnsResult(w)
  <2>1. pc[w] = "result" /\ UNCHANGED <<mem, stage>> /\ Goes(w, "verified")
    BY <1>1 DEF ReturnsResult
  <2>2. view'.done = view.done
    BY <1>1 DEF ReturnsResult, Result, Ready
  <2>3. pc'[w] \in {"verified", "block"} /\ (used'["fault"] = 0 => pc'[w] = "verified")
    BY <2>1, GoesOrFails DEF Ready
  <2>4. used'["fault"] = 0 => Orderly(w)'
    BY <2>1, <2>3 DEF Ready, Orderly
  <2>. QED BY <2>1, <2>2, <2>3, <2>4 DEF Resumes, Ready
<1>2. CASE RecordsVerified(w)
  <2>1. pc[w] = "verified" /\ UNCHANGED <<mem, stage>> /\ Goes(w, "checkpoint")
    BY <1>2 DEF RecordsVerified
  <2>2. view'.done = view.done \cup {stage[w]} /\ stage[w] \in Steps
    BY <1>2, <2>1 DEF RecordsVerified, Verified, Ready
  <2>3. pc'[w] \in {"checkpoint", "block"} /\ (used'["fault"] = 0 => pc'[w] = "checkpoint")
    BY <2>1, GoesOrFails DEF Ready
  <2>4. used'["fault"] = 0 => Orderly(w)'
    BY <2>1, <2>3 DEF Ready, Orderly
  <2>5. stage[w] \in {Generate, Verify} /\ used'["fault"] = 0 => Past(w)'
    BY <2>1, <2>3
  <2>. QED BY <2>1, <2>2, <2>3, <2>4, <2>5 DEF Resumes, Ready, Steps
<1>. QED BY <1>1, <1>2

LEMMA CheckpointResumes ==
  ASSUME NEW w \in Workers, Ready(w), SavesCheckpoint(w)
  PROVE  Resumes(w)
<1>. USE DEF HasResult, HasPacket, Past, InTask, RunPoints
<1>. DEFINE done == mem[w].done \cup {mem[w].step}
            node == IF done = Steps THEN "final_evaluation" ELSE "select_step"
            m == Checkpoint(mem[w], node, done)
<1>1. /\ pc[w] = "checkpoint" /\ mem[w].step = stage[w] /\ stage[w] \in Steps
      /\ AppendsOnce(<<"checkpoint", mem[w].step>>, Checkpoint(view, node, done), row)
      /\ mem' = [mem EXCEPT ![w] = m]
  BY DEF SavesCheckpoint, Ready
<1>2. mem'[w] = m /\ m.node = node /\ m.done = done /\ m.step = stage[w]
  BY <1>1 DEF Ready, Checkpoint, Views
<1>3. view'.done \in {view.done, done}
  BY <1>1 DEF AppendsOnce, Checkpoint, logVars, Ready, Views
<1>. HIDE DEF m
<1>4. \/ stage[w] = Gather /\ VerificationReady(m) /\ pc'[w] = "load" /\ stage'[w] = Gather
      \/ stage[w] = Gather /\ ~VerificationReady(m) /\ pc'[w] = "ensure" /\ stage'[w] = Generate
      \/ stage[w] = Generate /\ pc'[w] = "ensure" /\ stage'[w] = Verify
      \/ stage[w] = Verify /\ pc'[w] = "final" /\ stage'[w] = Verify
      \/ pc'[w] = "block" /\ used'["fault"] # 0
  <2>1. CASE pc' = [pc EXCEPT ![w] = "block"] /\ Spend("fault")
    BY <2>1 DEF Ready, Spend, Kinds
  <2>2. CASE CASE mem[w].step = Gather -> AfterGather(w, m)
             [] mem[w].step = Generate -> /\ stage' = [stage EXCEPT ![w] = Verify]
                                          /\ pc' = [pc EXCEPT ![w] = "ensure"]
             [] mem[w].step = Verify -> pc' = [pc EXCEPT ![w] = "final"] /\ UNCHANGED stage
    BY <1>1, <2>2 DEF AfterGather, Ready, Steps, Gather, Generate, Verify
  <2>. QED BY <2>1, <2>2 DEF SavesCheckpoint, m
<1>5. node \in {"final_evaluation", "select_step"}
  OBVIOUS
<1>6. pc'[w] = "final" => Pending(m) = {}
  <2>1. stage[w] = Verify => {Gather, Generate} \subseteq mem[w].done
    BY <1>1 DEF Ready
  <2>2. stage[w] = Verify => Steps \subseteq done
    BY <1>1, <2>1 DEF Steps
  <2>. QED BY <1>2, <1>4, <2>2 DEF Pending
<1>7. ASSUME used'["fault"] = 0
      PROVE  Orderly(w)' /\ (Past(w) => Past(w)') /\ (view'.done \subseteq view.done \cup {Gather} \/ Past(w)')
  <2>1. mem[w].done = Before(stage[w])
    BY <1>1, <1>7 DEF Ready, Orderly
  <2>2. CASE stage[w] = Gather
    <3>1. done = {Gather} /\ node = "select_step" /\ ~VerificationReady(m)
      BY <1>1, <1>2, <2>1, <2>2 DEF Before, VerificationReady, Steps, Gather, Generate, Verify
    <3>2. pc'[w] = "ensure" /\ stage'[w] = Generate
      BY <1>4, <1>7, <2>2, <3>1 DEF Gather, Generate, Verify
    <3>3. Orderly(w)'
      BY <1>2, <3>1, <3>2 DEF Orderly, Before, Executable, Gather, Generate, Verify
    <3>. QED BY <1>1, <1>3, <2>2, <3>1, <3>3 DEF Gather, Generate, Verify
  <2>3. CASE stage[w] = Generate
    <3>1. done = {Gather, Generate} /\ node = "select_step"
      BY <1>1, <2>1, <2>3 DEF Before, Steps, Gather, Generate, Verify
    <3>2. pc'[w] = "ensure" /\ stage'[w] = Verify
      BY <1>4, <1>7, <2>3 DEF Gather, Generate, Verify
    <3>3. Orderly(w)'
      BY <1>2, <3>1, <3>2 DEF Orderly, Before, Executable, Gather, Generate, Verify
    <3>. QED BY <3>2, <3>3
  <2>4. CASE stage[w] = Verify
    <3>1. pc'[w] = "final" /\ stage'[w] = Verify
      BY <1>4, <1>7, <2>4 DEF Gather, Generate, Verify
    <3>. QED BY <3>1 DEF Orderly
  <2>. QED BY <1>1, <2>2, <2>3, <2>4 DEF Steps
<1>8. pc'[w] \in RunPoints \cup {"block"} /\ ~HasResult(w)'
  BY <1>4
<1>9. mem'[w].node # "awaiting_executor"
  BY <1>2, <1>5
<1>. QED BY <1>2, <1>6, <1>7, <1>8, <1>9 DEF Resumes, Pending

LEMMA EndResumes ==
  ASSUME NEW w \in Workers, Ready(w), End \notin keys', Calm',
         EvaluatesFinal(w) \/ CompletesTask(w) \/ BlocksTask(w)
  PROVE  Resumes(w)
<1>. USE DEF HasResult, HasPacket, Past, InTask, RunPoints, localVars, Views, AppendsAlways
<1>1. CASE EvaluatesFinal(w)
  <2>1. pc[w] = "final" /\ UNCHANGED <<mem, stage>> /\ Goes(w, "complete")
    BY <1>1 DEF EvaluatesFinal, Ready
  <2>2. view'.done = view.done
    BY <1>1 DEF EvaluatesFinal, Evaluated, Ready
  <2>3. pc'[w] \in {"complete", "block"} /\ (used'["fault"] = 0 => pc'[w] = "complete")
    BY <2>1, GoesOrFails DEF Ready
  <2>4. used'["fault"] = 0 => Orderly(w)'
    BY <2>1, <2>3 DEF Ready, Orderly
  <2>. QED BY <2>1, <2>2, <2>3, <2>4 DEF Resumes
<1>2. CASE CompletesTask(w)
  BY <1>2 DEF CompletesTask, AppendsOnce, End, logVars
<1>3. CASE BlocksTask(w)
  <2>1. view' = Stopped(view) /\ pc[w] = "block" /\ pc'[w] \in {"commit", "release"}
    BY <1>3 DEF BlocksTask, Ready
  <2>2. view'.node = "blocked" /\ view'.done = view.done
    BY <2>1 DEF Stopped, Ready
  <2>3. Rest'
    BY <2>2 DEF Calm, Rest
  <2>. QED BY <2>1, <2>2, <2>3 DEF Resumes
<1>. QED BY <1>1, <1>2, <1>3

\* A worker that does a step of run_task is ready for it.
LEMMA ReadyInTask ==
  ASSUME DeliveryInv, RunShape, NotStranded, NEW w \in Workers, RunTask(w),
         used["fault"] \in Nat, used'["fault"] \in Nat, used["fault"] <= used'["fault"]
  PROVE  Ready(w)
<1>0. /\ pc \in [Runners -> Points] /\ Workers \subseteq Runners /\ stage \in [Workers -> Steps]
      /\ mem \in [Runners -> Views] /\ view \in Views /\ TypeInv /\ used \in [Kinds -> Nat]
      /\ w \in Runners
  BY DEF DeliveryInv, LeaseInv, TypeInv, TypeOK, Runners
<1>1. pc[w] \in RunPoints \cup {"block"}
  BY <1>0, RunTaskMoves
<1>2. used["fault"] = 0 => Orderly(w)
  BY <1>1 DEF NotStranded, Early, InTask
<1>3. /\ HasResult(w) \/ (pc[w] \in {"ensure", "load"} /\ mem[w].node = "awaiting_executor") =>
           (mem[w].step = Verify => {Gather, Generate} \subseteq mem[w].done)
      /\ pc[w] = "final" => Pending(mem[w]) = {}
      /\ HasResult(w) => mem[w].step = stage[w]
  BY DEF NotStranded, VerifyLast, RunShape
<1>. QED BY <1>0, <1>2, <1>3 DEF Ready

LEMMA RunTaskResumes ==
  ASSUME DeliveryInv, RunShape, Alone, NotStranded, NEW w \in Workers, RunTask(w),
         used["fault"] \in Nat, used'["fault"] \in Nat, used["fault"] <= used'["fault"],
         End \notin keys', Calm'
  PROVE  NotStranded'
<1>0. /\ pc \in [Runners -> Points] /\ Workers \subseteq Runners /\ stage \in [Workers -> Steps]
      /\ mem \in [Runners -> Views] /\ view \in Views /\ LeaseInv /\ TypeInv /\ used \in [Kinds -> Nat]
      /\ w \in Runners
  BY DEF DeliveryInv, LeaseInv, TypeInv, TypeOK, Runners
<1>1. PICK x : pc' = [pc EXCEPT ![w] = x]
  BY <1>0, RunTaskMoves
<1>2. pc[w] \in RunPoints \cup {"block"} /\ request' = request
  BY <1>0, RunTaskMoves DEF requestVars
<1>3. ASSUME NEW v \in Workers, v # w
      PROVE  ~InTask(v) /\ ~InTask(v)'
  <2>1. Working(w) /\ pc'[v] = pc[v]
    BY <1>0, <1>1, <1>2, <1>3 DEF Working, RunPoints
  <2>. QED BY <1>0, <1>3, <2>1, OneInTask DEF InTask
<1>4. Ready(w)
  BY ReadyInTask
<1>5. Resumes(w)
  BY <1>4, EnsureResumes, PacketResumes, ResultResumes, CheckpointResumes, EndResumes DEF RunTask
<1>6. (\A v \in Workers : ~InTask(v)') => Rest'
  BY <1>5 DEF Resumes, InTask
<1>7. VerifyLast'
  <2>1. \A v \in Workers : HasResult(v)' \/ pc'[v] \in {"ensure", "load", "final"} => v = w
    BY <1>3 DEF HasResult, InTask, RunPoints
  <2>. QED BY <1>5, <2>1 DEF VerifyLast, Resumes
<1>8. ASSUME used'["fault"] = 0
      PROVE  Early'
  <2>1. used["fault"] = 0 /\ Early
    BY <1>8 DEF NotStranded
  <2>2. \A v \in Workers : Past(v) => v = w
    BY <1>3 DEF Past, InTask
  <2>3. \A d \in {view'.done, request'.done} : d \subseteq {Gather} \/ Past(w)'
    BY <1>2, <1>5, <1>8, <2>1, <2>2 DEF Early, Resumes
  <2>. QED BY <1>3, <1>5, <1>8, <2>3 DEF Early, Resumes
<1>. QED BY <1>6, <1>7, <1>8 DEF NotStranded

LEMMA ResumeStep ==
  ASSUME ResumeInv, [Next]_vars
  PROVE  ResumeInv'
<1>1. DeliveryInv' /\ Calm'
  BY DeliveryStep, CalmStep DEF ResumeInv
<1>2. RunShape'
  <2>1. CASE Others
    BY <2>1, OthersShape DEF ResumeInv
  <2>2. CASE \E w \in Workers : RunTask(w)
    BY <2>2, RunTaskShape DEF ResumeInv
  <2>3. CASE Cancel \/ HumanInput \/ AnswerFinds \/ Answering
    <3>1. UNCHANGED <<pc, localVars>>
      BY <2>3 DEF Cancel, HumanInput, AnswerFinds, Answering, AnswerRecords, AnswerAsksAgain,
         AnswerPlans, AnswerValidates, AnswerCheckpoints, runnerVars
    <3>. QED BY <3>1 DEF ResumeInv, RunShape, HasResult, localVars
  <2>4. CASE UNCHANGED vars
    BY <2>4 DEF ResumeInv, RunShape, HasResult, vars, localVars
  <2>. QED BY <2>1, <2>2, <2>3, <2>4 DEF Next, Others
<1>3. ASSUME Alone', Few'
      PROVE  NotStranded'
  <2>1. /\ Alone /\ Few /\ NotStranded
        /\ used'["crash"] = used["crash"]
        /\ used["fault"] \in Nat /\ used'["fault"] \in Nat /\ used["fault"] <= used'["fault"]
    BY <1>3, FewBefore DEF ResumeInv
  <2>2. CASE Others
    BY <1>3, <2>1, <2>2, OthersResume DEF ResumeInv
  <2>3. CASE \E w \in Workers : RunTask(w)
    BY <1>1, <1>3, <2>1, <2>3, RunTaskResumes DEF ResumeInv, Few
  <2>4. CASE Cancel \/ HumanInput \/ AnswerFinds \/ Answering
    BY <2>1, <2>4, RequestsResume DEF ResumeInv
  <2>5. CASE UNCHANGED vars
    BY <2>1, <2>5, StaysResumable DEF vars, logVars, localVars, requestVars
  <2>. QED BY <2>2, <2>3, <2>4, <2>5 DEF Next, Others
<1>. QED BY <1>1, <1>2, <1>3 DEF ResumeInv

LEMMA ResumeInit == ASSUME Init PROVE ResumeInv
<1>1. DeliveryInv
  BY DeliveryInit
<1>2. /\ \A w \in Workers : pc[w] = "idle"
      /\ view.node = "waiting_for_human_input" \/ (view.node = "awaiting_executor" /\ view.step = Gather)
      /\ view.done = {} /\ request.done = {} /\ view.status = "running"
  BY DEF Init, Runners
<1>. QED
  BY <1>1, <1>2 DEF ResumeInv, RunShape, Calm, NotStranded, VerifyLast, Early, InTask, HasResult,
     Rest, Executable, RunPoints

LEMMA ResumeInvariant == Spec => []ResumeInv
  BY ResumeInit, ResumeStep, PTL DEF Spec

-----------------------------------------------------------------------------
(* The row of a task that runs.                                            *)

ValidatedKey == <<"validated", Gate>>

\* What Resumable supposes of an answer.
Undisturbed == used["fault"] = 0 /\ used["cancel"] = 0 /\ used["answer"] <= 1
Plain == answers = 0 \/ Undisturbed

\* The question of the gate is open: nobody takes the task up.
Unanswered == Gated /\ used["input"] = 0 /\ ValidatedKey \notin keys

GateWaits ==
  /\ row.status = "waiting_user" /\ \A p \in Runners : pc[p] = "idle"
  /\ Running /\ request.at \in {"none", "record"} =>
       row.node = "waiting_for_human_input" /\ view.node = "waiting_for_human_input"

\* Until the plan of the only answer is in the log nothing stops the task: a
\* worker that takes it up finds a step to do.
Open == used["answer"] = 0 \/ request.at \in {"record", "plan", "validate"}
GoesOn(w) ==
  /\ pc[w] # "block"
  /\ pc[w] = "ensure" => mem[w].node \in Executable
  /\ pc[w] = "checked" => view.node \in Executable
Opened == Open => Running /\ \A w \in Workers : GoesOn(w)

\* While the log runs so do the copies of the runners, and the row.
Together ==
  Running =>
    /\ \A p \in Runners : mem[p].status = "running"
    /\ (Gated => used["input"] = 0 /\ ValidatedKey \in keys) => row.status = "running"

RequestKnown ==
  /\ AnswersCounted
  /\ request.at # "none" => used["answer"] > 0
  /\ request.at = "checkpoint" => ValidatedKey \in keys

RowInv ==
  /\ ResumeInv /\ RequestKnown
  /\ Few /\ Unanswered => GateWaits
  /\ Alone /\ Few /\ Undisturbed => Opened
  /\ Alone /\ Few /\ Plain => Together

LEMMA RowBefore ==
  ASSUME DeliveryInv, AnswersCounted, [Next]_vars, Few'
  PROVE  /\ Few /\ used'["crash"] = used["crash"]
         /\ Alone' => Alone
         /\ Unanswered' => Unanswered
         /\ Undisturbed' => Undisturbed
         /\ Plain' => Plain
<1>1. TypeInv /\ Kinds = {"fault", "crash", "overrun", "cancel", "input", "answer", "pause"}
  BY DEF DeliveryInv, LeaseInv, Kinds
<1>2. \A k \in Kinds : used[k] \in Nat /\ used'[k] \in Nat /\ used[k] <= used'[k]
  BY <1>1, NothingUnspent
<1>3. keys \subseteq keys'
  BY FewBefore
<1>4. Undisturbed' => Undisturbed
  BY <1>1, <1>2 DEF Undisturbed
<1>5. Plain' => Plain
  BY <1>1, <1>4, StaysReopened DEF Plain
<1>6. Unanswered' => Unanswered
  BY <1>1, <1>2, <1>3 DEF Unanswered
<1>. QED BY <1>4, <1>5, <1>6, FewBefore

\* The loops and the faults touch the request only when runtime-api dies.
LEMMA OthersRequest ==
  ASSUME DeliveryInv, Others
  PROVE  /\ used'["answer"] = used["answer"] /\ used'["input"] = used["input"]
         /\ request' = request \/ request'.at = "none"
         /\ used'["crash"] = used["crash"] =>
              request' = request /\ ~CrashApi /\ \A w \in Workers : ~Crash(w)
         /\ row' = row \/ \E p \in Runners : row'.status = mem[p].status
<1>. USE DEF logVars, requestVars
<1>0. TypeInv /\ used \in [Kinds -> Nat]
  BY DEF DeliveryInv, LeaseInv, TypeInv, TypeOK
<1>1. UNCHANGED used \/ Spend("fault") \/ Spend("crash") \/ Spend("overrun")
  BY DEF Others, Scans, Claims, Loop, ClaimRefused, Releases, Recovers, SyncLocks, Syncs,
     Fails, WorkerLoop, Starts, Commits, ReadsAgain, DeliveryLooks, Delivers, Crash,
     LeaseRunsOut, Overruns, CrashApi
<1>2. used'["answer"] = used["answer"] /\ used'["input"] = used["input"]
  BY <1>0, <1>1, SpendsOne DEF Kinds
<1>3. used'["crash"] = used["crash"] => ~CrashApi /\ \A w \in Workers : ~Crash(w)
  BY <1>0 DEF CrashApi, Crash, Spend, Kinds
<1>4. CrashApi \/ request' = request
  BY DEF Others, Scans, Claims, Loop, ClaimRefused, Releases, Recovers, SyncLocks, Syncs,
     Fails, WorkerLoop, Starts, Commits, ReadsAgain, DeliveryLooks, Delivers, Crash,
     LeaseRunsOut, Overruns
<1>5. row' = row \/ \E p \in Runners : row'.status = mem[p].status
  <2>1. ASSUME NEW p \in Runners, Syncs(p)
        PROVE  row'.status = mem[p].status
    BY <2>1 DEF Syncs, Materialized
  <2>. QED
    BY <2>1 DEF Others, Scans, Claims, Loop, ClaimRefused, Releases, Recovers, SyncLocks,
       Fails, WorkerLoop, Starts, Commits, ReadsAgain, DeliveryLooks, Delivers, Crash,
       LeaseRunsOut, Overruns, CrashApi
<1>. QED BY <1>2, <1>3, <1>4, <1>5 DEF CrashApi

\* run_task sets nothing running and leaves the status of the row to the sync.
LEMMA RunTaskStatus ==
  ASSUME DeliveryInv, NEW w \in Workers, RunTask(w)
  PROVE  /\ Running' => Running
         /\ row'.status = row.status
         /\ ValidatedKey \in keys' => ValidatedKey \in keys
<1>. USE DEF AppendsAlways, AppendsOnce, logVars
<1>0. view \in Views /\ row \in Rows
  BY DEF DeliveryInv, LeaseInv, TypeInv, TypeOK, Rows
<1>1. row'.status = row.status
  BY <1>0 DEF RunTask, SelectsStep, BuildsPacket, CannotGoOn, GatherPacket, LoadsArtifact,
     StoresArtifact, PausesForInput, VerifiesArtifact, StepFails, ReturnsResult,
     RecordsVerified, SavesCheckpoint, EvaluatesFinal, CompletesTask, BlocksTask, AtNode, Rows
<1>2. Running' => Running
  <2>. USE DEF Running, Views
  <2>1. CASE SelectsStep(w) \/ BuildsPacket(w)
    BY <1>0, <2>1 DEF SelectsStep, BuildsPacket, Selected, Packet
  <2>2. CASE PausesForInput(w) \/ ReturnsResult(w) \/ RecordsVerified(w)
    BY <1>0, <2>2 DEF PausesForInput, ReturnsResult, RecordsVerified, Asked, Result, Verified
  <2>3. CASE SavesCheckpoint(w)
    BY <1>0, <2>3 DEF SavesCheckpoint, Checkpoint
  <2>4. CASE EvaluatesFinal(w) \/ CompletesTask(w) \/ BlocksTask(w)
    BY <1>0, <2>4 DEF EvaluatesFinal, CompletesTask, BlocksTask, Evaluated, Completed, Stopped
  <2>5. CASE UNCHANGED logVars
    BY <2>5
  <2>. QED
    BY <2>1, <2>2, <2>3, <2>4, <2>5 DEF RunTask, CannotGoOn, GatherPacket, LoadsArtifact,
       StoresArtifact, VerifiesArtifact, StepFails
<1>3. ValidatedKey \in keys' => ValidatedKey \in keys
  <2>1. \/ keys' = keys
        \/ \E s : \E k \in {"selected", "packet", "checkpoint", "completed"} :
             keys' = keys \cup {<<k, s>>}
    BY DEF RunTask, SelectsStep, BuildsPacket, CannotGoOn, GatherPacket, LoadsArtifact,
       StoresArtifact, PausesForInput, VerifiesArtifact, StepFails, ReturnsResult,
       RecordsVerified, SavesCheckpoint, EvaluatesFinal, CompletesTask, BlocksTask
  <2>2. \A s : \A k \in {"selected", "packet", "checkpoint", "completed"} : <<k, s>> # ValidatedKey
    BY DEF ValidatedKey
  <2>. QED BY <2>1, <2>2
<1>. QED BY <1>1, <1>2, <1>3

LEMMA RequestKnownStep ==
  ASSUME DeliveryInv, RequestKnown, [Next]_vars, keys \subseteq keys'
  PROVE  RequestKnown'
<1>0. TypeInv /\ request \in [at: Requests, done: SUBSET Steps] /\ used \in [Kinds -> Nat]
      /\ used["answer"] \in Nat /\ used'["answer"] \in Nat /\ used["answer"] <= used'["answer"]
  BY NothingUnspent DEF DeliveryInv, LeaseInv, TypeInv, TypeOK, Kinds
<1>1. AnswersCounted'
  BY <1>0, StaysReopened DEF RequestKnown
<1>2. CASE request' = request \/ request'.at = "none"
  BY <1>0, <1>1, <1>2 DEF RequestKnown
<1>3. CASE AnswerFinds
  BY <1>0, <1>1, <1>3 DEF AnswerFinds, Spend, RequestKnown, Kinds
<1>4. CASE AnswerRecords \/ AnswerPlans
  BY <1>0, <1>1, <1>4 DEF AnswerRecords, AnswerPlans, RequestKnown
<1>5. CASE AnswerValidates
  BY <1>0, <1>1, <1>5 DEF AnswerValidates, AppendsOnce, RequestKnown, ValidatedKey, logVars
<1>6. CASE AnswerAsksAgain \/ AnswerCheckpoints
  BY <1>0, <1>2, <1>6 DEF AnswerAsksAgain, AnswerCheckpoints
<1>7. CASE Cancel \/ HumanInput
  BY <1>2, <1>7 DEF Cancel, HumanInput, requestVars
<1>8. CASE \E w \in Workers : RunTask(w)
  BY <1>0, <1>2, <1>8, RunTaskMoves DEF requestVars
<1>9. CASE Others
  BY <1>2, <1>9, OthersRequest
<1>10. CASE UNCHANGED vars
  BY <1>2, <1>10 DEF vars, requestVars
<1>. QED
  BY <1>3, <1>4, <1>5, <1>6, <1>7, <1>8, <1>9, <1>10 DEF Next, Others, Answering

\* Only an answer that is validated lets the schedulers see a task of the gate.
LEMMA GateStep ==
  ASSUME DeliveryInv, RequestKnown, Unanswered, GateWaits, [Next]_vars, Unanswered',
         used'["crash"] = used["crash"]
  PROVE  GateWaits'
<1>. USE DEF Running, Views, AppendsAlways, AppendsOnce, logVars, runnerVars, AtNode
<1>0. view \in Views /\ row \in Rows /\ used \in [Kinds -> Nat]
      /\ Workers \subseteq Runners
      /\ request \in [at: Requests, done: SUBSET Steps]
  BY DEF DeliveryInv, LeaseInv, TypeInv, TypeOK, Rows, Runners
<1>1. CASE Others
  <2>1. ~CrashApi /\ \A w \in Workers : ~Crash(w)
    BY <1>1, OthersRequest
  <2>2. \A p \in Runners : ~Scans(p) /\ ~Claims(p) /\ ~Loop(p) /\ ~Fails(p)
    BY DEF GateWaits, Scans, ArtifactDue, RecoveryDue, Claims, Loop, ClaimRefused, Releases,
       Recovers, SyncLocks, Syncs, Fails
  <2>3. \A w \in Workers : ~WorkerLoop(w)
    BY <1>0 DEF GateWaits, WorkerLoop, Starts, Commits, ReadsAgain, DeliveryLooks, Delivers
  <2>. QED
    BY <1>1, <2>1, <2>2, <2>3 DEF Others, LeaseRunsOut, Overruns, GateWaits, requestVars
<1>2. CASE \E w \in Workers : RunTask(w)
  <2>1. TypeInv
    BY DEF DeliveryInv, LeaseInv
  <2>. QED BY <1>0, <1>2, <2>1, RunTaskMoves DEF GateWaits, RunPoints
<1>3. CASE Cancel
  BY <1>0, <1>3 DEF Cancel, Cancelled, GateWaits
<1>4. CASE HumanInput
  BY <1>0, <1>4 DEF HumanInput, Spend, Unanswered, Kinds
<1>5. CASE AnswerFinds
  BY <1>0, <1>5 DEF AnswerFinds, GateWaits
<1>6. CASE AnswerRecords
  BY <1>0, <1>6 DEF AnswerRecords, Answered, GateWaits, Rows
<1>7. CASE AnswerAsksAgain
  BY <1>0, <1>7 DEF AnswerAsksAgain, Asked, GateWaits, Rows
<1>8. CASE AnswerPlans
  BY <1>0, <1>8 DEF AnswerPlans, Planned, GateWaits
<1>9. CASE AnswerValidates
  BY <1>9 DEF AnswerValidates, Unanswered, ValidatedKey
<1>10. CASE AnswerCheckpoints
  BY <1>10 DEF AnswerCheckpoints, RequestKnown, Unanswered
<1>11. CASE UNCHANGED vars
  BY <1>11 DEF vars, requestVars, GateWaits
<1>. QED
  BY <1>1, <1>2, <1>3, <1>4, <1>5, <1>6, <1>7, <1>8, <1>9, <1>10, <1>11
     DEF Next, Others, Answering

\* Where a worker goes on and nothing fails it goes on.
LEMMA RunTaskGoesOn ==
  ASSUME NEW w \in Workers, Ready(w), GoesOn(w), RunTask(w), Running, used'["fault"] = 0,
         End \notin keys'
  PROVE  Running' /\ GoesOn(w)'
<1>. USE DEF Running, Views, AppendsAlways, AppendsOnce, logVars, localVars, Executable
<1>0. used["fault"] = 0 /\ Orderly(w) /\ ~Spend("fault")
  BY DEF Ready, Spend, Kinds
<1>1. CASE SelectsStep(w) \/ BuildsPacket(w)
  <2>1. pc' = [pc EXCEPT ![w] = "packet"] \/ (pc' = [pc EXCEPT ![w] = "ensure"] /\ BuildsPacket(w))
    BY <1>1, GoesOrFails DEF SelectsStep, BuildsPacket
  <2>2. BuildsPacket(w) => mem'[w].node = "awaiting_executor"
    BY DEF BuildsPacket, Packet, Ready
  <2>3. view'.status = "running"
    BY <1>1 DEF SelectsStep, BuildsPacket, Selected, Packet, Ready
  <2>. QED BY <2>1, <2>2, <2>3 DEF Ready, GoesOn
<1>2. ~CannotGoOn(w)
  <2>1. stage[w] \in Steps
    BY DEF Ready
  <2>2. ASSUME pc[w] = "ensure", mem[w].node = "select_step"
        PROVE  Pending(mem[w]) # {}
    BY <1>0, <2>1, <2>2 DEF Orderly, Pending, Before, Steps, Gather, Generate, Verify
  <2>3. ASSUME HasPacket(w), stage[w] # Gather
        PROVE  mem[w].step = stage[w]
    BY <1>0, <2>3 DEF Orderly
  <2>. QED BY <2>2, <2>3 DEF CannotGoOn, Unexpected, GoesOn
<1>3. CASE GatherPacket(w)
  BY <1>3 DEF GatherPacket, AfterGather, HasPacket, GoesOn, Ready
<1>4. ~LoadsArtifact(w) /\ ~StepFails(w) /\ ~CompletesTask(w) /\ ~BlocksTask(w)
  BY <1>0 DEF LoadsArtifact, Orderly, StepFails, CompletesTask, End, BlocksTask, GoesOn
<1>5. CASE StoresArtifact(w) \/ VerifiesArtifact(w)
  BY <1>5 DEF StoresArtifact, VerifiesArtifact, GoesOn, Ready
<1>6. CASE PausesForInput(w)
  <2>1. pc' = [pc EXCEPT ![w] = "commit"]
    BY <1>0, <1>6 DEF PausesForInput, Ready, Kinds
  <2>2. view'.status = "running"
    BY <1>6 DEF PausesForInput, Asked, Ready
  <2>. QED BY <2>1, <2>2 DEF Ready, GoesOn
<1>7. CASE ReturnsResult(w) \/ RecordsVerified(w) \/ EvaluatesFinal(w)
  <2>1. \E x \in {"verified", "checkpoint", "complete", "commit"} : pc' = [pc EXCEPT ![w] = x]
    BY <1>0, <1>7 DEF ReturnsResult, RecordsVerified, EvaluatesFinal, Goes
  <2>2. view'.status = "running"
    BY <1>7 DEF ReturnsResult, RecordsVerified, EvaluatesFinal, Result, Verified, Evaluated, Ready
  <2>. QED BY <2>1, <2>2 DEF Ready, GoesOn
<1>8. CASE SavesCheckpoint(w)
  <2>. DEFINE done == mem[w].done \cup {mem[w].step}
              node == IF done = Steps THEN "final_evaluation" ELSE "select_step"
  <2>1. /\ mem[w].step = stage[w] /\ stage[w] \in Steps /\ mem[w].done = Before(stage[w])
        /\ pc[w] = "checkpoint"
    BY <1>0, <1>8 DEF SavesCheckpoint, Ready, HasResult, Orderly
  <2>2. mem'[w] = Checkpoint(mem[w], node, done) /\ mem'[w].node = node
    BY <1>8 DEF SavesCheckpoint, Checkpoint, Ready
  <2>3. view'.status = "running"
    BY <1>8 DEF SavesCheckpoint, Checkpoint, Ready
  <2>4. \/ stage[w] = Gather /\ pc'[w] \in {"load", "ensure"}
        \/ stage[w] = Generate /\ pc'[w] = "ensure"
        \/ stage[w] = Verify /\ pc'[w] = "final"
    BY <1>0, <1>8, <2>1 DEF SavesCheckpoint, AfterGather, Ready, Steps, Gather, Generate, Verify
  <2>5. stage[w] # Verify => node = "select_step"
    BY <2>1 DEF Before, Steps, Gather, Generate, Verify
  <2>6. pc'[w] \notin {"block", "checked"}
    BY <2>4
  <2>7. pc'[w] = "ensure" => mem'[w].node = "select_step"
    BY <2>2, <2>4, <2>5 DEF Gather, Generate, Verify
  <2>. HIDE DEF node
  <2>. QED BY <2>3, <2>6, <2>7 DEF GoesOn
<1>. QED BY <1>1, <1>2, <1>3, <1>4, <1>5, <1>6, <1>7, <1>8 DEF RunTask

LEMMA OpenedStep ==
  ASSUME ResumeInv, RequestKnown, Alone, Few, Undisturbed, Opened, [Next]_vars,
         Few', Undisturbed', used'["crash"] = used["crash"]
  PROVE  Opened'
<1>. USE DEF Running, Views, AppendsAlways, AppendsOnce, logVars, Executable
<1>0. /\ DeliveryInv /\ NotStranded /\ RunShape /\ LeaseInv /\ TypeInv
      /\ pc \in [Runners -> Points] /\ mem \in [Runners -> Views] /\ view \in Views
      /\ Workers \subseteq Runners /\ used \in [Kinds -> Nat]
      /\ Recoverer \in Runners /\ Recoverer \notin Workers
      /\ request \in [at: Requests, done: SUBSET Steps]
  BY ArtifactAssumption DEF ResumeInv, DeliveryInv, LeaseInv, TypeInv, TypeOK, Runners, ArtifactAssumption
<1>1. used["fault"] = 0 /\ used'["fault"] = 0
  BY DEF Undisturbed
<1>2. CASE Others
  <2>1. UNCHANGED view /\ request' = request /\ used'["answer"] = used["answer"]
        /\ ~CrashApi /\ \A w \in Workers : ~Crash(w)
    BY <1>0, <1>2, OthersQuiet, OthersRequest DEF Others
  <2>2. \A p \in Runners : ~Fails(p)
    BY <1>0, <1>1 DEF Fails, Spend, Kinds
  <2>3. ASSUME NEW w \in Workers, GoesOn(w)
        PROVE  GoesOn(w)'
    <3>1. CASE pc'[w] = pc[w] /\ mem'[w] = mem[w]
      BY <2>1, <2>3, <3>1 DEF GoesOn
    <3>2. CASE \E p \in Runners : Scans(p) \/ Claims(p) \/ Loop(p)
      BY <1>0, <2>1, <2>3, <3>2 DEF Scans, Claims, Loop, ClaimRefused, Releases, Recovers,
         SyncLocks, Syncs, GoesOn, localVars
    <3>3. CASE \E v \in Workers : WorkerLoop(v)
      <4>1. CASE Starts(w)
        BY <1>0, <2>1, <2>3, <4>1 DEF Starts, GoesOn
      <4>2. CASE \E v \in Workers : Starts(v) /\ v # w
        BY <1>0, <3>1, <4>2 DEF Starts
      <4>3. CASE \E v \in Workers : Commits(v) \/ ReadsAgain(v) \/ DeliveryLooks(v) \/ Delivers(v)
        BY <1>0, <1>1, <2>1, <2>3, <4>3 DEF Commits, ReadsAgain, DeliveryLooks, Delivers,
           GoesOn, localVars
      <4>. QED BY <3>3, <4>1, <4>2, <4>3 DEF WorkerLoop
    <3>4. CASE LeaseRunsOut \/ Overruns
      BY <3>1, <3>4 DEF LeaseRunsOut, Overruns, localVars
    <3>. QED BY <1>2, <2>1, <2>2, <3>2, <3>3, <3>4 DEF Others
  <2>. QED BY <2>1, <2>3 DEF Opened, Open
<1>3. CASE \E w \in Workers : RunTask(w)
  <2>. PICK w \in Workers : RunTask(w)
    BY <1>3
  <2>1. /\ pc[w] \in RunPoints \cup {"block"} /\ request' = request
        /\ used'["answer"] = used["answer"]
        /\ \A v \in Workers \ {w} : pc'[v] = pc[v]
    BY <1>0, RunTaskMoves DEF OtherKinds, requestVars
  <2>2. ASSUME NEW v \in Workers \ {w}
        PROVE  GoesOn(v)'
    <3>1. ~Working(v)
      BY <1>0, <2>1, Sole DEF Working, RunPoints
    <3>. QED BY <2>1, <3>1 DEF Working, GoesOn
  <2>3. Ready(w)
    BY <1>0, <1>1, ReadyInTask
  <2>4. Open' => Open
    BY <2>1 DEF Open
  <2>5. Open => Running' /\ GoesOn(w)'
    BY <1>1, <2>3, RunTaskGoesOn DEF Opened, Few
  <2>. QED BY <2>2, <2>4, <2>5 DEF Opened
<1>4. CASE Cancel
  BY <1>0, <1>4 DEF Cancel, Spend, Undisturbed, Kinds
<1>5. CASE HumanInput \/ AnswerFinds \/ AnswerRecords \/ AnswerPlans
  <2>1. UNCHANGED <<pc, mem>>
    BY <1>0, <1>5, RequestsRest DEF Answering
  <2>2. view'.status = view.status /\ (view'.node = view.node \/ view'.node = "select_step")
    BY <1>0, <1>5 DEF HumanInput, AnswerFinds, AnswerRecords, AnswerPlans, Answered, Planned
  <2>3. Open' => Open
    <3>1. CASE HumanInput
      <4>1. used'["answer"] = used["answer"]
        BY <1>0, <3>1, SpendsOne DEF HumanInput, Kinds
      <4>. QED BY <3>1, <4>1 DEF HumanInput, requestVars, Open
    <3>2. CASE AnswerFinds
      BY <1>0, <3>2 DEF AnswerFinds, Spend, Undisturbed, Open, Kinds
    <3>3. CASE AnswerRecords \/ AnswerPlans
      BY <3>3 DEF AnswerRecords, AnswerPlans, Open
    <3>. QED BY <1>5, <3>1, <3>2, <3>3
  <2>. QED BY <2>1, <2>2, <2>3 DEF Opened, GoesOn
<1>6. CASE AnswerAsksAgain \/ AnswerValidates \/ AnswerCheckpoints
  <2>1. request.at # "none" /\ request'.at \in {"none", "checkpoint"}
    BY <1>0, <1>6 DEF AnswerAsksAgain, AnswerValidates, AnswerCheckpoints
  <2>2. used'["answer"] = used["answer"] /\ used["answer"] > 0
    BY <1>0, <1>6, <2>1, SpendsOne
       DEF AnswerAsksAgain, AnswerValidates, AnswerCheckpoints, RequestKnown, Kinds
  <2>. QED BY <2>1, <2>2 DEF Opened, Open
<1>7. CASE UNCHANGED vars
  BY <1>7 DEF vars, localVars, requestVars, Opened, Open, GoesOn
<1>. QED BY <1>2, <1>3, <1>4, <1>5, <1>6, <1>7 DEF Next, Others, Answering

LEMMA TogetherStep ==
  ASSUME DeliveryInv, RequestKnown, Plain, Undisturbed => Opened, Together, [Next]_vars
  PROVE  Together'
<1>. USE DEF Running, Views, AppendsAlways, AppendsOnce, logVars, AtNode
<1>0. /\ mem \in [Runners -> Views] /\ view \in Views /\ row \in Rows /\ TypeInv
      /\ Workers \subseteq Runners /\ used \in [Kinds -> Nat] /\ answers \in Nat
      /\ request \in [at: Requests, done: SUBSET Steps]
      /\ used["input"] \in Nat /\ used'["input"] \in Nat /\ used["input"] <= used'["input"]
  BY NothingUnspent DEF DeliveryInv, LeaseInv, TypeInv, TypeOK, Rows, Runners, Kinds
<1>1. CASE Others
  <2>1. /\ UNCHANGED <<view, keys>>
        /\ used'["input"] = used["input"]
        /\ row' = row \/ \E p \in Runners : row'.status = mem[p].status
        /\ \A q \in Runners : mem'[q] = mem[q] \/ mem'[q] = view
    BY <1>1, OthersQuiet, OthersRequest, OthersMove DEF Others
  <2>2. ASSUME Running'
        PROVE  /\ Running
               /\ \A q \in Runners : mem[q].status = "running"
               /\ \A q \in Runners : mem'[q].status = "running"
    <3>1. view.status = "running" /\ \A q \in Runners : mem[q].status = "running"
      BY <2>1, <2>2 DEF Together
    <3>2. ASSUME NEW q \in Runners
          PROVE  mem'[q].status = "running"
      <4>1. mem'[q] = mem[q] \/ mem'[q] = view
        BY <2>1
      <4>. QED BY <3>1, <4>1
    <3>. QED BY <3>1, <3>2
  <2>. QED BY <2>1, <2>2 DEF Together
<1>2. CASE \E w \in Workers : RunTask(w)
  <2>. PICK w \in Workers : RunTask(w)
    BY <1>2
  <2>1. \A p \in Runners : mem'[p].status = mem[p].status
    BY <1>0, RunTaskMem
  <2>2. /\ Running' => Running
        /\ row'.status = row.status
        /\ ValidatedKey \in keys' => ValidatedKey \in keys
    BY RunTaskStatus
  <2>3. used'["input"] = used["input"]
    BY <1>0, RunTaskMoves DEF OtherKinds
  <2>. QED BY <2>1, <2>2, <2>3 DEF Together
<1>3. CASE Cancel \/ HumanInput \/ AnswerFinds \/ Answering
  <2>1. UNCHANGED mem
    BY <1>3, RequestsRest
  <2>2. CASE AnswerValidates /\ ValidatedKey \notin keys
    <3>1. row'.status = "running" /\ answers > 0
      BY <1>0, <2>2 DEF AnswerValidates, RequestKnown, AnswersCounted, ValidatedKey
    <3>2. Running
      BY <1>0, <2>2, <3>1 DEF AnswerValidates, Plain, Opened, Open
    <3>. QED BY <2>1, <3>1, <3>2 DEF Together
  <2>3. CASE ~AnswerValidates \/ ValidatedKey \in keys
    <3>1. row'.status = row.status
      BY <1>0, <1>3, <2>3 DEF Cancel, HumanInput, AnswerFinds, Answering, AnswerRecords,
         AnswerAsksAgain, AnswerPlans, AnswerValidates, AnswerCheckpoints, Rows, ValidatedKey
    <3>2. Running' => Running
      BY <1>0, <1>3, <2>3 DEF Cancel, HumanInput, AnswerFinds, Answering, AnswerRecords,
         AnswerAsksAgain, AnswerPlans, AnswerValidates, AnswerCheckpoints, Cancelled, Answered,
         Asked, Planned, Checkpoint, ValidatedKey
    <3>3. \/ keys' = keys \/ ValidatedKey \in keys
          \/ \E k \in {"plan", "checkpoint"} : keys' = keys \cup {<<k, Gate>>}
      BY <1>3, <2>3 DEF Cancel, HumanInput, AnswerFinds, Answering, AnswerRecords,
         AnswerAsksAgain, AnswerPlans, AnswerValidates, AnswerCheckpoints
    <3>4. ValidatedKey \in keys' => ValidatedKey \in keys
      BY <3>3 DEF ValidatedKey
    <3>. QED BY <1>0, <2>1, <3>1, <3>2, <3>4 DEF Together
  <2>. QED BY <2>2, <2>3
<1>4. CASE UNCHANGED vars
  BY <1>4 DEF vars, localVars, Together
<1>. QED BY <1>1, <1>2, <1>3, <1>4 DEF Next, Others

LEMMA RowStep ==
  ASSUME RowInv, [Next]_vars
  PROVE  RowInv'
<1>1. DeliveryInv /\ AnswersCounted /\ keys \subseteq keys'
  <2>1. DeliveryInv /\ AnswersCounted
    BY DEF RowInv, ResumeInv, RequestKnown
  <2>. QED BY <2>1, KeysGrow
<1>2. ResumeInv' /\ RequestKnown'
  BY <1>1, ResumeStep, RequestKnownStep DEF RowInv
<1>3. Few' => /\ Few /\ used'["crash"] = used["crash"]
              /\ Alone' => Alone
              /\ Unanswered' => Unanswered
              /\ Undisturbed' => Undisturbed
              /\ Plain' => Plain
  BY <1>1, RowBefore
<1>4. Few' /\ Unanswered' => GateWaits'
  BY <1>1, <1>3, GateStep DEF RowInv
<1>5. Alone' /\ Few' /\ Undisturbed' => Opened'
  BY <1>3, OpenedStep DEF RowInv
<1>6. Alone' /\ Few' /\ Plain' => Together'
  BY <1>1, <1>3, TogetherStep DEF RowInv
<1>. QED BY <1>2, <1>4, <1>5, <1>6 DEF RowInv

LEMMA RowInit == ASSUME Init PROVE RowInv
<1>1. ResumeInv
  BY ResumeInit
<1>2. /\ \A p \in Runners : pc[p] = "idle" /\ mem[p].status = "running"
      /\ view.status = "running" /\ request.at = "none"
      /\ Gated => row.status = "waiting_user" /\ keys = {}
                  /\ view.node = "waiting_for_human_input" /\ row.node = view.node
      /\ ~Gated => row.status = "running"
  BY DEF Init
<1>3. RequestKnown
  BY <1>2 DEF RequestKnown, AnswersCounted
<1>4. Unanswered => GateWaits
  BY <1>2 DEF Unanswered, GateWaits
<1>5. Opened
  BY <1>2 DEF Opened, Running, GoesOn, Runners
<1>6. Together
  BY <1>2 DEF Together
<1>. QED BY <1>1, <1>3, <1>4, <1>5, <1>6 DEF RowInv

LEMMA RowInvariant == Spec => []RowInv
  BY RowInit, RowStep, PTL DEF Spec

LEMMA ResumableFollows ==
  ASSUME RowInv, Alone
  PROVE  Resumable
<1>. SUFFICES ASSUME used["crash"] = 0, used["fault"] <= 1, End \notin keys, Plain,
                     Gated => used["input"] = 0,
                     Running, request.at = "none", \A p \in Runners : ~Working(p)
              PROVE  \/ (/\ row.status = "running"
                         /\ view.node \in Executable \cup {"waiting_for_human_input"})
                     \/ (row.node = "waiting_for_human_input" /\ view.node = row.node)
  BY DEF Resumable, End, Plain, Undisturbed
<1>1. Few /\ NotStranded
  BY DEF RowInv, ResumeInv, Few
<1>2. \A w \in Workers : ~InTask(w)
  BY DEF Working, InTask, RunPoints, Runners
<1>3. view.node \in Executable \cup {"waiting_for_human_input"}
  BY <1>1, <1>2 DEF NotStranded, Rest
<1>4. CASE Unanswered
  BY <1>1, <1>4 DEF RowInv, GateWaits
<1>5. CASE ~Unanswered
  BY <1>1, <1>3, <1>5 DEF RowInv, Together, Unanswered
<1>. QED BY <1>4, <1>5

\* A running task is not stranded, in its log or in its row: not by one step that
\* fails while nobody answers, nor by an answer while nothing fails, nor by any
\* number of pauses and of leases that run out, with the one worker that is
\* started, ...
THEOREM TaskIsResumable ==
  ASSUME OneWorkerOnly
  PROVE  Spec => []Resumable
<1>1. RowInv => Resumable
  BY ResumableFollows DEF Alone
<1>. QED BY <1>1, RowInvariant, PTL

\* ... and with any number of workers until a lease runs out under one of them.
THEOREM LeasesKeepResumable == Spec => [](used["overrun"] = 0 => Resumable)
<1>1. RowInv => (used["overrun"] = 0 => Resumable)
  BY ResumableFollows DEF Alone
<1>. QED BY <1>1, RowInvariant, PTL
==============================================================================
