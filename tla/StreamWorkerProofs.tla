-------------------------- MODULE StreamWorkerProofs --------------------------
(***************************************************************************)
(* Proofs about StreamWorker: its types, and the four safety properties.   *)
(*                                                                         *)
(* None of them needs to know in which order entries are processed: what   *)
(* counts is that a result of an entry is only written with what it        *)
(* reports (ProgressInv), that a transaction runs for an entry that is not *)
(* stored (WriteInv) alone in its conversation (AgendaInv), and that what  *)
(* leaves the batch is stored or known to be lost (EnrichmentInv).         *)
(***************************************************************************)
EXTENDS StreamWorker, FiniteSetTheorems, TLAPS

-----------------------------------------------------------------------------
(* Types.                                                                  *)

\* The kinds of a fault are few, so the number of faults stays a number.
LEMMA FaultType ==
  ASSUME NEW kinds, Fault(kinds), IsFiniteSet(kinds), faults \in 0..MaxFaults
  PROVE  faults' \in 0..MaxFaults
<1>1. Cardinality(kinds) \in Nat
  BY FS_CardinalityType
<1>. QED BY <1>1, StreamAssumption DEF StreamAssumption, Fault

\* At most one fault, and perhaps a dead letter that fails.
LEMMA FewKinds ==
  ASSUME NEW k
  PROVE  /\ IsFiniteSet({k}) /\ IsFiniteSet({k} \cup {"letter"})
         /\ IsFiniteSet({}) /\ IsFiniteSet({} \cup {"letter"})
  BY FS_EmptySet, FS_Singleton, FS_Union

\* What the batch holds after a drain, and after one more item.
LEMMA BatchFacts ==
  ASSUME NEW b \in Seq(Entries), NEW i \in Entries
  PROVE  /\ Append(b, i) \in Seq(Entries) /\ Len(Append(b, i)) = Len(b) + 1
         /\ Items(Append(b, i)) = Items(b) \cup {i}
         /\ Items(b) \subseteq Entries
         /\ Items(<<>>) = {}
<1>1. Append(b, i) \in Seq(Entries) /\ Len(Append(b, i)) = Len(b) + 1
  OBVIOUS
<1>2. Items(Append(b, i)) = Items(b) \cup {i}
  <2>1. DOMAIN Append(b, i) = DOMAIN b \cup {Len(b) + 1}
    OBVIOUS
  <2>2. \A n \in DOMAIN b : Append(b, i)[n] = b[n]
    OBVIOUS
  <2>3. Append(b, i)[Len(b) + 1] = i
    OBVIOUS
  <2>. QED BY <2>1, <2>2, <2>3 DEF Items
<1>3. Items(b) \subseteq Entries /\ Items(<<>>) = {}
  BY DEF Items
<1>. QED BY <1>1, <1>2, <1>3

LEMMA EmptyBatch == <<>> \in Seq(Entries) /\ Len(<<>>) = 0 /\ 0 < MaxItems
  BY StreamAssumption DEF StreamAssumption

\* A drained batch is an empty batch of entries.
LEMMA DrainedType ==
  ASSUME Drained
  PROVE  batch' \in Seq(Entries) /\ Len(batch') < MaxItems /\ due' \in BOOLEAN
  BY EmptyBatch, Zenon DEF Drained

\* Writing a batch keeps the sets of entries sets of entries.
LEMMA FlushType ==
  ASSUME NEW b \in Seq(Entries), enriched \subseteq Entries, lost \subseteq Entries,
         Flushed(b) \/ \E k : FlushRaises(b, k)
  PROVE  /\ enriched' \subseteq Entries /\ lost' \subseteq Entries
         /\ batch' \in Seq(Entries) /\ Len(batch') < MaxItems /\ due' \in BOOLEAN
<1>1. Items(b) \subseteq Entries
  BY DEF Items
<1>2. Drained
  BY DEF Flushed, FlushRaises
<1>. QED BY <1>1, <1>2, DrainedType DEF Flushed, FlushRaises, Emitted

\* The memory of a new process.
LEMMA GoneType ==
  ASSUME ProcessGone, length \in 0..MaxEntries
  PROVE  /\ pc' \in Points /\ last' \in 0..length /\ high' \in 0..length
         /\ chosen' \subseteq Entries
         /\ at' \in [Entries -> Steps] /\ result' \in [Entries -> Results]
  BY StreamAssumption DEF StreamAssumption, ProcessGone, Points, Steps, Results

\* A transaction that goes on or ends keeps the types of the pool.
LEMMA GoesType ==
  ASSUME NEW i \in Entries, NEW s \in Steps, Goes(i, s),
         at \in [Entries -> Steps], result \in [Entries -> Results]
  PROVE  at' \in [Entries -> Steps] /\ result' \in [Entries -> Results]
  BY DEF Goes

\* So does one that fails, and its dead letter.
LEMMA FailsType ==
  ASSUME TypeOK, NEW i \in Entries, NEW r \in {"refused", "retry"}, NEW kinds,
         IsFiniteSet(kinds), IsFiniteSet(kinds \cup {"letter"}), Fails(i, r, kinds)
  PROVE  /\ at' \in [Entries -> Steps] /\ result' \in [Entries -> Results]
         /\ refused' \subseteq Entries /\ letters' \subseteq Entries
         /\ dropped' \subseteq Entries /\ faults' \in 0..MaxFaults
<1>1. faults' \in 0..MaxFaults
  BY FaultType DEF Fails, TypeOK
<1>2. r \in Results /\ "idle" \in Steps
  BY DEF Results, Steps
<1>. QED BY <1>1, <1>2 DEF Fails, Ends, TypeOK

LEMMA TypeStep ==
  ASSUME TypeOK, [Next]_vars
  PROVE  TypeOK'
<1>. USE StreamAssumption DEF StreamAssumption, Entries, streamVars, storeVars,
         letterVars, memoryVars, loopVars, entryVars
<1>1. CASE Appends
  <2>1. length' = length + 1 /\ length < MaxEntries
    BY <1>1 DEF Appends
  <2>2. length' \in 0..MaxEntries
    BY <2>1 DEF TypeOK
  <2>3. checkpoint' \in 0..length' /\ last' \in 0..length' /\ high' \in 0..length'
    BY <1>1, <2>1 DEF Appends, TypeOK
  <2>4. row' \in [Entries -> {"none", "open", "committed", "aborted"}]
    BY <1>1 DEF Appends, TypeOK
  <2>. QED BY <1>1, <2>2, <2>3, <2>4 DEF Appends, TypeOK
<1>2. CASE Resolve
  <2>1. faults' \in 0..MaxFaults
    BY <1>2, FaultType, FewKinds DEF Resolve, TypeOK
  <2>. QED BY <1>2, <2>1 DEF Resolve, TypeOK, Points
<1>3. CASE NothingDue \/ ReadsNothing
  BY <1>3 DEF NothingDue, ReadsNothing, AfterNothingRead, TypeOK, Points
<1>4. CASE FlushesDue
  BY <1>4, FlushType DEF FlushesDue, TypeOK, Points
<1>5. CASE Reads
  BY <1>5 DEF Reads, TypeOK, Points
<1>6. CASE ChooseNext
  <2>1. Selected \subseteq Entries
    BY DEF Selected, Pending, Window, TypeOK
  <2>. QED BY <1>6, <2>1 DEF ChooseNext, TypeOK
<1>7. CASE RecordCheckpoint
  <2>1. PICK n \in last..high :
          \/ checkpoint' = (IF n > last THEN n ELSE checkpoint) /\ UNCHANGED faults
          \/ n > last /\ Fault({"set"}) /\ UNCHANGED checkpoint
    BY <1>7 DEF RecordCheckpoint
  <2>2. n \in 0..length
    BY DEF TypeOK
  <2>3. faults' \in 0..MaxFaults
    BY <2>1, FaultType, FewKinds DEF TypeOK
  <2>. QED BY <1>7, <2>1, <2>2, <2>3 DEF RecordCheckpoint, TypeOK, Points, Results
<1>8. CASE FlushDueFails
  <2>1. faults' \in 0..MaxFaults
    BY <1>8, FaultType, FewKinds DEF FlushDueFails, TypeOK
  <2>2. \E k : FlushRaises(batch, k)
    BY <1>8 DEF FlushDueFails
  <2>. QED BY <1>8, <2>1, <2>2, FlushType, GoneType DEF FlushDueFails, TypeOK
<1>9. CASE Crash
  <2>1. faults' \in 0..MaxFaults
    BY <1>9, FaultType, FewKinds DEF Crash, TypeOK
  <2>2. Items(batch) \subseteq Entries
    BY DEF Items, TypeOK
  <2>. QED BY <1>9, <2>1, <2>2, DrainedType, GoneType DEF Crash, TypeOK
<1>10. CASE Ages
  BY <1>10 DEF Ages, TypeOK
<1>11. ASSUME NEW i \in Entries, RowSettles(i)
       PROVE  TypeOK'
  BY <1>11 DEF RowSettles, TypeOK
<1>12. ASSUME NEW i \in Entries, RowMissing(i)
       PROVE  TypeOK'
  <2>1. Fails(i, "refused", {})
    BY <1>12 DEF RowMissing
  <2>. QED BY <1>12, <2>1, FailsType, FewKinds DEF RowMissing, TypeOK
<1>13. ASSUME NEW i \in Entries, SkipsStored(i)
       PROVE  TypeOK'
  BY <1>13 DEF SkipsStored, Ends, TypeOK, Steps, Results
<1>14. ASSUME NEW i \in Entries, Inserts(i) \/ ReadsAgenda(i)
       PROVE  TypeOK'
  BY <1>14, Zenon DEF Inserts, ReadsAgenda, Goes, TypeOK, Steps
<1>15. ASSUME NEW i \in Entries, AddsItem(i)
       PROVE  TypeOK'
  <2>1. Goes(i, "added") /\ "added" \in Steps
    BY <1>15 DEF AddsItem, Steps
  <2>2. CASE Full(Append(batch, i))
    BY <1>15, <2>1, <2>2, BatchFacts, FlushType, GoesType DEF AddsItem, TypeOK
  <2>3. CASE ~Full(Append(batch, i))
    <3>1. batch' = Append(batch, i) /\ lost' = lost \ {i}
          /\ UNCHANGED <<enriched, due>>
      BY <1>15, <2>3 DEF AddsItem
    <3>2. batch' \in Seq(Entries) /\ Len(batch') < MaxItems
      <4>1. Len(batch) \in Nat
        BY DEF TypeOK
      <4>. QED BY <2>3, <3>1, <4>1, BatchFacts DEF Full, TypeOK
    <3>3. at' \in [Entries -> Steps] /\ result' \in [Entries -> Results]
      BY <2>1, GoesType DEF TypeOK
    <3>. QED BY <1>15, <3>1, <3>2, <3>3 DEF AddsItem, TypeOK
  <2>. QED BY <2>2, <2>3
<1>16. ASSUME NEW i \in Entries, AddFails(i)
       PROVE  TypeOK'
  <2>1. PICK k \in {"flush", "reply"}, r \in {"refused", "retry"} :
          FlushRaises(Append(batch, i), k) /\ Fails(i, r, {k})
    BY <1>16 DEF AddFails
  <2>2. Append(batch, i) \in Seq(Entries)
    BY BatchFacts DEF TypeOK
  <2>. QED BY <1>16, <2>1, <2>2, FlushType, FailsType, FewKinds DEF AddFails, TypeOK
<1>17. ASSUME NEW i \in Entries, Commits(i)
       PROVE  TypeOK'
  BY <1>17 DEF Commits, Consolidated, Ends, TypeOK, Steps, Results
<1>18. ASSUME NEW i \in Entries, CommitUnanswered(i)
       PROVE  TypeOK'
  <2>1. Fails(i, "retry", {"reply"})
    BY <1>18 DEF CommitUnanswered
  <2>2. writes' \in [Entries -> Nat] /\ created' \subseteq Entries
    BY <1>18 DEF CommitUnanswered, Consolidated, TypeOK
  <2>3. /\ at' \in [Entries -> Steps] /\ result' \in [Entries -> Results]
        /\ refused' \subseteq Entries /\ letters' \subseteq Entries
        /\ dropped' \subseteq Entries /\ faults' \in 0..MaxFaults
    BY <2>1, FailsType, FewKinds
  <2>. QED BY <1>18, <2>2, <2>3 DEF CommitUnanswered, TypeOK
<1>19. ASSUME NEW i \in Entries, TransactionFails(i)
       PROVE  TypeOK'
  <2>1. PICK r \in {"refused", "retry"}, k \in {"db", "error"} : Fails(i, r, {k})
    BY <1>19 DEF TransactionFails
  <2>. QED BY <1>19, <2>1, FailsType, FewKinds DEF TransactionFails, TypeOK
<1>20. CASE UNCHANGED vars
  BY <1>20 DEF vars, TypeOK
<1>. QED
  BY <1>1, <1>2, <1>3, <1>4, <1>5, <1>6, <1>7, <1>8, <1>9, <1>10, <1>11, <1>12,
     <1>13, <1>14, <1>15, <1>16, <1>17, <1>18, <1>19, <1>20
  DEF Next, Loop, Thread

LEMMA TypeInit ==
  ASSUME Init PROVE TypeOK
<1>1. batch \in Seq(Entries) /\ Len(batch) < MaxItems
  BY EmptyBatch DEF Init
<1>2. /\ length \in 0..MaxEntries /\ checkpoint \in 0..length /\ last \in 0..length
      /\ high \in 0..length /\ faults \in 0..MaxFaults
  BY StreamAssumption DEF StreamAssumption, Init
<1>3. /\ row \in [Entries -> {"none", "open", "committed", "aborted"}]
      /\ writes \in [Entries -> Nat]
      /\ at \in [Entries -> Steps] /\ result \in [Entries -> Results]
  BY DEF Init, Steps, Results
<1>4. /\ created = {} /\ refused = {} /\ letters = {} /\ dropped = {}
      /\ enriched = {} /\ lost = {} /\ chosen = {} /\ due = FALSE /\ pc \in Points
  BY DEF Init, Points
<1>. QED BY <1>1, <1>2, <1>3, <1>4 DEF TypeOK

\* Every variable has its type in every state, and the batch never reaches
\* max_items while others can see it.
THEOREM TypeCorrect == Spec => []TypeOK
<1>. QED BY TypeInit, TypeStep, PTL DEF Spec

-----------------------------------------------------------------------------
(* The checkpoint.                                                         *)

\* A failing entry gets a dead letter, or the failing letter is known.
LEMMA FailsSettles ==
  ASSUME TypeOK, NEW i \in Entries, NEW r, NEW kinds, Fails(i, r, kinds)
  PROVE  /\ result' = [result EXCEPT ![i] = r] /\ at' = [at EXCEPT ![i] = "idle"]
         /\ refused \subseteq refused' /\ letters \subseteq letters'
         /\ dropped \subseteq dropped'
         /\ r = "refused" => i \in refused' /\ i \in letters' \cup dropped'
  BY DEF Fails, Ends, TypeOK

\* Consolidating an entry leaves the counts of the others.
LEMMA ConsolidatedFacts ==
  ASSUME TypeOK, NEW i \in Entries, Consolidated(i)
  PROVE  /\ writes'[i] = writes[i] + 1
         /\ \A j \in Entries : j # i => writes'[j] = writes[j]
         /\ \A j \in Entries : writes[j] \in Nat
  BY DEF Consolidated, TypeOK

\* The actions of a thread in which its entry fails.
LEMMA FailingActions ==
  ASSUME NEW i \in Entries,
         RowMissing(i) \/ AddFails(i) \/ CommitUnanswered(i) \/ TransactionFails(i)
  PROVE  /\ \E r \in {"refused", "retry"} : \E kinds : Fails(i, r, kinds)
         /\ UNCHANGED <<streamVars, checkpoint, loopVars>>
<1>1. CASE RowMissing(i)
  BY <1>1 DEF RowMissing, loopVars
<1>2. CASE AddFails(i)
  BY <1>2 DEF AddFails, loopVars
<1>3. CASE CommitUnanswered(i)
  BY <1>3 DEF CommitUnanswered, loopVars
<1>4. CASE TransactionFails(i)
  BY <1>4 DEF TransactionFails, loopVars
<1>. QED BY <1>1, <1>2, <1>3, <1>4

\* What is settled stays settled: counts and letters are never taken back.
LEMMA SettledStays ==
  ASSUME TypeOK, [Next]_vars
  PROVE  \A i \in Entries : Settled(i) => Settled(i)'
<1>. USE DEF streamVars, storeVars, letterVars, memoryVars, loopVars, entryVars
<1>1. CASE UNCHANGED <<storeVars, letterVars>>
  BY <1>1 DEF Settled, Stored
<1>2. ASSUME NEW i \in Entries, Commits(i)
      PROVE  \A j \in Entries : Settled(j) => Settled(j)'
  <2>1. Consolidated(i) /\ UNCHANGED letterVars
    BY <1>2 DEF Commits
  <2>. QED BY <2>1, ConsolidatedFacts DEF Settled, Stored
<1>3. ASSUME NEW i \in Entries,
             RowMissing(i) \/ AddFails(i) \/ CommitUnanswered(i) \/ TransactionFails(i)
      PROVE  \A j \in Entries : Settled(j) => Settled(j)'
  <2>1. PICK r \in {"refused", "retry"} : \E kinds : Fails(i, r, kinds)
    BY <1>3, FailingActions
  <2>2. /\ refused \subseteq refused' /\ letters \subseteq letters'
        /\ dropped \subseteq dropped'
    BY <2>1, FailsSettles
  <2>3. Consolidated(i) \/ UNCHANGED storeVars
    BY <1>3 DEF RowMissing, AddFails, CommitUnanswered, TransactionFails
  <2>. QED BY <2>2, <2>3, ConsolidatedFacts DEF Settled, Stored
<1>4. CASE \/ Appends \/ Loop \/ FlushDueFails \/ Crash \/ Ages
  BY <1>1, <1>4
  DEF Appends, Loop, Resolve, NothingDue, FlushesDue, ReadsNothing, Reads, ChooseNext,
      RecordCheckpoint, FlushDueFails, Crash, Ages
<1>5. ASSUME NEW i \in Entries,
             \/ SkipsStored(i) \/ Inserts(i) \/ AddsItem(i) \/ ReadsAgenda(i)
             \/ RowSettles(i)
      PROVE  UNCHANGED <<storeVars, letterVars>>
  BY <1>5 DEF SkipsStored, Inserts, AddsItem, ReadsAgenda, RowSettles
<1>6. CASE UNCHANGED vars
  BY <1>1, <1>6 DEF vars
<1>. QED BY <1>1, <1>2, <1>3, <1>4, <1>5, <1>6 DEF Next, Thread

LEMMA ProgressStep ==
  ASSUME TypeOK, ProgressInv, [Next]_vars
  PROVE  ProgressInv'
<1>. USE DEF streamVars, storeVars, letterVars, memoryVars, loopVars, entryVars
<1>a. /\ \A i \in Entries : Settled(i) => Settled(i)'
      /\ checkpoint \in 0..MaxEntries /\ last \in 0..MaxEntries
      /\ high \in 0..MaxEntries
      /\ \A n \in 0..MaxEntries : 1..n \subseteq Entries
      /\ result \in [Entries -> Results]
  BY SettledStays, StreamAssumption DEF StreamAssumption, TypeOK, Entries
<1>1. CASE UNCHANGED <<checkpoint, last, result>>
  <2>1. \A i \in 1..checkpoint : Settled(i)'
    BY <1>a DEF ProgressInv, CheckpointCovers
  <2>2. \A i \in 1..last : Settled(i)'
    BY <1>a DEF ProgressInv
  <2>3. \A i \in Entries : Passes(result[i]) => Settled(i)'
    BY <1>a DEF ProgressInv
  <2>. QED BY <1>1, <2>1, <2>2, <2>3 DEF ProgressInv, CheckpointCovers
<1>2. CASE Resolve
  <2>1. UNCHANGED <<checkpoint, result>> /\ last' \in {checkpoint, 0}
    BY <1>2 DEF Resolve
  <2>2. \A i \in 1..checkpoint : Settled(i)'
    BY <1>a DEF ProgressInv, CheckpointCovers
  <2>3. \A i \in Entries : Passes(result[i]) => Settled(i)'
    BY <1>a DEF ProgressInv
  <2>. QED BY <2>1, <2>2, <2>3 DEF ProgressInv, CheckpointCovers
<1>3. CASE RecordCheckpoint
  <2>1. PICK n \in last..high :
          /\ PassedUpTo(n)
          /\ checkpoint' = n \/ UNCHANGED checkpoint
    BY <1>3 DEF RecordCheckpoint
  <2>2. UNCHANGED last /\ result' = [i \in Entries |-> "none"]
    BY <1>3 DEF RecordCheckpoint
  <2>3. \A i \in 1..n : Settled(i)'
    <3>1. n \in 0..MaxEntries
      BY <1>a, StreamAssumption DEF StreamAssumption
    <3>2. SUFFICES ASSUME NEW i \in 1..n PROVE Settled(i)
      BY <1>a, <3>1
    <3>3. CASE i \in 1..last
      BY <3>3 DEF ProgressInv
    <3>4. CASE i \in (last + 1)..n
      BY <3>4, <2>1, <3>1, <1>a DEF PassedUpTo, ProgressInv
    <3>. QED BY <3>1, <3>3, <3>4, <1>a
  <2>4. \A i \in 1..checkpoint : Settled(i)'
    BY <1>a DEF ProgressInv, CheckpointCovers
  <2>5. \A i \in 1..last : Settled(i)'
    BY <1>a DEF ProgressInv
  <2>. QED BY <2>1, <2>2, <2>3, <2>4, <2>5 DEF ProgressInv, CheckpointCovers, Passes
<1>4. CASE FlushDueFails \/ Crash
  <2>1. /\ UNCHANGED checkpoint /\ last' = 0
        /\ result' = [i \in Entries |-> "none"]
    BY <1>4 DEF FlushDueFails, Crash, ProcessGone
  <2>2. \A i \in 1..checkpoint : Settled(i)'
    BY <1>a DEF ProgressInv, CheckpointCovers
  <2>. QED BY <2>1, <2>2 DEF ProgressInv, CheckpointCovers, Passes
<1>5. ASSUME NEW i \in Entries, NEW r \in Results, UNCHANGED <<checkpoint, last>>,
             result' = [result EXCEPT ![i] = r], Passes(r) => Settled(i)'
      PROVE  ProgressInv'
  <2>1. \A j \in 1..checkpoint : Settled(j)'
    BY <1>a DEF ProgressInv, CheckpointCovers
  <2>2. \A j \in 1..last : Settled(j)'
    BY <1>a DEF ProgressInv
  <2>3. \A j \in Entries : j # i => (Passes(result[j]) => Settled(j)')
    BY <1>a DEF ProgressInv
  <2>4. \A j \in Entries : Passes(result'[j]) => Settled(j)'
    BY <1>a, <1>5, <2>3 DEF Passes
  <2>. QED BY <1>5, <2>1, <2>2, <2>4 DEF ProgressInv, CheckpointCovers, Passes
<1>6. ASSUME NEW i \in Entries,
             RowMissing(i) \/ AddFails(i) \/ CommitUnanswered(i) \/ TransactionFails(i)
      PROVE  ProgressInv'
  <2>1. PICK r \in {"refused", "retry"} : \E kinds : Fails(i, r, kinds)
    BY <1>6, FailingActions
  <2>2. /\ result' = [result EXCEPT ![i] = r]
        /\ r = "refused" => i \in refused' /\ i \in letters' \cup dropped'
    BY <2>1, FailsSettles
  <2>3. Passes(r) => Settled(i)'
    BY <2>1, <2>2 DEF Passes, Settled
  <2>. QED BY <1>5, <1>6, <2>1, <2>2, <2>3, FailingActions DEF Results
<1>7. ASSUME NEW i \in Entries, SkipsStored(i)
      PROVE  ProgressInv'
  <2>1. Settled(i)
    BY <1>7 DEF SkipsStored, AlreadyStored, Settled, Stored
  <2>2. result' = [result EXCEPT ![i] = "ok"] /\ UNCHANGED <<checkpoint, last>>
    BY <1>7 DEF SkipsStored, Ends
  <2>. QED BY <1>5, <2>1, <2>2, <1>a DEF Results
<1>8. ASSUME NEW i \in Entries, Commits(i)
      PROVE  ProgressInv'
  <2>1. Settled(i)'
    BY <1>8, ConsolidatedFacts DEF Commits, Settled, Stored
  <2>2. result' = [result EXCEPT ![i] = "ok"] /\ UNCHANGED <<checkpoint, last>>
    BY <1>8 DEF Commits, Ends
  <2>. QED BY <1>5, <2>1, <2>2 DEF Results
<1>9. CASE \/ Appends \/ NothingDue \/ FlushesDue \/ ReadsNothing \/ Reads
           \/ ChooseNext \/ Ages
  BY <1>1, <1>9
  DEF Appends, NothingDue, FlushesDue, ReadsNothing, Reads, ChooseNext, Ages
<1>10. ASSUME NEW i \in Entries, Inserts(i) \/ AddsItem(i) \/ ReadsAgenda(i) \/ RowSettles(i)
       PROVE  ProgressInv'
  BY <1>1, <1>10 DEF Inserts, AddsItem, ReadsAgenda, RowSettles, Goes
<1>11. CASE UNCHANGED vars
  BY <1>1, <1>11 DEF vars
<1>. QED BY <1>2, <1>3, <1>4, <1>6, <1>7, <1>8, <1>9, <1>10, <1>11
     DEF Next, Loop, Thread

-----------------------------------------------------------------------------
(* One write per entry.                                                    *)

\* A step that writes nothing and begins nothing that was written keeps both
\* parts of the invariant.
LEMMA WriteKept ==
  ASSUME TypeOK, WriteInv, UNCHANGED writes,
         \A i \in Entries : at'[i] # "idle" => at[i] # "idle" \/ writes[i] = 0
  PROVE  WriteInv'
  BY DEF WriteInv, StoredOnce

LEMMA WriteStep ==
  ASSUME TypeOK, WriteInv, [Next]_vars
  PROVE  WriteInv'
<1>. USE DEF streamVars, storeVars, letterVars, memoryVars, loopVars, entryVars
<1>1. CASE UNCHANGED <<writes, at>>
  BY <1>1, WriteKept
<1>2. ASSUME NEW i \in Entries, Consolidated(i), at[i] # "idle",
             at' = [at EXCEPT ![i] = "idle"]
      PROVE  WriteInv'
  <2>1. writes[i] = 0
    BY <1>2 DEF WriteInv
  <2>2. \A j \in Entries : writes'[j] <= 1
    BY <1>2, <2>1, ConsolidatedFacts DEF WriteInv, StoredOnce
  <2>3. \A j \in Entries : at'[j] # "idle" => j # i /\ at'[j] = at[j]
    BY <1>2 DEF TypeOK
  <2>4. \A j \in Entries : at'[j] # "idle" => writes'[j] = 0
    BY <1>2, <2>3, ConsolidatedFacts DEF WriteInv
  <2>. QED BY <2>2, <2>4 DEF WriteInv, StoredOnce
<1>3. ASSUME NEW i \in Entries, RowMissing(i) \/ AddFails(i) \/ TransactionFails(i)
      PROVE  WriteInv'
  <2>1. at' = [at EXCEPT ![i] = "idle"]
    BY <1>3, FailingActions, FailsSettles
  <2>2. UNCHANGED writes
    BY <1>3 DEF RowMissing, AddFails, TransactionFails
  <2>. QED BY <2>1, <2>2, WriteKept DEF TypeOK
<1>4. ASSUME NEW i \in Entries, CommitUnanswered(i)
      PROVE  WriteInv'
  <2>1. at' = [at EXCEPT ![i] = "idle"]
    BY <1>4, FailingActions, FailsSettles
  <2>2. Consolidated(i) /\ at[i] # "idle"
    BY <1>4 DEF CommitUnanswered
  <2>. QED BY <1>2, <2>1, <2>2
<1>5. ASSUME NEW i \in Entries, Commits(i)
      PROVE  WriteInv'
  <2>1. Consolidated(i) /\ at[i] # "idle" /\ at' = [at EXCEPT ![i] = "idle"]
    BY <1>5 DEF Commits, Ends
  <2>. QED BY <1>2, <2>1
<1>6. ASSUME NEW i \in Entries, SkipsStored(i)
      PROVE  WriteInv'
  BY <1>6, WriteKept DEF SkipsStored, Ends, TypeOK
<1>7. ASSUME NEW i \in Entries, Inserts(i)
      PROVE  WriteInv'
  <2>1. PICK s : at' = [at EXCEPT ![i] = s]
    BY <1>7 DEF Inserts, Goes
  <2>2. writes[i] = 0 /\ UNCHANGED writes
    BY <1>7 DEF Inserts, AlreadyStored, TypeOK
  <2>. QED BY <2>1, <2>2, WriteKept DEF TypeOK
<1>8. ASSUME NEW i \in Entries, AddsItem(i) \/ ReadsAgenda(i)
      PROVE  WriteInv'
  <2>1. PICK s : at' = [at EXCEPT ![i] = s]
    BY <1>8 DEF AddsItem, ReadsAgenda, Goes
  <2>2. at[i] # "idle" /\ UNCHANGED writes
    BY <1>8 DEF AddsItem, ReadsAgenda
  <2>. QED BY <2>1, <2>2, WriteKept DEF TypeOK
<1>9. CASE FlushDueFails \/ Crash
  BY <1>9, WriteKept DEF FlushDueFails, Crash, ProcessGone
<1>10. CASE \/ Appends \/ Loop \/ Ages \/ UNCHANGED vars
            \/ \E i \in Entries : RowSettles(i)
  BY <1>1, <1>10
  DEF Appends, Loop, Resolve, NothingDue, FlushesDue, ReadsNothing, Reads, ChooseNext,
      RecordCheckpoint, Ages, RowSettles, vars
<1>. QED BY <1>3, <1>4, <1>5, <1>6, <1>7, <1>8, <1>9, <1>10 DEF Next, Thread

-----------------------------------------------------------------------------
(* The agenda of a conversation.                                           *)

\* Nobody begins, nothing is created, and nobody new finds the agenda empty.
LEMMA AgendaKept ==
  ASSUME TypeOK, AgendaInv, UNCHANGED created,
         \A i \in Entries : Stored(i) => Stored(i)',
         \A i \in Entries : at'[i] # "idle" => at[i] # "idle",
         \A i \in Entries : at'[i] = "new" => at[i] = "new"
  PROVE  AgendaInv'
<1>1. Active' \subseteq Active
  BY DEF Active
<1>2. \A i \in created : Stored(i)'
  BY DEF AgendaInv, TypeOK
<1>3. \A i \in Active', j \in created :
        at'[i] = "new" /\ Serial(i, j) => AgendaOf[i] # AgendaOf[j]
  BY <1>1 DEF AgendaInv, Active
<1>4. \A i, j \in Active' : Serial(i, j) => i = j
  BY <1>1 DEF AgendaInv
<1>5. OneItemPerConversation'
  BY DEF AgendaInv, OneItemPerConversation
<1>. QED BY <1>2, <1>3, <1>4, <1>5 DEF AgendaInv, Serial

LEMMA AgendaStep ==
  ASSUME TypeOK, AgendaInv, [Next]_vars
  PROVE  AgendaInv'
<1>. USE DEF streamVars, storeVars, letterVars, memoryVars, loopVars, entryVars
<1>1. CASE UNCHANGED <<writes, created, at>>
  BY <1>1, AgendaKept DEF Stored
<1>2. ASSUME NEW i \in Entries, Consolidated(i), at[i] # "idle",
             at' = [at EXCEPT ![i] = "idle"]
      PROVE  AgendaInv'
  <2>1. Active' = Active \ {i} /\ \A j \in Active' : at'[j] = at[j]
    BY <1>2 DEF Active, TypeOK
  <2>2. \A j \in Entries : Stored(j) => Stored(j)'
    BY <1>2, ConsolidatedFacts DEF Stored
  <2>3. Stored(i)' /\ i \in Active
    BY <1>2, ConsolidatedFacts DEF Stored, Active
  <2>4. created' \subseteq created \cup {i} /\ (created' # created => at[i] = "new")
    BY <1>2 DEF Consolidated
  <2>5. \A j \in created' : Stored(j)'
    BY <2>2, <2>3, <2>4 DEF AgendaInv, TypeOK
  <2>6. OneItemPerConversation'
    <3>1. SUFFICES ASSUME NEW j \in created', NEW k \in created',
                          KeyOf[j] = KeyOf[k], AgendaOf[j] = AgendaOf[k]
                   PROVE  j = k
      BY DEF OneItemPerConversation
    <3>2. CASE j \in created /\ k \in created
      BY <3>1, <3>2 DEF AgendaInv, OneItemPerConversation
    <3>3. CASE j \notin created \/ k \notin created
      <4>1. at[i] = "new"
        BY <2>4, <3>1, <3>3
      <4>. QED BY <2>3, <2>4, <3>1, <3>3, <4>1 DEF AgendaInv, Serial
    <3>. QED BY <3>2, <3>3
  <2>7. \A j \in Active', k \in created' :
          at'[j] = "new" /\ Serial(j, k) => AgendaOf[j] # AgendaOf[k]
    <3>1. SUFFICES ASSUME NEW j \in Active', NEW k \in created',
                          at'[j] = "new", Serial(j, k)
                   PROVE  AgendaOf[j] # AgendaOf[k]
      OBVIOUS
    <3>2. j \in Active /\ j # i /\ at[j] = "new"
      BY <2>1, <3>1
    <3>3. k \in created
      BY <2>3, <2>4, <3>1, <3>2 DEF AgendaInv
    <3>. QED BY <3>1, <3>2, <3>3 DEF AgendaInv
  <2>8. \A j, k \in Active' : Serial(j, k) => j = k
    BY <2>1 DEF AgendaInv
  <2>. QED BY <2>5, <2>6, <2>7, <2>8 DEF AgendaInv, Serial
<1>3. ASSUME NEW i \in Entries, RowMissing(i) \/ AddFails(i) \/ TransactionFails(i)
      PROVE  AgendaInv'
  <2>1. at' = [at EXCEPT ![i] = "idle"]
    BY <1>3, FailingActions, FailsSettles
  <2>2. UNCHANGED <<writes, created>>
    BY <1>3 DEF RowMissing, AddFails, TransactionFails
  <2>. QED BY <2>1, <2>2, AgendaKept DEF TypeOK, Stored
<1>4. ASSUME NEW i \in Entries, CommitUnanswered(i)
      PROVE  AgendaInv'
  <2>1. at' = [at EXCEPT ![i] = "idle"]
    BY <1>4, FailingActions, FailsSettles
  <2>2. Consolidated(i) /\ at[i] # "idle"
    BY <1>4 DEF CommitUnanswered
  <2>. QED BY <1>2, <2>1, <2>2
<1>5. ASSUME NEW i \in Entries, Commits(i)
      PROVE  AgendaInv'
  <2>1. Consolidated(i) /\ at[i] # "idle" /\ at' = [at EXCEPT ![i] = "idle"]
    BY <1>5 DEF Commits, Ends
  <2>. QED BY <1>2, <2>1
<1>6. ASSUME NEW i \in Entries, SkipsStored(i)
      PROVE  AgendaInv'
  BY <1>6, AgendaKept DEF SkipsStored, Ends, TypeOK, Stored
<1>7. ASSUME NEW i \in Entries, Inserts(i)
      PROVE  AgendaInv'
  <2>1. PICK s \in {"known", "inserted"} : at' = [at EXCEPT ![i] = s]
    BY <1>7 DEF Inserts, Goes
  <2>2. UNCHANGED <<writes, created>> /\ \A j \in Active : ~Serial(i, j)
    BY <1>7 DEF Inserts, CanBegin
  <2>3. Active' \subseteq Active \cup {i}
        /\ \A j \in Active' : at'[j] = "new" => j \in Active /\ at[j] = "new"
    BY <2>1 DEF Active, TypeOK
  <2>4. \A j, k \in Active' : Serial(j, k) => j = k
    BY <2>2, <2>3 DEF AgendaInv, Serial
  <2>5. \A j \in Active', k \in created :
          at'[j] = "new" /\ Serial(j, k) => AgendaOf[j] # AgendaOf[k]
    BY <2>3 DEF AgendaInv
  <2>. QED BY <2>2, <2>4, <2>5 DEF AgendaInv, OneItemPerConversation, Stored, Serial
<1>8. ASSUME NEW i \in Entries, AddsItem(i)
      PROVE  AgendaInv'
  <2>1. at' = [at EXCEPT ![i] = "added"] /\ at[i] = "inserted"
        /\ UNCHANGED <<writes, created>>
    BY <1>8 DEF AddsItem, Goes
  <2>. QED BY <2>1, AgendaKept DEF TypeOK, Stored
<1>9. ASSUME NEW i \in Entries, ReadsAgenda(i)
      PROVE  AgendaInv'
  <2>1. PICK s : /\ at' = [at EXCEPT ![i] = s]
                 /\ s = "new" => \A j \in created : AgendaOf[j] # AgendaOf[i]
    BY <1>9 DEF ReadsAgenda, Goes
  <2>2. at[i] = "added" /\ UNCHANGED <<writes, created>>
    BY <1>9 DEF ReadsAgenda
  <2>3. Active' \subseteq Active
        /\ \A j \in Active' : j # i => at'[j] = at[j]
    BY <2>1, <2>2 DEF Active, TypeOK
  <2>4. \A j \in Active', k \in created :
          at'[j] = "new" /\ Serial(j, k) => AgendaOf[j] # AgendaOf[k]
    <3>1. SUFFICES ASSUME NEW j \in Active', NEW k \in created,
                          at'[j] = "new", Serial(j, k)
                   PROVE  AgendaOf[j] # AgendaOf[k]
      OBVIOUS
    <3>2. CASE j = i
      BY <2>1, <3>1, <3>2 DEF TypeOK
    <3>3. CASE j # i
      BY <2>3, <3>1, <3>3 DEF AgendaInv
    <3>. QED BY <3>2, <3>3
  <2>5. \A j, k \in Active' : Serial(j, k) => j = k
    BY <2>3 DEF AgendaInv
  <2>. QED BY <2>2, <2>4, <2>5 DEF AgendaInv, OneItemPerConversation, Stored, Serial
<1>10. CASE FlushDueFails \/ Crash
  BY <1>10, AgendaKept DEF FlushDueFails, Crash, ProcessGone, Stored
<1>11. CASE \/ Appends \/ Loop \/ Ages \/ UNCHANGED vars
            \/ \E i \in Entries : RowSettles(i)
  BY <1>1, <1>11
  DEF Appends, Loop, Resolve, NothingDue, FlushesDue, ReadsNothing, Reads, ChooseNext,
      RecordCheckpoint, Ages, RowSettles, vars
<1>. QED BY <1>3, <1>4, <1>5, <1>6, <1>7, <1>8, <1>9, <1>10, <1>11 DEF Next, Thread

-----------------------------------------------------------------------------
(* The memory enrichment.                                                  *)

\* Draining batch b forgets nothing of it: it is stored or known to be lost.
LEMMA DrainKeeps ==
  ASSUME NEW b, Items(batch) \subseteq Items(b),
         Flushed(b) \/ \E k : FlushRaises(b, k)
  PROVE  enriched \cup Items(batch) \cup lost \cup Items(b)
           \subseteq enriched' \cup Items(batch') \cup lost'
  BY DEF Flushed, FlushRaises, Emitted

\* Places stay filled, nothing is stored, nobody gets further than "inserted".
LEMMA EnrichmentStays ==
  ASSUME TypeOK, EnrichmentInv,
         enriched \cup Items(batch) \cup lost
           \subseteq enriched' \cup Items(batch') \cup lost',
         UNCHANGED writes,
         \A i \in Entries \ Quiet :
           at'[i] \in {"added", "new", "known"} => at[i] \in {"added", "new", "known"}
  PROVE  EnrichmentInv'
  BY DEF EnrichmentInv, EnrichmentKept, Stored

LEMMA EnrichmentStep ==
  ASSUME TypeOK, EnrichmentInv, [Next]_vars
  PROVE  EnrichmentInv'
<1>. USE DEF streamVars, storeVars, letterVars, memoryVars, loopVars, entryVars
<1>1. CASE UNCHANGED <<writes, at, enriched, batch, lost>>
  BY <1>1, EnrichmentStays DEF Items
<1>2. CASE FlushesDue
  <2>1. Flushed(batch) /\ UNCHANGED <<writes, at>>
    BY <1>2 DEF FlushesDue
  <2>. QED BY <2>1, DrainKeeps, EnrichmentStays
<1>3. CASE FlushDueFails
  <2>1. (\E k : FlushRaises(batch, k)) /\ UNCHANGED writes
        /\ at' = [i \in Entries |-> "idle"]
    BY <1>3 DEF FlushDueFails, ProcessGone
  <2>. QED BY <2>1, DrainKeeps, EnrichmentStays
<1>4. CASE Crash
  <2>1. UNCHANGED <<writes, enriched>> /\ lost' = lost \cup Items(batch)
        /\ at' = [i \in Entries |-> "idle"]
    BY <1>4 DEF Crash, ProcessGone
  <2>. QED BY <2>1, EnrichmentStays
<1>5. ASSUME NEW i \in Entries, AddsItem(i)
      PROVE  EnrichmentInv'
  <2>1. /\ at' = [at EXCEPT ![i] = "added"] /\ UNCHANGED writes
        /\ at[i] = "inserted"
    BY <1>5 DEF AddsItem, Goes
  <2>2. Items(Append(batch, i)) = Items(batch) \cup {i}
    BY BatchFacts DEF TypeOK
  <2>3. enriched \cup Items(batch) \cup lost \cup {i}
          \subseteq enriched' \cup Items(batch') \cup lost'
    <3>1. CASE Flushed(Append(batch, i))
      BY <2>2, <3>1, DrainKeeps
    <3>2. CASE batch' = Append(batch, i) /\ lost' = lost \ {i} /\ UNCHANGED enriched
      BY <2>2, <3>2
    <3>. QED BY <1>5, <3>1, <3>2 DEF AddsItem
  <2>4. \A j \in Entries : j # i => at'[j] = at[j]
    BY <2>1 DEF TypeOK
  <2>5. \A j \in Entries \ Quiet : Stored(j) => j \in enriched' \cup Items(batch') \cup lost'
    BY <2>3 DEF EnrichmentInv, EnrichmentKept
  <2>6. \A j \in Entries \ Quiet :
          at'[j] \in {"added", "new", "known"}
            => j \in enriched' \cup Items(batch') \cup lost'
    BY <2>3, <2>4 DEF EnrichmentInv
  <2>. QED BY <2>1, <2>5, <2>6 DEF EnrichmentInv, EnrichmentKept, Stored
<1>6. ASSUME NEW i \in Entries, AddFails(i)
      PROVE  EnrichmentInv'
  <2>1. (\E k : FlushRaises(Append(batch, i), k)) /\ UNCHANGED writes
    BY <1>6 DEF AddFails
  <2>2. at' = [at EXCEPT ![i] = "idle"]
    BY <1>6, FailingActions, FailsSettles
  <2>3. Items(batch) \subseteq Items(Append(batch, i))
    BY BatchFacts DEF TypeOK
  <2>. QED BY <2>1, <2>2, <2>3, DrainKeeps, EnrichmentStays DEF TypeOK
<1>7. ASSUME NEW i \in Entries, RowMissing(i) \/ TransactionFails(i)
      PROVE  EnrichmentInv'
  <2>1. at' = [at EXCEPT ![i] = "idle"]
    BY <1>7, FailingActions, FailsSettles
  <2>2. UNCHANGED <<writes, enriched, batch, lost>>
    BY <1>7 DEF RowMissing, TransactionFails
  <2>. QED BY <2>1, <2>2, EnrichmentStays DEF TypeOK, Items
<1>8. ASSUME NEW i \in Entries, Consolidated(i), at[i] \in {"new", "known"},
             at' = [at EXCEPT ![i] = "idle"], UNCHANGED <<enriched, batch, lost>>
      PROVE  EnrichmentInv'
  <2>1. i \notin Quiet => i \in enriched \cup Items(batch) \cup lost
    BY <1>8 DEF EnrichmentInv
  <2>2. \A j \in Entries : j # i => at'[j] = at[j] /\ writes'[j] = writes[j]
    BY <1>8, ConsolidatedFacts DEF TypeOK
  <2>3. at'[i] = "idle"
    BY <1>8 DEF TypeOK
  <2>4. Items(batch)' = Items(batch)
    BY <1>8 DEF Items
  <2>. QED BY <1>8, <2>1, <2>2, <2>3, <2>4 DEF EnrichmentInv, EnrichmentKept, Stored
<1>9. ASSUME NEW i \in Entries, CommitUnanswered(i)
      PROVE  EnrichmentInv'
  <2>1. at' = [at EXCEPT ![i] = "idle"]
    BY <1>9, FailingActions, FailsSettles
  <2>. QED BY <1>8, <1>9, <2>1 DEF CommitUnanswered
<1>10. ASSUME NEW i \in Entries, Commits(i)
       PROVE  EnrichmentInv'
  BY <1>8, <1>10 DEF Commits, Ends
<1>11. ASSUME NEW i \in Entries, SkipsStored(i)
       PROVE  EnrichmentInv'
  <2>1. at' = [at EXCEPT ![i] = "idle"] /\ UNCHANGED <<writes, enriched, batch, lost>>
    BY <1>11 DEF SkipsStored, Ends
  <2>. QED BY <2>1, EnrichmentStays DEF TypeOK, Items
<1>12. ASSUME NEW i \in Entries, Inserts(i)
       PROVE  EnrichmentInv'
  <2>1. /\ at' = [at EXCEPT ![i] = IF i \in Quiet THEN "known" ELSE "inserted"]
        /\ UNCHANGED <<writes, enriched, batch, lost>>
    BY <1>12 DEF Inserts, Goes
  <2>. QED BY <2>1, EnrichmentStays DEF TypeOK, Items
<1>13. ASSUME NEW i \in Entries, ReadsAgenda(i)
       PROVE  EnrichmentInv'
  <2>1. /\ \E s : at' = [at EXCEPT ![i] = s]
        /\ at[i] = "added" /\ UNCHANGED <<writes, enriched, batch, lost>>
    BY <1>13 DEF ReadsAgenda, Goes
  <2>. QED BY <2>1, EnrichmentStays DEF TypeOK, Items
<1>14. CASE \/ Appends \/ Resolve \/ NothingDue \/ ReadsNothing \/ Reads \/ ChooseNext
            \/ RecordCheckpoint \/ Ages \/ UNCHANGED vars
            \/ \E i \in Entries : RowSettles(i)
  BY <1>1, <1>14
  DEF Appends, Resolve, NothingDue, ReadsNothing, Reads, ChooseNext,
      RecordCheckpoint, Ages, RowSettles, vars
<1>. QED BY <1>2, <1>3, <1>4, <1>5, <1>6, <1>7, <1>9, <1>10, <1>11, <1>12, <1>13, <1>14
     DEF Next, Loop, Thread

-----------------------------------------------------------------------------
(* The theorems.                                                           *)

LEMMA InvariantInit ==
  ASSUME Init PROVE StreamInv
<1>1. ProgressInv
  BY DEF Init, ProgressInv, CheckpointCovers, Passes, Entries
<1>2. WriteInv
  BY DEF Init, WriteInv, StoredOnce
<1>3. AgendaInv
  BY DEF Init, AgendaInv, OneItemPerConversation, Active
<1>4. EnrichmentInv
  BY DEF Init, EnrichmentInv, EnrichmentKept, Stored
<1>. QED BY <1>1, <1>2, <1>3, <1>4 DEF StreamInv

\* The inductive invariant: progress, writes, agenda and enrichment together.
THEOREM StreamInvariant == Spec => []StreamInv
<1>1. StreamInv /\ TypeOK /\ [Next]_vars => StreamInv'
  BY ProgressStep, WriteStep, AgendaStep, EnrichmentStep DEF StreamInv
<1>. QED BY <1>1, InvariantInit, TypeCorrect, PTL DEF Spec

\* Whatever the worker read twice, in whatever order, across any crashes and
\* failing commands: its checkpoint stands only behind settled entries.
THEOREM CheckpointIsSafe == Spec => []CheckpointCovers
<1>1. StreamInv => CheckpointCovers
  BY DEF StreamInv, ProgressInv
<1>. QED BY <1>1, StreamInvariant, PTL

\* An entry read any number of times is consolidated at most once.
THEOREM NothingTwice == Spec => []StoredOnce
<1>1. StreamInv => StoredOnce
  BY DEF StreamInv, WriteInv
<1>. QED BY <1>1, StreamInvariant, PTL

\* For any number of threads, the entries of one conversation make one agenda
\* item of one appointment.
THEOREM OneItem == Spec => []OneItemPerConversation
<1>1. StreamInv => OneItemPerConversation
  BY DEF StreamInv, AgendaInv
<1>. QED BY <1>1, StreamInvariant, PTL

\* A stored entry's enrichment is stored, in the batch, or lost with a process
\* or a failed flush.
THEOREM EnrichmentIsKept == Spec => []EnrichmentKept
<1>1. StreamInv => EnrichmentKept
  BY DEF StreamInv, EnrichmentInv
<1>. QED BY <1>1, StreamInvariant, PTL
=============================================================================
