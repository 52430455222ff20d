----------------------------- MODULE StreamWorker -----------------------------
(***************************************************************************)
(* The worker of the event stream (worker/app/worker.py, event_batcher.py  *)
(* and worker_concurrency.py): one process that reads the Redis stream     *)
(* events:raw, consolidates each entry in a Postgres transaction of its    *)
(* own, collects what is left to do in memory, and keeps one checkpoint    *)
(* for all of them.  The stream is written by runtime-api.                 *)
(*                                                                         *)
(* Grain.  One action is one Redis command, one transaction, or the part   *)
(* of a transaction up to the next thing another thread can observe: the   *)
(* insert of the semantic row, the item put into the batch, the read of    *)
(* the agenda, the commit.  A batch leaves memory and is written in one    *)
(* action: once drained only its thread knows it.                          *)
(*                                                                         *)
(* An entry is its position in the stream.  SortKey ranks entries the way  *)
(* stream_entry_priority does (class, then message id), KeyOf is the lock  *)
(* key of their conversation, AgendaOf the dedupe key of the appointment   *)
(* they speak of, and Quiet the low-value telemetry, which is stored and   *)
(* nothing more.  What an entry says is left out.                          *)
(*                                                                         *)
(* Bounds: MaxEntries (length of the stream) and MaxFaults (faults of the  *)
(* kinds in FaultKinds).                                                   *)
(***************************************************************************)
EXTENDS Integers, Sequences, FiniteSets

CONSTANTS
  MaxEntries,
  SortKey, KeyOf, AgendaOf, NoItem, Quiet,
  ReadCount,      \* entries of one XREAD
  ProcessCount,   \* entries handed to the thread pool at once
  Threads,        \* WORKER_CONCURRENCY
  MaxItems,       \* WORKER_MEMORY_BATCH_SIZE
  FaultKinds, MaxFaults

ASSUME StreamAssumption ==
  /\ MaxEntries \in Nat /\ MaxFaults \in Nat
  /\ ReadCount \in Nat \ {0} /\ ProcessCount \in Nat \ {0}
  /\ Threads \in Nat \ {0} /\ MaxItems \in Nat \ {0}

Entries == 1..MaxEntries

VARIABLES
  length,      \* entries in the stream
  row,         \* the events row an entry refers to
  checkpoint,  \* events:raw:worker:last_id, 0 when there is none
  writes,      \* times an entry was consolidated: timeline, agenda, suggestion
  created,     \* entries that created an agenda item
  refused,     \* entries given up for good
  letters,     \* entries with a dead letter
  dropped,     \* entries whose dead letter could not be written
  enriched,    \* entries whose memory enrichment is stored
  lost,        \* entries whose enrichment vanished with the memory it was in
  batch,       \* MemoryBatcher.items
  due,         \* the oldest item of the batch has reached its age
  pc,          \* where the main loop is
  last,        \* last_id of the main loop
  high,        \* the last entry of the read that is processed
  chosen,      \* the entries the thread pool was given
  at,          \* how far the transaction of an entry is
  result,      \* StreamProcessResult of an entry of this read
  faults

streamVars == <<length, row>>
storeVars == <<writes, created>>
letterVars == <<refused, letters, dropped>>
memoryVars == <<enriched, lost, batch, due>>
loopVars == <<pc, last, high, chosen>>
entryVars == <<at, result>>
vars == <<streamVars, checkpoint, storeVars, letterVars, memoryVars, loopVars,
          entryVars, faults>>

Points == {"resolve", "flush", "read", "process"}
Steps == {"idle", "inserted", "added", "new", "known"}
Results == {"none", "ok", "refused", "retry"}

\* Mutant of Full: one item too late.
FullTooLate(b) == Len(b) > MaxItems

\* MemoryBatcher.add drains at max_items.
Full(b) == Len(b) >= MaxItems

Items(b) == {b[n] : n \in DOMAIN b}

Fault(kinds) ==
  /\ kinds \subseteq FaultKinds
  /\ faults + Cardinality(kinds) <= MaxFaults
  /\ faults' = faults + Cardinality(kinds)

Init ==
  /\ length = 0
  /\ row = [i \in Entries |-> "none"]
  /\ checkpoint = 0
  /\ writes = [i \in Entries |-> 0]
  /\ created = {} /\ refused = {} /\ letters = {} /\ dropped = {}
  /\ enriched = {} /\ lost = {} /\ batch = <<>> /\ due = FALSE
  /\ pc = "resolve" /\ last = 0 /\ high = 0 /\ chosen = {}
  /\ at = [i \in Entries |-> "idle"]
  /\ result = [i \in Entries |-> "none"]
  /\ faults = 0

-----------------------------------------------------------------------------
(* runtime-api.  A collector's event is appended after its row was         *)
(* committed, a turn of the chat while its transaction is still open.      *)

Appends ==
  /\ length < MaxEntries
  /\ length' = length + 1
  /\ \E s \in {"open", "committed"} : row' = [row EXCEPT ![length + 1] = s]
  /\ UNCHANGED <<checkpoint, storeVars, letterVars, memoryVars, loopVars,
                 entryVars, faults>>

RowSettles(i) ==
  /\ row[i] = "open"
  /\ \E s \in {"committed", "aborted"} : row' = [row EXCEPT ![i] = s]
  /\ UNCHANGED <<length, checkpoint, storeVars, letterVars, memoryVars,
                 loopVars, entryVars, faults>>

-----------------------------------------------------------------------------
(* The main loop.                                                          *)

\* resolve_start_id: without a checkpoint, or when GET fails, from the start.
Resolve ==
  /\ pc = "resolve"
  /\ \/ last' = checkpoint /\ UNCHANGED faults
     \/ last' = 0 /\ Fault({"get"})
  /\ pc' = "flush"
  /\ UNCHANGED <<streamVars, checkpoint, storeVars, letterVars, memoryVars,
                 high, chosen, entryVars>>

\* Mutant of Emitted: the batch handed on is the list that was cleared.
EmittedCleared(b) == {}

\* What _emit hands to persist_memory_enrichment_batch.
Emitted(b) == Items(b)

Drained == batch' = <<>> /\ due' = FALSE

\* persist_memory_enrichment_batch commits all items of b, or none.
Flushed(b) ==
  /\ Drained
  /\ enriched' = enriched \cup Emitted(b)
  /\ lost' = lost \ Emitted(b)

\* It raises: nothing is stored, or the answer of its commit is lost.
FlushRaises(b, kind) ==
  \/ kind = "flush" /\ Drained /\ lost' = lost \cup Items(b) /\ UNCHANGED enriched
  \/ kind = "reply" /\ Flushed(b)

NothingDue ==
  /\ pc = "flush"
  /\ batch = <<>> \/ ~due
  /\ pc' = "read"
  /\ UNCHANGED <<streamVars, checkpoint, storeVars, letterVars, memoryVars,
                 last, high, chosen, entryVars, faults>>

FlushesDue ==
  /\ pc = "flush" /\ batch # <<>> /\ due
  /\ Flushed(batch)
  /\ pc' = "read"
  /\ UNCHANGED <<streamVars, checkpoint, storeVars, letterVars,
                 last, high, chosen, entryVars, faults>>

\* What the memory of the process held is gone; the container starts again.
ProcessGone ==
  /\ pc' = "resolve" /\ last' = 0 /\ high' = 0 /\ chosen' = {}
  /\ at' = [i \in Entries |-> "idle"]
  /\ result' = [i \in Entries |-> "none"]

\* main has no handler around flush_due.
FlushDueFails ==
  /\ pc = "flush" /\ batch # <<>> /\ due
  /\ \E k \in {"flush", "reply"} : FlushRaises(batch, k) /\ Fault({k})
  /\ ProcessGone
  /\ UNCHANGED <<streamVars, checkpoint, storeVars, letterVars>>

Crash ==
  /\ Fault({"crash"})
  /\ ProcessGone
  /\ Drained
  /\ lost' = lost \cup Items(batch)
  /\ UNCHANGED <<streamVars, checkpoint, storeVars, letterVars, enriched>>

Ages ==
  /\ batch # <<>> /\ ~due
  /\ due' = TRUE
  /\ UNCHANGED <<streamVars, checkpoint, storeVars, letterVars, enriched, lost,
                 batch, loopVars, entryVars, faults>>

\* Mutant of AfterNothingRead: flush_due only after a read with entries.
AfterNothingReadAgain == "read"

AfterNothingRead == "flush"

ReadsNothing ==
  /\ pc = "read" /\ length = last
  /\ pc' = AfterNothingRead
  /\ UNCHANGED <<streamVars, checkpoint, storeVars, letterVars, memoryVars,
                 last, high, chosen, entryVars, faults>>

Reads ==
  /\ pc = "read" /\ length > last
  /\ high' = IF length < last + ReadCount THEN length ELSE last + ReadCount
  /\ pc' = "process"
  /\ UNCHANGED <<streamVars, checkpoint, storeVars, letterVars, memoryVars,
                 last, chosen, entryVars, faults>>

-----------------------------------------------------------------------------
(* process_stream_entries_batch.                                           *)

Window == (last + 1)..high
Pending == {i \in Window : result[i] = "none"}

\* select_stream_entries_for_processing
Selected == {i \in Pending :
               Cardinality({j \in Pending : SortKey[j] < SortKey[i]}) < ProcessCount}

ChooseNext ==
  /\ pc = "process"
  /\ \A i \in chosen : result[i] # "none"
  /\ Pending # {}
  /\ chosen' = Selected
  /\ UNCHANGED <<streamVars, checkpoint, storeVars, letterVars, memoryVars,
                 pc, last, high, entryVars, faults>>

\* Mutant of Passes: only success lets the checkpoint pass.
PassesSuccess(r) == r = "ok"

Passes(r) == r \in {"ok", "refused"}

\* Mutant of PassedUpTo: stream_batch_checkpoint_id, the last entry read.
PassedUpToEnd(n) == n = high

\* n is the last entry before the first whose result stops the checkpoint.
PassedUpTo(n) ==
  /\ n \in last..high
  /\ \A i \in (last + 1)..n : Passes(result[i])
  /\ n < high => ~Passes(result[n + 1])

RecordCheckpoint ==
  /\ pc = "process"
  /\ Pending = {}
  /\ \E n \in last..high :
       /\ PassedUpTo(n)
       /\ \/ /\ checkpoint' = IF n > last THEN n ELSE checkpoint
             /\ UNCHANGED faults
          \/ n > last /\ Fault({"set"}) /\ UNCHANGED checkpoint
  /\ pc' = "resolve" /\ chosen' = {}
  /\ result' = [i \in Entries |-> "none"]
  /\ UNCHANGED <<streamVars, storeVars, letterVars, memoryVars, last, high, at>>

-----------------------------------------------------------------------------
(* process_stream_entry_result on a thread of the pool, under the lock of  *)
(* the entry's conversation.                                               *)

Active == {i \in Entries : at[i] # "idle"}

\* Mutant of Serial: entries are locked one by one.
SerialByEntry(i, j) == i = j

Serial(i, j) == KeyOf[i] = KeyOf[j]

\* The pool takes its tasks in order; a task that waits for a lock keeps its
\* thread.
CanBegin(i) ==
  /\ pc = "process" /\ i \in chosen
  /\ result[i] = "none" /\ at[i] = "idle"
  /\ Cardinality({j \in chosen : result[j] = "none" /\ SortKey[j] < SortKey[i]})
       < Threads
  /\ \A j \in Active : ~Serial(i, j)

Goes(i, s) == at' = [at EXCEPT ![i] = s] /\ UNCHANGED result
Ends(i, r) == at' = [at EXCEPT ![i] = "idle"] /\ result' = [result EXCEPT ![i] = r]

\* The entry fails by these faults.  A dead letter is written first
\* (deadletter_stream_entry); when that fails too, it is only printed.
Fails(i, r, kinds) ==
  /\ Ends(i, r)
  /\ refused' = IF r = "refused" THEN refused \cup {i} ELSE refused
  /\ \/ letters' = letters \cup {i} /\ Fault(kinds) /\ UNCHANGED dropped
     \/ /\ dropped' = dropped \cup {i} /\ Fault(kinds \cup {"letter"})
        /\ UNCHANGED letters

\* The events row is not visible, so the foreign key refuses the insert.
RowMissing(i) ==
  /\ CanBegin(i)
  /\ row[i] # "committed"
  /\ Fails(i, "refused", {})
  /\ UNCHANGED <<streamVars, checkpoint, storeVars, memoryVars, loopVars>>

\* Mutant of AlreadyStored: the row count of the insert is not looked at.
AlreadyStoredIgnored(i) == FALSE

AlreadyStored(i) == writes[i] > 0

SkipsStored(i) ==
  /\ CanBegin(i)
  /\ row[i] = "committed" /\ AlreadyStored(i)
  /\ Ends(i, "ok")
  /\ UNCHANGED <<streamVars, checkpoint, storeVars, letterVars, memoryVars,
                 loopVars, faults>>

Inserts(i) ==
  /\ CanBegin(i)
  /\ row[i] = "committed" /\ ~AlreadyStored(i)
  /\ Goes(i, IF i \in Quiet THEN "known" ELSE "inserted")
  /\ UNCHANGED <<streamVars, checkpoint, storeVars, letterVars, memoryVars,
                 loopVars, faults>>

\* MemoryBatcher.add; the thread that fills the batch writes it.
AddsItem(i) ==
  /\ at[i] = "inserted"
  /\ LET b == Append(batch, i) IN
       IF Full(b) THEN Flushed(b)
       ELSE batch' = b /\ lost' = lost \ {i} /\ UNCHANGED <<enriched, due>>
  /\ Goes(i, "added")
  /\ UNCHANGED <<streamVars, checkpoint, storeVars, letterVars, loopVars, faults>>

AddFails(i) ==
  /\ at[i] = "inserted"
  /\ Full(Append(batch, i))
  /\ \E k \in {"flush", "reply"}, r \in {"refused", "retry"} :
       /\ FlushRaises(Append(batch, i), k) /\ Fails(i, r, {k})
       /\ k = "reply" => r = "retry"
  /\ UNCHANGED <<streamVars, checkpoint, storeVars, loopVars>>

\* persist_agenda looks for an item with the dedupe key.
ReadsAgenda(i) ==
  /\ at[i] = "added"
  /\ Goes(i, IF AgendaOf[i] = NoItem \/ \E j \in created : AgendaOf[j] = AgendaOf[i]
             THEN "known" ELSE "new")
  /\ UNCHANGED <<streamVars, checkpoint, storeVars, letterVars, memoryVars,
                 loopVars, faults>>

Consolidated(i) ==
  /\ writes' = [writes EXCEPT ![i] = @ + 1]
  /\ created' = IF at[i] = "new" THEN created \cup {i} ELSE created

Commits(i) ==
  /\ at[i] \in {"new", "known"}
  /\ Consolidated(i)
  /\ Ends(i, "ok")
  /\ UNCHANGED <<streamVars, checkpoint, letterVars, memoryVars, loopVars, faults>>

CommitUnanswered(i) ==
  /\ at[i] \in {"new", "known"}
  /\ Consolidated(i)
  /\ Fails(i, "retry", {"reply"})
  /\ UNCHANGED <<streamVars, checkpoint, memoryVars, loopVars>>

\* The database is away or goes away (is_retryable_worker_error), or anything
\* else raises: nothing is written.
TransactionFails(i) ==
  /\ at[i] # "idle" \/ CanBegin(i)
  /\ \/ Fails(i, "retry", {"db"})
     \/ Fails(i, "refused", {"error"})
  /\ UNCHANGED <<streamVars, checkpoint, storeVars, memoryVars, loopVars>>

-----------------------------------------------------------------------------

Loop == \/ Resolve \/ NothingDue \/ FlushesDue \/ ReadsNothing \/ Reads
        \/ ChooseNext \/ RecordCheckpoint

Thread(i) == \/ RowMissing(i) \/ SkipsStored(i) \/ Inserts(i) \/ AddsItem(i)
             \/ ReadsAgenda(i) \/ Commits(i)

Next ==
  \/ Appends \/ Loop \/ FlushDueFails \/ Crash \/ Ages
  \/ \E i \in Entries :
       Thread(i) \/ RowSettles(i) \/ AddFails(i) \/ CommitUnanswered(i)
         \/ TransactionFails(i)

(* The loop and its threads go on (compose restarts the container), and    *)
(* time passes.                                                            *)
Fairness ==
  /\ WF_vars(Loop)
  /\ \A i \in Entries : WF_vars(Thread(i))
  /\ WF_vars(Ages)

Spec == Init /\ [][Next]_vars
FairSpec == Spec /\ Fairness

-----------------------------------------------------------------------------
(* Properties.                                                             *)

\* Variables have their types, and the batch is below its limit.
TypeOK ==
  /\ length \in 0..MaxEntries /\ checkpoint \in 0..length /\ last \in 0..length
  /\ high \in 0..length
  /\ row \in [Entries -> {"none", "open", "committed", "aborted"}]
  /\ writes \in [Entries -> Nat]
  /\ created \subseteq Entries /\ refused \subseteq Entries
  /\ letters \subseteq Entries /\ dropped \subseteq Entries
  /\ enriched \subseteq Entries /\ lost \subseteq Entries
  /\ batch \in Seq(Entries) /\ Len(batch) < MaxItems /\ due \in BOOLEAN
  /\ pc \in Points /\ chosen \subseteq Entries
  /\ at \in [Entries -> Steps] /\ result \in [Entries -> Results]
  /\ faults \in 0..MaxFaults

Stored(i) == writes[i] > 0
Settled(i) == Stored(i) \/ (i \in refused /\ i \in letters \cup dropped)

\* The checkpoint of process_stream_entries_batch stands for every entry
\* before it: each is stored, or was refused with a dead letter (unless the
\* dead letter itself could not be written), whatever order, restart or
\* failure brought it there.
CheckpointCovers == \A i \in 1..checkpoint : Settled(i)

\* However often an entry is read again (after a crash, a checkpoint that
\* could not be read or written, an unanswered commit), persist_semantics
\* writes its timeline, agenda and suggestion once.
StoredOnce == \A i \in Entries : writes[i] <= 1

\* The lock of a conversation makes persist_agenda's read-then-insert safe
\* within it: one appointment of one conversation becomes one agenda item.
OneItemPerConversation ==
  \A i, j \in created :
    KeyOf[i] = KeyOf[j] /\ AgendaOf[i] = AgendaOf[j] => i = j

\* The memory enrichment of a stored entry is stored too, waits in the
\* batch, or went down with a process or a failed flush; no other path of
\* MemoryBatcher forgets it.
EnrichmentKept ==
  \A i \in Entries \ Quiet :
    Stored(i) => i \in enriched \cup Items(batch) \cup lost

\* An event that runtime-api committed is consolidated once the checkpoint has
\* passed its entry: recovery from the checkpoint leaves no event out.
CommittedIsConsolidated ==
  \A i \in 1..checkpoint : row[i] = "committed" => Stored(i)

\* After the last event the checkpoint reaches the end of the stream and
\* stays: no entry, refused or unfortunate, holds up the ones behind it.
CatchesUp == <>[](checkpoint = length)

\* flush_due writes what waits in the batch even if no event comes any more.
EnrichmentArrives ==
  \A i \in Entries \ Quiet : Stored(i) ~> (i \in enriched \cup lost)

-----------------------------------------------------------------------------
(* The inductive invariant.                                                *)

\* What the loop works from is settled, and a result says what happened.
ProgressInv ==
  /\ CheckpointCovers
  /\ \A i \in 1..last : Settled(i)
  /\ \A i \in Entries : Passes(result[i]) => Settled(i)

\* A transaction that runs is the first for its entry.
WriteInv ==
  /\ StoredOnce
  /\ \A i \in Entries : at[i] # "idle" => writes[i] = 0

\* Transactions that run are of different conversations, so what one of them
\* read of the agenda of its own conversation is still true.
AgendaInv ==
  /\ OneItemPerConversation
  /\ \A i \in created : Stored(i)
  /\ \A i, j \in Active : Serial(i, j) => i = j
  /\ \A i \in Active, j \in created :
       at[i] = "new" /\ Serial(i, j) => AgendaOf[i] # AgendaOf[j]

\* What was put into the batch is somewhere until its transaction ends.
EnrichmentInv ==
  /\ EnrichmentKept
  /\ \A i \in Entries \ Quiet :
       at[i] \in {"added", "new", "known"}
         => i \in enriched \cup Items(batch) \cup lost

StreamInv == ProgressInv /\ WriteInv /\ AgendaInv /\ EnrichmentInv

=============================================================================
