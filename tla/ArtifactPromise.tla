---------------------------- MODULE ArtifactPromise ----------------------------
(***************************************************************************)
(* What a task that makes a file promises the conversation it came from:   *)
(* files are kept, one message names some of them, it is sent once, only   *)
(* after the task was finished, and it is sent if the task stays finished  *)
(* and a file is kept.  A task is withdrawn when its owner cancelled it,   *)
(* before its end or after, or something is recorded after its end, a late *)
(* answer or an error: then the message may be sent or not.                *)
(***************************************************************************)
EXTENDS Naturals

VARIABLES
  phase,   \* of the task
  kept,    \* files that are kept
  told,    \* messages sent
  sent     \* files they name

vars == <<phase, kept, told, sent>>

Init == phase = "open" /\ kept = {} /\ told = 0 /\ sent = {}

\* One file at a time, in any phase: the rows of a file are committed after
\* the events of the run that made it.
Keep ==
  /\ \E f \in kept' : f \notin kept /\ kept' = kept \cup {f}
  /\ UNCHANGED <<phase, told, sent>>

Finish ==
  /\ phase = "open" /\ phase' \in {"finished", "withdrawn"}
  /\ UNCHANGED <<kept, told, sent>>

Withdraw == phase = "finished" /\ phase' = "withdrawn" /\ UNCHANGED <<kept, told, sent>>

Tell ==
  /\ phase # "open" /\ told = 0
  /\ \E F \in SUBSET kept : F # {} /\ sent' = F
  /\ told' = 1
  /\ UNCHANGED <<phase, kept>>

Next == Keep \/ Finish \/ Withdraw \/ Tell

Spec == Init /\ [][Next]_vars /\ WF_vars(phase = "finished" /\ Tell)
=============================================================================
