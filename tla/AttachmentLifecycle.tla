------------------------- MODULE AttachmentLifecycle -------------------------
(***************************************************************************)
(* What the attachment pipeline promises of one attachment, whatever the   *)
(* handlers and workers do: its status moves along ALLOWED_TRANSITIONS of  *)
(* runtime_api/app/attachments/models.py, only ready drafts are bound to a *)
(* message, only drafts are deleted, and what is bound stays ready until   *)
(* it leaves the table with its conversation.  Module Attachments is       *)
(* checked to implement it.                                                *)
(***************************************************************************)
CONSTANTS Atts
VARIABLES status, life

ALLOWED_TRANSITIONS ==
  ({"receiving"} \X {"stored", "rejected", "failed"}) \cup
  ({"stored"} \X {"processing", "rejected", "failed"}) \cup
  ({"processing"} \X {"ready", "rejected", "failed"}) \cup
  ({"ready", "failed"} \X {"processing"})

Init ==
  /\ status = [a \in Atts |-> "none"]
  /\ life = [a \in Atts |-> "draft"]

Upload(a) ==
  /\ status[a] = "none"
  /\ status' = [status EXCEPT ![a] = "receiving"]
  /\ UNCHANGED life

Advance(a, new) ==
  /\ <<status[a], new>> \in ALLOWED_TRANSITIONS
  /\ life[a] # "attached"
  /\ status' = [status EXCEPT ![a] = new]
  /\ UNCHANGED life

Attach(S) ==
  /\ \A a \in S : status[a] = "ready" /\ life[a] = "draft"
  /\ life' = [a \in Atts |-> IF a \in S THEN "attached" ELSE life[a]]
  /\ UNCHANGED status

Delete(a) ==
  /\ status[a] \notin {"none", "removed"} /\ life[a] = "draft"
  /\ life' = [life EXCEPT ![a] = "deleted"]
  /\ UNCHANGED status

\* The conversation that the messages of S belong to is deleted.
Remove(S) ==
  /\ \A a \in S : status[a] # "none" /\ life[a] = "attached"
  /\ status' = [a \in Atts |-> IF a \in S THEN "removed" ELSE status[a]]
  /\ UNCHANGED life

Next ==
  \/ \E a \in Atts : Upload(a) \/ Delete(a)
  \/ \E a \in Atts, new \in {"stored", "processing", "ready", "rejected", "failed"} :
       Advance(a, new)
  \/ \E S \in SUBSET Atts : Attach(S) \/ Remove(S)

Spec == Init /\ [][Next]_<<status, life>>
=============================================================================
