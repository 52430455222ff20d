---------------------------- MODULE MCAttachments ----------------------------
(***************************************************************************)
(* Instances of module Attachments for TLC.  The worker processes run the  *)
(* same loop and are interchangeable, so the safety runs with two of them  *)
(* take one state for each pair of mirror images.                          *)
(***************************************************************************)
EXTENDS Attachments, TLC

CONSTANTS a1, a2, w1, w2

OneAttachment == {a1}
TwoAttachments == {a1, a2}
OneWorker == {w1}
TwoWorkers == {w1, w2}

NoFaults == {}
AllFaults == {"storage", "push", "push_reply", "unlink", "materialize", "commit_reply",
              "worker", "api"}
\* no reply is lost: a command that raised has had no effect
AnsweredFaults == AllFaults \ {"push_reply", "commit_reply"}

WorkerSymmetry == Permutations(Workers)
=============================================================================
