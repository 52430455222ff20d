--------------------------- MODULE MCAssistantGmail ---------------------------
(***************************************************************************)
(* Instances of AssistantGmail for TLC.                                    *)
(***************************************************************************)
EXTENDS AssistantGmail

CONSTANTS h1, sync, m1
=============================================================================
