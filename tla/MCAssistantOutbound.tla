------------------------ MODULE MCAssistantOutbound ------------------------
(* Instances of AssistantOutbound for TLC.                                 *)
EXTENDS AssistantOutbound, TLC

CONSTANTS d1, d2, gmailKey

\* One draft by Gmail and one by phone, to one person, under one idempotency key.
TwoChannels == d1 :> "gmail" @@ d2 :> "phone_call"
SamePerson == [d \in Drafts |-> "alice"]
OneKey == [d \in Drafts |-> gmailKey]

OutboundSymmetry == Permutations(Calls) \cup Permutations(Tokens)

=============================================================================
