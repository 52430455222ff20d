----------------------- MODULE AssistantOutboundProofs -----------------------
(***************************************************************************)
(* Proofs about AssistantOutbound: its types, that a draft leaves for a    *)
(* provider at most once, that outcomes are final, that an answered edit   *)
(* is respected, and that a failure stored for a Gmail draft is real.      *)
(*                                                                         *)
(* AtMostOneSend is not inductive.  SendInv adds what keeps the provider   *)
(* call exclusive without a lock around it: an attempt owns its draft      *)
(* ("sending" until the attempt ends, AttemptInv), a draft that has a      *)
(* request never becomes claimable again (RequestInv), and the two ways a  *)
(* draft leaves "sending" without its attempt, a receipt and the restart,  *)
(* only lead to outcomes (ReceiptInv).                                     *)
(*                                                                         *)
(* StatusMoves lists what any step may do to a draft; OutcomeIsFinal reads *)
(* off it.  AnsweredEditIsRespected needs AnsweredInv: revisions only grow *)
(* past the ones an edit has answered for, and a token that a confirmation *)
(* has already validated is either no longer valid or not older than them. *)
(* GmailFailureIsReal needs GmailInv: a thread awaits the answer to its    *)
(* own request, so the failure it goes to store is that request's.         *)
(***************************************************************************)
EXTENDS AssistantOutbound, TLAPS

\* What the sets of statuses contain, and what no outcome is.
LEMMA StatusFacts ==
  /\ Outcomes \subseteq Statuses /\ ReceiptStatuses \subseteq Outcomes
  /\ "absent" \in Statuses /\ "draft" \in Statuses /\ "blocked" \in Statuses
  /\ "cancelled" \in Statuses /\ "sending" \in Statuses
  /\ "sent" \in Outcomes /\ "call_queued" \in Outcomes
  /\ "delivery_unknown" \in Outcomes /\ "failed" \in Outcomes
  /\ "absent" \notin Outcomes /\ "draft" \notin Outcomes /\ "blocked" \notin Outcomes
  /\ "cancelled" \notin Outcomes /\ "sending" \notin Outcomes
  BY DEF Statuses, Outcomes, ReceiptStatuses

\* A thread that has returned carries what an idle thread carries.
LEMMA IdleFits == Idle \in Call /\ CallFits(Idle)
  BY StatusFacts DEF Idle, Call, CallFits, ProgramPoints, AttemptPoints

\* A step that gives one thread a well-formed call keeps all calls well formed.
LEMMA CallSet ==
  ASSUME NEW c \in Calls, NEW k \in Call, CallFits(k),
         calls \in [Calls -> Call], CallOK, calls' = [calls EXCEPT ![c] = k]
  PROVE  calls' \in [Calls -> Call] /\ CallOK'
  BY DEF CallOK

\* Writing one row of the drafts keeps the type of the table.
LEMMA DraftSet ==
  ASSUME NEW d \in Drafts, NEW row \in DraftRow, drafts \in [Drafts -> DraftRow],
         drafts' = [drafts EXCEPT ![d] = row]
  PROVE  drafts' \in [Drafts -> DraftRow]
  OBVIOUS

\* Storing a result keeps the type of the outbound messages.
LEMMA MessageSet ==
  ASSUME NEW d \in Drafts, NEW s \in Statuses, NEW S,
         messages \in [Drafts -> MessageRow], RecordMessage(d, s, s \in S)
  PROVE  messages' \in [Drafts -> MessageRow]
<1>1. (s \in S) \in BOOLEAN
  OBVIOUS
<1>2. [status |-> s, id |-> s \in S] \in MessageRow
  BY <1>1, Zenon DEF MessageRow
<1> QED
  BY <1>2 DEF RecordMessage

\* A transition of a draft keeps the type of the table.
LEMMA TransitionTyped ==
  ASSUME TypeInv, NEW c \in Calls, calls[c].pc # "idle", calls[c].to \in Statuses,
         Transition(calls[c])
  PROVE  drafts' \in [Drafts -> DraftRow]
<1>1. calls[c] \in Call /\ calls[c].draft \in Drafts
  BY DEF TypeInv, TypeOK, CallOK, CallFits
<1> DEFINE d == calls[c].draft
           row == [drafts[d] EXCEPT !.status = calls[c].to, !.revision = calls[c].revision + 1,
                                    !.content = calls[c].content]
<1>2. drafts[d] \in DraftRow
  BY <1>1 DEF TypeInv, TypeOK
<1>a. calls[c].revision + 1 \in Nat /\ calls[c].content \in Contents \cup {NoContent}
  BY <1>1 DEF Call
<1>3. row \in DraftRow
  BY <1>2, <1>a DEF DraftRow
<1>4. drafts' = [drafts EXCEPT ![d] = row]
  BY DEF Transition
<1> QED
  BY <1>1, <1>3, <1>4, DraftSet DEF TypeInv, TypeOK

\* A transition gives its draft the status and the next revision of the call,
\* and leaves every other draft alone.
LEMMA TransitionEffect ==
  ASSUME TypeInv, NEW c \in Calls, calls[c].pc # "idle", Transition(calls[c])
  PROVE  /\ drafts'[calls[c].draft].status = calls[c].to
         /\ drafts'[calls[c].draft].revision = calls[c].revision + 1
         /\ \A e \in Drafts \ {calls[c].draft} : drafts'[e] = drafts[e]
<1>1. calls[c].draft \in Drafts
  BY DEF TypeInv, CallOK, CallFits
<1>2. drafts[calls[c].draft] \in DraftRow
  BY <1>1 DEF TypeInv, TypeOK
<1> QED
  BY <1>1, <1>2 DEF TypeInv, TypeOK, DraftRow, Transition

\* Every step keeps the types and what each thread and token carries.
LEMMA TypeStep ==
  TypeInv /\ [Next]_vars => TypeInv'
<1> SUFFICES ASSUME TypeInv, [Next]_vars
             PROVE  TypeInv'
  OBVIOUS
<1> USE OutboundAssumption
<1>1. ASSUME NEW c \in Calls, NEW d \in Drafts, NEW x \in Contents, PrepareReads(c, d, x)
       PROVE  TypeInv'
  <2> DEFINE k == [Idle EXCEPT !.pc = "prepare", !.draft = d, !.content = x,
                               !.to = PolicyStatus(d, x)]
  <2>1. calls' = [calls EXCEPT ![c] = k]
    BY <1>1 DEF PrepareReads, TypeInv, TypeOK, Call, Begin
  <2>2. PolicyStatus(d, x) \in {"draft", "blocked"}
    BY <1>1 DEF TypeInv, TypeOK, CallOK, TokenOK, PrepareReads, PolicyStatus
  <2>3. k \in Call /\ CallFits(k)
    BY <2>2, StatusFacts DEF Idle, Call, CallFits, ProgramPoints, AttemptPoints
  <2> HIDE DEF k
  <2>4. calls' \in [Calls -> Call] /\ CallOK'
    BY <2>1, <2>3, CallSet DEF TypeInv, TypeOK
  <2> QED
    BY <1>1, <2>4 DEF TypeInv, TypeOK, TokenOK, PrepareReads, Begin
<1>2. ASSUME NEW c \in Calls, NEW d \in Drafts, NEW x \in Contents, EditReads(c, d, x)
       PROVE  TypeInv'
  <2> DEFINE k == [Idle EXCEPT !.pc = "edit", !.draft = d, !.content = x,
                               !.revision = drafts[d].revision,
                               !.from = drafts[d].status, !.to = PolicyStatus(d, x)]
  <2>1. calls' = [calls EXCEPT ![c] = k]
    BY <1>2 DEF EditReads, TypeInv, TypeOK, Call, Begin
  <2>2. /\ PolicyStatus(d, x) \in {"draft", "blocked"}
       /\ drafts[d].revision \in Nat /\ drafts[d].status \in {"draft", "blocked"}
    BY <1>2
       DEF TypeInv, TypeOK, CallOK, TokenOK, DraftRow, EditReads, PolicyStatus,
           Editable
  <2>3. k \in Call /\ CallFits(k)
    BY <2>2, StatusFacts DEF Idle, Call, CallFits, ProgramPoints, AttemptPoints
  <2> HIDE DEF k
  <2>4. calls' \in [Calls -> Call] /\ CallOK'
    BY <2>1, <2>3, CallSet DEF TypeInv, TypeOK
  <2> QED
    BY <1>2, <2>4 DEF TypeInv, TypeOK, TokenOK, EditReads, Begin
<1>3. ASSUME NEW c \in Calls, NEW d \in Drafts, CancelReads(c, d)
       PROVE  TypeInv'
  <2> DEFINE k == [Idle EXCEPT !.pc = "cancel", !.draft = d,
                               !.content = drafts[d].content,
                               !.revision = drafts[d].revision,
                               !.from = drafts[d].status, !.to = "cancelled"]
  <2>1. calls' = [calls EXCEPT ![c] = k]
    BY <1>3 DEF CancelReads, TypeInv, TypeOK, Call, Begin
  <2>2. /\ drafts[d].revision \in Nat /\ drafts[d].status \in {"draft", "blocked"}
       /\ drafts[d].content \in Contents \cup {NoContent}
    BY <1>3 DEF TypeInv, TypeOK, CallOK, TokenOK, DraftRow, CancelReads, Editable
  <2>3. k \in Call /\ CallFits(k)
    BY <2>2, StatusFacts DEF Idle, Call, CallFits, ProgramPoints, AttemptPoints
  <2> HIDE DEF k
  <2>4. calls' \in [Calls -> Call] /\ CallOK'
    BY <2>1, <2>3, CallSet DEF TypeInv, TypeOK
  <2> QED
    BY <1>3, <2>4 DEF TypeInv, TypeOK, TokenOK, CancelReads, Begin
<1>4. ASSUME NEW c \in Calls, NEW d \in Drafts, IssueReads(c, d)
       PROVE  TypeInv'
  <2> DEFINE k == [Idle EXCEPT !.pc = "issue", !.draft = d,
                               !.content = drafts[d].content,
                               !.revision = drafts[d].revision]
  <2>1. calls' = [calls EXCEPT ![c] = k]
    BY <1>4 DEF IssueReads, TypeInv, TypeOK, Call, Begin
  <2>2. /\ drafts[d].revision \in Nat
       /\ drafts[d].content \in Contents \cup {NoContent}
    BY <1>4 DEF TypeInv, TypeOK, CallOK, TokenOK, DraftRow, IssueReads
  <2>3. k \in Call /\ CallFits(k)
    BY <2>2, StatusFacts DEF Idle, Call, CallFits, ProgramPoints, AttemptPoints
  <2> HIDE DEF k
  <2>4. calls' \in [Calls -> Call] /\ CallOK'
    BY <2>1, <2>3, CallSet DEF TypeInv, TypeOK
  <2> QED
    BY <1>4, <2>4 DEF TypeInv, TypeOK, TokenOK, IssueReads, Begin
<1>5. ASSUME NEW c \in Calls, NEW t \in Tokens, IssueSaves(c, t)
       PROVE  TypeInv'
  <2> DEFINE k == Idle
  <2>1. calls' = [calls EXCEPT ![c] = k]
    BY <1>5 DEF IssueSaves, TypeInv, TypeOK, Call, Return
  <2>2. calls' \in [Calls -> Call] /\ CallOK'
    BY <2>1, IdleFits, CallSet DEF TypeInv, TypeOK
  <2>3. calls[c] \in Call /\ CallFits(calls[c]) /\ calls[c].pc = "issue"
    BY <1>5 DEF TypeInv, TypeOK, CallOK, IssueSaves
  <2>4. tokens' \in [Tokens -> TokenRow] /\ TokenOK'
    BY <1>5, <2>3 DEF TypeInv, TypeOK, TokenOK, TokenRow, IssueSaves, Call, CallFits
  <2> QED
    BY <1>5, <2>2, <2>4 DEF TypeInv, TypeOK, TokenOK, IssueSaves
<1>6. ASSUME NEW c \in Calls, NEW t \in Tokens, ConfirmValidates(c, t)
       PROVE  TypeInv'
  <2> DEFINE k == [Idle EXCEPT !.pc = "confirm", !.draft = tokens[t].draft,
                               !.token = t]
  <2>1. calls' = [calls EXCEPT ![c] = k]
    BY <1>6 DEF ConfirmValidates, TypeInv, TypeOK, Call, Begin
  <2>2. tokens[t].draft \in Drafts
    BY <1>6 DEF TypeInv, TypeOK, CallOK, TokenOK, ConfirmValidates
  <2>3. k \in Call /\ CallFits(k)
    BY <2>2, StatusFacts DEF Idle, Call, CallFits, ProgramPoints, AttemptPoints
  <2> HIDE DEF k
  <2>4. calls' \in [Calls -> Call] /\ CallOK'
    BY <2>1, <2>3, CallSet DEF TypeInv, TypeOK
  <2> QED
    BY <1>6, <2>4 DEF TypeInv, TypeOK, TokenOK, ConfirmValidates, Begin
<1>7. ASSUME NEW c \in Calls, PrepareSaves(c)
       PROVE  TypeInv'
  <2> DEFINE k == Idle
  <2>1. calls' = [calls EXCEPT ![c] = k]
    BY <1>7 DEF PrepareSaves, TypeInv, TypeOK, Call, Return
  <2>2. calls' \in [Calls -> Call] /\ CallOK'
    BY <2>1, IdleFits, CallSet DEF TypeInv, TypeOK
  <2>3. calls[c] \in Call /\ CallFits(calls[c]) /\ calls[c].pc = "prepare"
    BY <1>7 DEF TypeInv, TypeOK, CallOK, PrepareSaves
  <2>4. drafts' \in [Drafts -> DraftRow]
    <3>1. CASE Transition(calls[c])
      BY <2>3, <3>1, TransitionTyped DEF Call
    <3>2. CASE UNCHANGED drafts
      BY <3>2 DEF TypeInv, TypeOK
    <3> QED
      BY <1>7, <3>1, <3>2 DEF PrepareSaves
  <2> QED
    BY <1>7, <2>2, <2>4 DEF TypeInv, TypeOK, TokenOK, PrepareSaves
<1>8. ASSUME NEW c \in Calls, ChangeSaves(c)
       PROVE  TypeInv'
  <2> DEFINE k == IF Current(calls[c]) THEN [calls[c] EXCEPT !.pc = "invalidate"] ELSE Idle
  <2>1. calls' = [calls EXCEPT ![c] = k]
    BY <1>8 DEF ChangeSaves, TypeInv, TypeOK, Call, Go, Return
  <2>2. calls[c] \in Call /\ CallFits(calls[c]) /\ calls[c].pc \in {"edit", "cancel"}
    BY <1>8 DEF TypeInv, TypeOK, CallOK, TokenOK, ChangeSaves
  <2>3. k \in Call /\ CallFits(k)
    BY <2>2, StatusFacts DEF Idle, Call, CallFits, ProgramPoints, AttemptPoints
  <2> HIDE DEF k
  <2>4. calls' \in [Calls -> Call] /\ CallOK'
    BY <2>1, <2>3, CallSet DEF TypeInv, TypeOK
  <2>5. drafts' \in [Drafts -> DraftRow]
    <3>1. CASE Transition(calls[c])
      BY <2>2, <3>1, TransitionTyped DEF Call
    <3>2. CASE UNCHANGED drafts
      BY <3>2 DEF TypeInv, TypeOK
    <3> QED
      BY <1>8, <3>1, <3>2 DEF ChangeSaves
  <2>6. messages' \in [Drafts -> MessageRow]
    <3>1. CASE RecordMessage(calls[c].draft, "cancelled", FALSE)
      BY <3>1, StatusFacts DEF TypeInv, TypeOK, MessageRow, RecordMessage
    <3>2. CASE UNCHANGED messages
      BY <3>2 DEF TypeInv, TypeOK
    <3> QED
      BY <1>8, <3>1, <3>2 DEF ChangeSaves, RowOfCancelled
  <2> QED
    BY <1>8, <2>4, <2>5, <2>6 DEF TypeInv, TypeOK, TokenOK, ChangeSaves
<1>9. ASSUME NEW c \in Calls, ChangeInvalidates(c)
       PROVE  TypeInv'
  <2> DEFINE k == Idle
  <2>1. calls' = [calls EXCEPT ![c] = k]
    BY <1>9 DEF ChangeInvalidates, TypeInv, TypeOK, Call, Return
  <2>2. calls' \in [Calls -> Call] /\ CallOK'
    BY <2>1, IdleFits, CallSet DEF TypeInv, TypeOK
  <2>3. tokens' \in [Tokens -> TokenRow] /\ TokenOK'
    BY <1>9
       DEF TypeInv, TypeOK, TokenOK, TokenRow, ChangeInvalidates, InvalidateTokens
  <2>4. calls[c] \in Call /\ CallFits(calls[c]) /\ calls[c].pc = "invalidate"
    BY <1>9 DEF TypeInv, TypeOK, CallOK, ChangeInvalidates
  <2>5. calls[c].revision \in Nat /\ calls[c].revision + 1 \in Nat
    BY <2>4 DEF Call
  <2>6. answered' \in [Drafts -> Nat]
    BY <1>9, <2>5 DEF TypeInv, TypeOK, ChangeInvalidates
  <2> QED
    BY <1>9, <2>2, <2>3, <2>6 DEF TypeInv, TypeOK, TokenOK, ChangeInvalidates
<1>10. ASSUME NEW c \in Calls, ConfirmRereads(c)
       PROVE  TypeInv'
  <2> DEFINE k == [calls[c] EXCEPT !.pc = "claim",
                                   !.revision = drafts[calls[c].draft].revision,
                                   !.content = drafts[calls[c].draft].content,
                                   !.from = "draft", !.to = "sending",
                                   !.expired = tokens[calls[c].token].expired]
  <2>1. calls' = [calls EXCEPT ![c] = k]
    BY <1>10 DEF ConfirmRereads, TypeInv, TypeOK, Call
  <2>2. /\ calls[c] \in Call /\ CallFits(calls[c]) /\ calls[c].pc = "confirm"
       /\ drafts[calls[c].draft] \in DraftRow /\ tokens[calls[c].token] \in TokenRow
    BY <1>10 DEF TypeInv, TypeOK, CallOK, TokenOK, CallFits, ConfirmRereads
  <2>3. k \in Call /\ CallFits(k)
    BY <2>2, StatusFacts
       DEF Call, CallFits, ProgramPoints, AttemptPoints, DraftRow, TokenRow
  <2> HIDE DEF k
  <2>4. calls' \in [Calls -> Call] /\ CallOK'
    BY <2>1, <2>3, CallSet DEF TypeInv, TypeOK
  <2> QED
    BY <1>10, <2>4 DEF TypeInv, TypeOK, TokenOK, ConfirmRereads
<1>11. ASSUME NEW c \in Calls, ConfirmClaims(c)
       PROVE  TypeInv'
  <2> DEFINE k == IF Claimable(calls[c])
              THEN [calls[c] EXCEPT !.pc = "provider", !.revision = calls[c].revision + 1,
                                    !.from = "sending"]
              ELSE Idle
  <2>1. calls' = [calls EXCEPT ![c] = k]
    BY <1>11 DEF ConfirmClaims, TypeInv, TypeOK, Call, Return
  <2>2. calls[c] \in Call /\ CallFits(calls[c]) /\ calls[c].pc = "claim"
    BY <1>11 DEF TypeInv, TypeOK, CallOK, TokenOK, ConfirmClaims
  <2>3. k \in Call /\ CallFits(k)
    <3>1. CASE Claimable(calls[c])
      <4>1. calls[c].revision + 1 \in Nat
        BY <2>2 DEF Call
      <4>2. k = [calls[c] EXCEPT !.pc = "provider", !.revision = calls[c].revision + 1,
                                 !.from = "sending"]
        BY <3>1
      <4> HIDE DEF k
      <4> QED
        BY <2>2, <4>1, <4>2, StatusFacts
           DEF Idle, Call, CallFits, ProgramPoints, AttemptPoints
    <3>2. CASE ~Claimable(calls[c])
      BY <3>2, IdleFits
    <3> QED
      BY <3>1, <3>2
  <2> HIDE DEF k
  <2>4. calls' \in [Calls -> Call] /\ CallOK'
    BY <2>1, <2>3, CallSet DEF TypeInv, TypeOK
  <2>5. /\ calls[c].revision + 1 \in Nat /\ calls[c].draft \in Drafts
       /\ calls[c].content \in Contents \cup {NoContent}
    BY <2>2 DEF Call, CallFits
  <2>6. [status |-> "sending", revision |-> calls[c].revision + 1,
         content |-> calls[c].content, leased |-> TRUE] \in DraftRow
    BY <2>5, StatusFacts DEF DraftRow
  <2>7. drafts' \in [Drafts -> DraftRow]
    BY <1>11, <2>5, <2>6, DraftSet DEF TypeInv, TypeOK, ConfirmClaims
  <2>8. messages' \in [Drafts -> MessageRow]
    <3>1. messages' = messages \/ messages' = [messages EXCEPT ![calls[c].draft].status = "sending"]
      BY <1>11 DEF ConfirmClaims
    <3>2. messages \in [Drafts -> MessageRow] /\ "sending" \in Statuses
      BY StatusFacts DEF TypeInv, TypeOK
    <3>3. [messages[calls[c].draft] EXCEPT !.status = "sending"] \in MessageRow
      BY <2>5, <3>2 DEF MessageRow
    <3> QED
      BY <2>5, <3>1, <3>2, <3>3
  <2>9. tokens' \in [Tokens -> TokenRow] /\ TokenOK'
    <3>1. CASE UNCHANGED tokens
      BY <3>1 DEF TypeInv, TypeOK, TokenOK
    <3>2. CASE Claimable(calls[c])
      <4>1. DOMAIN tokens' = Tokens /\ tokens' = [t \in Tokens |-> tokens'[t]]
        BY <1>11, <3>2 DEF ConfirmClaims
      <4>2. ASSUME NEW t \in Tokens
            PROVE  tokens'[t] \in TokenRow /\ (tokens'[t].state # "unissued" => tokens'[t].draft \in Drafts)
        <5>1. tokens[t] \in TokenRow /\ (tokens[t].state # "unissued" => tokens[t].draft \in Drafts)
          BY DEF TypeInv, TypeOK, TokenOK
        <5>2. calls[c].token = t => tokens[t].state = "valid"
          BY <3>2 DEF Claimable
        <5>3. \/ tokens'[t] = tokens[t]
              \/ tokens'[t] = [tokens[t] EXCEPT !.state = "consumed"] /\ tokens[t].state = "valid"
              \/ tokens'[t] = [tokens[t] EXCEPT !.state = "invalidated"] /\ tokens[t].state = "valid"
          BY <1>11, <3>2, <5>2 DEF ConfirmClaims
        <5> QED
          BY <5>1, <5>3 DEF TokenRow
      <4> QED
        BY <4>1, <4>2 DEF TokenOK
    <3> QED
      BY <1>11, <3>1, <3>2 DEF ConfirmClaims
  <2> QED
    BY <1>11, <2>4, <2>7, <2>8, <2>9 DEF TypeInv, TypeOK, TokenOK, ConfirmClaims
<1>12. ASSUME NEW c \in Calls, ProviderUnavailable(c)
       PROVE  TypeInv'
  <2>1. PICK s \in {"blocked", "failed"} : calls' = [calls EXCEPT ![c].pc = "store",
                                                                  ![c].to = s]
    BY <1>12 DEF ProviderUnavailable
  <2> DEFINE k == [calls[c] EXCEPT !.pc = "store", !.to = s]
  <2>2. calls' = [calls EXCEPT ![c] = k]
    BY <2>1 DEF TypeInv, TypeOK, Call
  <2>3. calls[c] \in Call /\ CallFits(calls[c]) /\ calls[c].pc = "provider"
    BY <1>12 DEF TypeInv, TypeOK, CallOK, ProviderUnavailable
  <2>4. k \in Call /\ CallFits(k)
    BY <2>3, StatusFacts DEF Idle, Call, CallFits, ProgramPoints, AttemptPoints
  <2> HIDE DEF k
  <2>5. calls' \in [Calls -> Call] /\ CallOK'
    BY <2>2, <2>4, CallSet DEF TypeInv, TypeOK
  <2> QED
    BY <1>12, <2>5 DEF TypeInv, TypeOK, TokenOK, ProviderUnavailable
<1>13. ASSUME NEW c \in Calls, ProviderCalled(c)
       PROVE  TypeInv'
  <2> DEFINE k == [calls[c] EXCEPT !.pc = "await"]
  <2>1. calls' = [calls EXCEPT ![c] = k]
    BY <1>13 DEF ProviderCalled, TypeInv, TypeOK, Call, Go
  <2>2. calls[c] \in Call /\ CallFits(calls[c]) /\ calls[c].pc = "provider"
    BY <1>13 DEF TypeInv, TypeOK, CallOK, TokenOK, ProviderCalled
  <2>3. k \in Call /\ CallFits(k)
    BY <2>2, StatusFacts DEF Idle, Call, CallFits, ProgramPoints, AttemptPoints
  <2> HIDE DEF k
  <2>4. calls' \in [Calls -> Call] /\ CallOK'
    BY <2>1, <2>3, CallSet DEF TypeInv, TypeOK
  <2>5. wire' \subseteq Request
    BY <1>13, <2>2
       DEF TypeInv, TypeOK, Call, CallFits, AttemptPoints, Request, RequestOf,
           ProviderCalled
  <2> QED
    BY <1>13, <2>4, <2>5 DEF TypeInv, TypeOK, TokenOK, ProviderCalled
<1>14. ASSUME NEW c \in Calls, ProviderAnswers(c)
       PROVE  TypeInv'
  <2> DEFINE k == [calls[c] EXCEPT !.pc = "store", !.to = AnswerOf(c)]
  <2>1. calls' = [calls EXCEPT ![c] = k]
    BY <1>14 DEF ProviderAnswers, TypeInv, TypeOK, Call
  <2>2. /\ calls[c] \in Call /\ CallFits(calls[c]) /\ calls[c].pc = "await"
       /\ AnswerOf(c) \in {"failed", "call_queued", "sent"}
    BY <1>14 DEF TypeInv, TypeOK, CallOK, TokenOK, ProviderAnswers, AnswerOf
  <2>3. k \in Call /\ CallFits(k)
    BY <2>2, StatusFacts DEF Idle, Call, CallFits, ProgramPoints, AttemptPoints
  <2> HIDE DEF k
  <2>4. calls' \in [Calls -> Call] /\ CallOK'
    BY <2>1, <2>3, CallSet DEF TypeInv, TypeOK
  <2> QED
    BY <1>14, <2>4 DEF TypeInv, TypeOK, TokenOK, ProviderAnswers
<1>15. ASSUME NEW c \in Calls, AnswerLost(c)
       PROVE  TypeInv'
  <2> DEFINE k == [calls[c] EXCEPT !.pc = "store",
                                   !.to = LostAnswerIs(calls[c].draft)]
  <2>1. calls' = [calls EXCEPT ![c] = k]
    BY <1>15 DEF AnswerLost, TypeInv, TypeOK, Call
  <2>2. /\ calls[c] \in Call /\ CallFits(calls[c]) /\ calls[c].pc = "await"
       /\ LostAnswerIs(calls[c].draft) \in {"delivery_unknown", "failed"}
    BY <1>15 DEF TypeInv, TypeOK, CallOK, TokenOK, AnswerLost, LostAnswerIs
  <2>3. k \in Call /\ CallFits(k)
    BY <2>2, StatusFacts DEF Idle, Call, CallFits, ProgramPoints, AttemptPoints
  <2> HIDE DEF k
  <2>4. calls' \in [Calls -> Call] /\ CallOK'
    BY <2>1, <2>3, CallSet DEF TypeInv, TypeOK
  <2> QED
    BY <1>15, <2>4 DEF TypeInv, TypeOK, TokenOK, AnswerLost
<1>16. ASSUME NEW c \in Calls, StoreResult(c)
       PROVE  TypeInv'
  <2> DEFINE k == Idle
  <2>1. calls' = [calls EXCEPT ![c] = k]
    BY <1>16 DEF StoreResult, TypeInv, TypeOK, Call, Return
  <2>2. calls' \in [Calls -> Call] /\ CallOK'
    BY <2>1, IdleFits, CallSet DEF TypeInv, TypeOK
  <2>3. calls[c] \in Call /\ CallFits(calls[c]) /\ calls[c].pc = "store"
    BY <1>16 DEF TypeInv, TypeOK, CallOK, StoreResult
  <2>4. drafts' \in [Drafts -> DraftRow]
    <3>1. CASE Transition(calls[c])
      BY <2>3, <3>1, TransitionTyped DEF Call
    <3>2. CASE UNCHANGED drafts
      BY <3>2 DEF TypeInv, TypeOK
    <3> QED
      BY <1>16, <3>1, <3>2 DEF StoreResult
  <2>5. messages' \in [Drafts -> MessageRow]
    <3>1. CASE RecordMessage(calls[c].draft, calls[c].to, calls[c].to \in {"sent", "call_queued"})
      <4>1. calls[c].draft \in Drafts /\ calls[c].to \in Statuses
        BY <2>3 DEF Call, CallFits
      <4> QED
        BY <3>1, <4>1, MessageSet DEF TypeInv, TypeOK
    <3>2. CASE UNCHANGED messages
      BY <3>2 DEF TypeInv, TypeOK
    <3> QED
      BY <1>16, <3>1, <3>2 DEF StoreResult
  <2> QED
    BY <1>16, <2>2, <2>4, <2>5 DEF TypeInv, TypeOK, TokenOK, StoreResult
<1>17. ASSUME NEW c \in Calls, CallFails(c)
       PROVE  TypeInv'
  <2> DEFINE k == Idle
  <2>1. calls' = [calls EXCEPT ![c] = k]
    BY <1>17 DEF CallFails, TypeInv, TypeOK, Call, Return
  <2>2. calls' \in [Calls -> Call] /\ CallOK'
    BY <2>1, IdleFits, CallSet DEF TypeInv, TypeOK
  <2> QED
    BY <1>17, <2>2 DEF TypeInv, TypeOK, TokenOK, CallFails
<1>18. ASSUME NEW t \in Tokens, TokenExpires(t)
       PROVE  TypeInv'
  <2>1. tokens' \in [Tokens -> TokenRow] /\ TokenOK'
    BY <1>18 DEF TypeInv, TypeOK, TokenOK, TokenRow, TokenExpires
  <2> QED
    BY <1>18, <2>1 DEF TypeInv, TypeOK, CallOK, TokenOK, TokenExpires
<1>19. ASSUME NEW r \in wire, ProviderDecides(r)
       PROVE  TypeInv'
  <2>1. wire' \subseteq Request /\ accepted' \subseteq Request
    BY <1>19 DEF TypeInv, TypeOK, ProviderDecides
  <2> QED
    BY <1>19, <2>1 DEF TypeInv, TypeOK, CallOK, TokenOK, ProviderDecides
<1>20. ASSUME NEW d \in Drafts, LeaseExpires(d)
       PROVE  TypeInv'
  <2>1. drafts' \in [Drafts -> DraftRow]
    BY <1>20 DEF TypeInv, TypeOK, DraftRow, LeaseExpires
  <2> QED
    BY <1>20, <2>1 DEF TypeInv, TypeOK, CallOK, TokenOK, LeaseExpires
<1>21. ASSUME NEW d \in Drafts, NEW s \in ReceiptStatuses, Receipt(d, s)
       PROVE  TypeInv'
  <2>1. drafts' \in [Drafts -> DraftRow]
    BY <1>21, StatusFacts DEF TypeInv, TypeOK, DraftRow, Receipt
  <2>2. messages' \in [Drafts -> MessageRow]
    BY <1>21, StatusFacts DEF TypeInv, TypeOK, MessageRow, Receipt
  <2>3. receipts' \in [Drafts -> SUBSET ReceiptStatuses]
    BY <1>21 DEF TypeInv, TypeOK, Receipt
  <2> QED
    BY <1>21, <2>1, <2>2, <2>3 DEF TypeInv, TypeOK, CallOK, TokenOK, Receipt
<1>22. ASSUME Restart
       PROVE  TypeInv'
  <2>1. calls' \in [Calls -> Call] /\ CallOK'
    BY <1>22, IdleFits DEF Restart, CallOK
  <2>2. drafts' \in [Drafts -> DraftRow]
    <3>1. ASSUME NEW d \in Drafts
          PROVE  drafts'[d] \in DraftRow
      <4>1. drafts[d] \in DraftRow
        BY DEF TypeInv, TypeOK
      <4>2. drafts[d].revision + 1 \in Nat
        BY <4>1 DEF DraftRow
      <4>3. \/ drafts'[d] = drafts[d]
            \/ drafts'[d] = [drafts[d] EXCEPT !.status = "delivery_unknown",
                                               !.revision = drafts[d].revision + 1]
        BY <1>22 DEF Restart
      <4> QED
        BY <4>1, <4>2, <4>3, StatusFacts DEF DraftRow
    <3> QED
      BY <1>22, <3>1 DEF Restart
  <2>3. messages' \in [Drafts -> MessageRow]
    BY <1>22, StatusFacts DEF TypeInv, TypeOK, MessageRow, Restart
  <2> QED
    BY <1>22, <2>1, <2>2, <2>3 DEF TypeInv, TypeOK, TokenOK, Restart
<1>23. CASE UNCHANGED vars
    BY <1>23 DEF vars, TypeInv, TypeOK, CallOK, TokenOK
<1> QED
    BY <1>1, <1>2, <1>3, <1>4, <1>5, <1>6, <1>7, <1>8, <1>9, <1>10, <1>11, <1>12,
       <1>13, <1>14, <1>15, <1>16, <1>17, <1>18, <1>19, <1>20, <1>21, <1>22, <1>23
       DEF Next

-----------------------------------------------------------------------------
(* The sends.                                                              *)

\* The calls that the invariant of the sends speaks of.
Engaged(c) == calls[c].pc = "prepare" \/ Attempting(c)

\* What almost every step does to the status of a draft.
DraftKept(e) ==
  LET old == drafts[e].status
      new == drafts'[e].status
  IN  \/ new = old
      \/ old \in {"draft", "blocked"} /\ new \in {"draft", "blocked", "cancelled"}
      \/ old \in Outcomes /\ new \in Outcomes
      \/ /\ old = "absent" /\ new \in {"draft", "blocked"}
         /\ \A o \in Calls : calls'[o].pc = "prepare" => calls'[o].draft # e
      \/ /\ old = "sending" /\ new \in {"blocked"} \cup Outcomes
         /\ new = "blocked" => \A r \in Requests : r.draft # e
         /\ \A o \in Calls : Attempting(o)' => calls'[o].draft # e

\* What almost every step does to a call: it is left alone, it ends or never
\* was engaged, or it goes on with its attempt.
CallKept(o) ==
  \/ calls'[o] = calls[o]
  \/ ~Engaged(o)'
  \/ /\ Attempting(o) /\ calls'[o].pc \in {"await", "store"}
     /\ calls'[o].draft = calls[o].draft /\ (Unsent(o)' => Unsent(o))

\* A step of that kind that makes no request keeps the invariant of the sends.
LEMMA SendKept ==
  ASSUME TypeInv, TypeInv', SendInv,
         \A e \in Drafts : DraftKept(e),
         \A o \in Calls : CallKept(o),
         Requests' \subseteq Requests,
         \A e \in Drafts : messages'[e].id => messages[e].id \/ drafts'[e].status \in Outcomes
  PROVE  SendInv'
<1>1. \A o \in Calls : Engaged(o)' => /\ Engaged(o) /\ calls'[o].draft = calls[o].draft
                                      /\ calls[o].draft \in Drafts
                                      /\ calls'[o].pc = "prepare" <=> calls[o].pc = "prepare"
                                      /\ Unsent(o)' => Unsent(o)
  BY DEF CallKept, Engaged, Attempting, AttemptPoints, Unsent, TypeInv, CallOK,
     CallFits
<1>2. PrepareInv'
  BY <1>1, StatusFacts DEF SendInv, PrepareInv, Engaged, DraftKept
<1>3. AttemptInv'
  <2> SUFFICES ASSUME NEW c \in Calls, Attempting(c)'
               PROVE  /\ drafts'[calls'[c].draft].status = "sending"
                      /\ \A o \in Calls : Attempting(o)' /\ calls'[o].draft = calls'[c].draft
                                          => o = c
    BY DEF AttemptInv
  <2>1. \A o \in Calls : Attempting(o)' => Attempting(o) /\ calls'[o].draft = calls[o].draft
    BY <1>1 DEF Engaged, Attempting, AttemptPoints
  <2>2. calls[c].draft \in Drafts /\ drafts[calls[c].draft].status = "sending"
    BY <1>1, <2>1 DEF Engaged, SendInv, AttemptInv
  <2>3. drafts'[calls[c].draft].status = "sending"
    BY <2>1, <2>2, StatusFacts DEF DraftKept
  <2> QED
    BY <2>1, <2>3 DEF SendInv, AttemptInv
<1>4. RequestInv'
  <2>1. ASSUME NEW r \in Requests
        PROVE  drafts'[r.draft].status \in {"sending"} \cup Outcomes
    <3>1. r.draft \in Drafts /\ drafts[r.draft].status \in {"sending"} \cup Outcomes
      BY DEF TypeInv, TypeOK, Request, Requests, SendInv, RequestInv
    <3> QED
      BY <3>1, StatusFacts DEF DraftKept
  <2>2. ASSUME NEW c \in Calls, NEW r \in Requests, Unsent(c)'
        PROVE  r.draft # calls'[c].draft
    BY <1>1, <2>2
       DEF SendInv, RequestInv, Unsent, Engaged, Attempting, AttemptPoints
  <2> QED
    BY <2>1, <2>2 DEF RequestInv
<1>5. ReceiptInv'
  BY StatusFacts DEF SendInv, ReceiptInv, DraftKept
<1>6. AtMostOneSend'
  BY DEF SendInv, AtMostOneSend
<1> QED
  BY <1>2, <1>3, <1>4, <1>5, <1>6 DEF SendInv

\* Preparing a draft whose id is new engages the thread with it alone.
LEMMA PrepareReadsSend ==
  ASSUME TypeInv, SendInv, NEW c \in Calls, NEW d \in Drafts, NEW x \in Contents,
         PrepareReads(c, d, x)
  PROVE  SendInv'
<1>1. /\ UNCHANGED <<drafts, messages, wire, accepted>>
      /\ calls'[c].pc = "prepare" /\ calls'[c].draft = d
      /\ \A o \in Calls \ {c} : calls'[o] = calls[o]
  BY DEF PrepareReads, Begin, Idle, TypeInv, TypeOK
<1>2. /\ drafts[d].status = "absent"
      /\ \A o \in Calls : calls[o].pc = "prepare" => calls[o].draft # d
  BY DEF PrepareReads
<1>3. PrepareInv'
  BY <1>1, <1>2 DEF SendInv, PrepareInv
<1>4. AttemptInv'
  BY <1>1 DEF SendInv, AttemptInv, Attempting, AttemptPoints
<1>5. RequestInv'
  BY <1>1 DEF SendInv, RequestInv, Requests, Unsent
<1> QED
  BY <1>1, <1>3, <1>4, <1>5 DEF SendInv, ReceiptInv, AtMostOneSend, Requests

\* The claim makes the thread the only one that attempts the draft.
LEMMA ConfirmClaimsSend ==
  ASSUME TypeInv, SendInv, NEW c \in Calls, ConfirmClaims(c), Claimable(calls[c])
  PROVE  SendInv'
<1> DEFINE d == calls[c].draft
<1>1. calls[c] \in Call /\ d \in Drafts /\ drafts[d].status = "draft"
  BY DEF TypeInv, TypeOK, CallOK, CallFits, ConfirmClaims, Claimable, Current
<1>2. /\ drafts'[d].status = "sending"
      /\ \A e \in Drafts \ {d} : drafts'[e].status = drafts[e].status
  BY <1>1 DEF TypeInv, TypeOK, ConfirmClaims
<1>3. calls' = [calls EXCEPT ![c] = [calls[c] EXCEPT !.pc = "provider",
                               !.revision = calls[c].revision + 1, !.from = "sending"]]
  BY DEF ConfirmClaims
<1>4. /\ calls'[c].pc = "provider" /\ calls'[c].draft = d
      /\ \A o \in Calls \ {c} : calls'[o] = calls[o]
  BY <1>1, <1>3 DEF TypeInv, TypeOK, Call
<1>5. /\ UNCHANGED <<wire, accepted>>
      /\ \A e \in Drafts : messages'[e].id = messages[e].id
  BY <1>1 DEF TypeInv, TypeOK, MessageRow, ConfirmClaims
<1>6. \A o \in Calls : Attempting(o) => calls[o].draft # d
  BY <1>1, StatusFacts DEF SendInv, AttemptInv
<1>7. \A r \in Requests : r.draft # d
  BY <1>1, StatusFacts DEF SendInv, RequestInv
<1>8. PrepareInv'
  BY <1>1, <1>2, <1>4 DEF SendInv, PrepareInv, TypeInv, CallOK, CallFits
<1>9. AttemptInv'
  BY <1>2, <1>4, <1>6
     DEF SendInv, AttemptInv, Attempting, AttemptPoints, TypeInv, CallOK, CallFits
<1>10. RequestInv'
  BY <1>2, <1>4, <1>5, <1>7
     DEF SendInv, RequestInv, Requests, Unsent, TypeInv, TypeOK, Request
<1>11. ReceiptInv'
  BY <1>1, <1>2, <1>5, StatusFacts DEF SendInv, ReceiptInv
<1> QED
  BY <1>5, <1>8, <1>9, <1>10, <1>11 DEF SendInv, AtMostOneSend, Requests

\* The request of an attempt is the first of its draft.
LEMMA ProviderCalledSend ==
  ASSUME TypeInv, SendInv, NEW c \in Calls, ProviderCalled(c)
  PROVE  SendInv'
<1> DEFINE d == calls[c].draft
<1>1. /\ UNCHANGED <<drafts, messages>> /\ Requests' = Requests \cup {RequestOf(c)}
      /\ RequestOf(c).draft = d
  BY DEF ProviderCalled, Requests, RequestOf
<1>2. /\ calls'[c].pc = "await" /\ calls'[c].draft = d
      /\ \A o \in Calls \ {c} : calls'[o] = calls[o]
  BY DEF ProviderCalled, Go, TypeInv, TypeOK, Call
<1>3. Attempting(c) /\ drafts[d].status = "sending" /\ \A r \in Requests : r.draft # d
  BY DEF ProviderCalled, SendInv, AttemptInv, RequestInv, Attempting, AttemptPoints,
     Unsent
<1>4. \A o \in Calls \ {c} : Attempting(o) => calls[o].draft # d
  BY <1>3 DEF SendInv, AttemptInv
<1>5. PrepareInv'
  BY <1>1, <1>2 DEF SendInv, PrepareInv
<1>6. AttemptInv'
  BY <1>1, <1>2, <1>3, <1>4 DEF SendInv, AttemptInv, Attempting
<1>7. RequestInv'
  BY <1>1, <1>2, <1>3, <1>4
     DEF SendInv, RequestInv, Unsent, Attempting, AttemptPoints
<1>8. AtMostOneSend'
  BY <1>1, <1>3 DEF SendInv, AtMostOneSend
<1> QED
  BY <1>1, <1>5, <1>6, <1>7, <1>8 DEF SendInv, ReceiptInv

\* Every step keeps the invariant of the sends.
LEMMA SendStep ==
  TypeInv /\ TypeInv' /\ SendInv /\ [Next]_vars => SendInv'
<1> SUFFICES ASSUME TypeInv, TypeInv', SendInv, [Next]_vars
             PROVE  SendInv'
  OBVIOUS
<1>1. ASSUME NEW c \in Calls, NEW d \in Drafts, NEW x \in Contents, PrepareReads(c, d, x)
      PROVE  SendInv'
  BY <1>1, PrepareReadsSend
<1>2. ASSUME NEW c \in Calls, NEW d \in Drafts, NEW x \in Contents, EditReads(c, d, x)
      PROVE  SendInv'
  <2>1. \A o \in Calls : CallKept(o)
    BY <1>2
       DEF TypeInv, TypeOK, EditReads, Begin, Idle, CallKept, Engaged, Attempting,
           AttemptPoints
  <2> QED
    BY <1>2, <2>1, SendKept DEF DraftKept, Requests, EditReads
<1>3. ASSUME NEW c \in Calls, NEW d \in Drafts, CancelReads(c, d)
      PROVE  SendInv'
  <2>1. \A o \in Calls : CallKept(o)
    BY <1>3
       DEF TypeInv, TypeOK, CancelReads, Begin, Idle, CallKept, Engaged, Attempting,
           AttemptPoints
  <2> QED
    BY <1>3, <2>1, SendKept DEF DraftKept, Requests, CancelReads
<1>4. ASSUME NEW c \in Calls, NEW d \in Drafts, IssueReads(c, d)
      PROVE  SendInv'
  <2>1. \A o \in Calls : CallKept(o)
    BY <1>4
       DEF TypeInv, TypeOK, IssueReads, Begin, Idle, CallKept, Engaged, Attempting,
           AttemptPoints
  <2> QED
    BY <1>4, <2>1, SendKept DEF DraftKept, Requests, IssueReads
<1>5. ASSUME NEW c \in Calls, NEW t \in Tokens, IssueSaves(c, t)
      PROVE  SendInv'
  <2>1. \A o \in Calls : CallKept(o)
    BY <1>5
       DEF TypeInv, TypeOK, IssueSaves, Return, Idle, CallKept, Engaged, Attempting,
           AttemptPoints
  <2> QED
    BY <1>5, <2>1, SendKept DEF DraftKept, Requests, IssueSaves
<1>6. ASSUME NEW c \in Calls, NEW t \in Tokens, ConfirmValidates(c, t)
      PROVE  SendInv'
  <2>1. \A o \in Calls : CallKept(o)
    BY <1>6
       DEF TypeInv, TypeOK, ConfirmValidates, Begin, Idle, CallKept, Engaged,
           Attempting, AttemptPoints
  <2> QED
    BY <1>6, <2>1, SendKept DEF DraftKept, Requests, ConfirmValidates
<1>7. ASSUME NEW c \in Calls, PrepareSaves(c)
      PROVE  SendInv'
  <2>1. /\ calls[c].pc = "prepare" /\ calls[c].draft \in Drafts
        /\ calls[c].to \in {"draft", "blocked"} /\ drafts[calls[c].draft].status = "absent"
    BY <1>7 DEF TypeInv, CallOK, CallFits, SendInv, PrepareInv, PrepareSaves
  <2>2. calls'[c].pc = "idle" /\ \A o \in Calls \ {c} : calls'[o] = calls[o]
    BY <1>7 DEF TypeInv, TypeOK, PrepareSaves, Return, Idle
  <2>3. \A o \in Calls : CallKept(o)
    BY <2>2 DEF CallKept, Engaged, Attempting, AttemptPoints
  <2>4. \A o \in Calls : calls'[o].pc = "prepare" => calls'[o].draft # calls[c].draft
    BY <2>1, <2>2 DEF SendInv, PrepareInv
  <2>5. \A e \in Drafts : DraftKept(e)
    BY <1>7, <2>1, <2>4, TransitionEffect DEF DraftKept, PrepareSaves
  <2> QED
    BY <1>7, <2>3, <2>5, SendKept DEF Requests, PrepareSaves
<1>8. ASSUME NEW c \in Calls, ChangeSaves(c)
      PROVE  SendInv'
  <2>1. /\ calls[c].pc \in {"edit", "cancel"} /\ calls[c].draft \in Drafts
        /\ calls[c].to \in {"draft", "blocked", "cancelled"}
        /\ calls[c].from \in {"draft", "blocked"}
    BY <1>8 DEF TypeInv, CallOK, CallFits, ChangeSaves
  <2>2. \A e \in Drafts : DraftKept(e)
    BY <1>8, <2>1, TransitionEffect DEF DraftKept, ChangeSaves, Current
  <2>3. \A o \in Calls : CallKept(o)
    BY <1>8 DEF TypeInv, TypeOK, Call, ChangeSaves, Go, Return, Idle,
                CallKept, Engaged, Attempting, AttemptPoints
  <2>4. \A e \in Drafts : messages'[e].id => messages[e].id
    BY <1>8
       DEF TypeInv, TypeOK, MessageRow, ChangeSaves, RowOfCancelled, RecordMessage
  <2> QED
    BY <1>8, <2>2, <2>3, <2>4, SendKept DEF Requests, ChangeSaves
<1>9. ASSUME NEW c \in Calls, ChangeInvalidates(c)
      PROVE  SendInv'
  <2>1. \A o \in Calls : CallKept(o)
    BY <1>9
       DEF TypeInv, TypeOK, ChangeInvalidates, Return, Idle, CallKept, Engaged,
           Attempting, AttemptPoints
  <2> QED
    BY <1>9, <2>1, SendKept DEF DraftKept, Requests, ChangeInvalidates
<1>10. ASSUME NEW c \in Calls, ConfirmRereads(c)
      PROVE  SendInv'
  <2>1. \A o \in Calls : CallKept(o)
    BY <1>10
       DEF TypeInv, TypeOK, ConfirmRereads, Call, CallKept, Engaged, Attempting,
           AttemptPoints
  <2> QED
    BY <1>10, <2>1, SendKept DEF DraftKept, Requests, ConfirmRereads
<1>11. ASSUME NEW c \in Calls, ConfirmClaims(c)
      PROVE  SendInv'
  <2>1. CASE Claimable(calls[c])
    BY <1>11, <2>1, ConfirmClaimsSend
  <2>2. CASE ~Claimable(calls[c])
    <3>1. UNCHANGED <<drafts, messages, wire, accepted>> /\ Return(c)
      BY <1>11, <2>2 DEF ConfirmClaims
    <3>2. \A o \in Calls : CallKept(o)
      BY <3>1
         DEF Return, Idle, TypeInv, TypeOK, CallKept, Engaged, Attempting,
             AttemptPoints
    <3> QED
      BY <3>1, <3>2, SendKept DEF DraftKept, Requests
  <2> QED
    BY <2>1, <2>2
<1>12. ASSUME NEW c \in Calls, ProviderUnavailable(c)
      PROVE  SendInv'
  <2>1. \A o \in Calls : CallKept(o)
    BY <1>12 DEF TypeInv, TypeOK, Call, ProviderUnavailable,
                CallKept, Attempting, AttemptPoints, Unsent
  <2> QED
    BY <1>12, <2>1, SendKept DEF DraftKept, Requests, ProviderUnavailable
<1>13. ASSUME NEW c \in Calls, ProviderCalled(c)
      PROVE  SendInv'
  BY <1>13, ProviderCalledSend
<1>14. ASSUME NEW c \in Calls, ProviderAnswers(c)
      PROVE  SendInv'
  <2>1. AnswerOf(c) # "blocked"
    BY DEF AnswerOf
  <2>2. \A o \in Calls : CallKept(o)
    BY <1>14, <2>1 DEF TypeInv, TypeOK, Call, ProviderAnswers,
                      CallKept, Attempting, AttemptPoints, Unsent
  <2> QED
    BY <1>14, <2>2, SendKept DEF DraftKept, Requests, ProviderAnswers
<1>15. ASSUME NEW c \in Calls, AnswerLost(c)
      PROVE  SendInv'
  <2>1. LostAnswerIs(calls[c].draft) # "blocked"
    BY DEF LostAnswerIs
  <2>2. \A o \in Calls : CallKept(o)
    BY <1>15, <2>1 DEF TypeInv, TypeOK, Call, AnswerLost,
                      CallKept, Attempting, AttemptPoints, Unsent
  <2> QED
    BY <1>15, <2>2, SendKept DEF DraftKept, Requests, AnswerLost
<1>16. ASSUME NEW c \in Calls, StoreResult(c)
      PROVE  SendInv'
  <2>1. /\ Attempting(c) /\ calls[c].pc = "store" /\ calls[c].draft \in Drafts
        /\ calls[c].to \in {"blocked"} \cup Outcomes
    BY <1>16 DEF TypeInv, CallOK, CallFits, StoreResult, Attempting, AttemptPoints
  <2>2. drafts[calls[c].draft].status = "sending"
    BY <2>1 DEF SendInv, AttemptInv
  <2>3. calls'[c].pc = "idle" /\ \A o \in Calls \ {c} : calls'[o] = calls[o]
    BY <1>16 DEF TypeInv, TypeOK, StoreResult, Return, Idle
  <2>4. \A o \in Calls : CallKept(o)
    BY <2>3 DEF CallKept, Engaged, Attempting, AttemptPoints
  <2>5. \A o \in Calls : Attempting(o)' => calls'[o].draft # calls[c].draft
    BY <2>1, <2>3 DEF SendInv, AttemptInv, Attempting, AttemptPoints
  <2>6. calls[c].to = "blocked" => \A r \in Requests : r.draft # calls[c].draft
    BY <2>1 DEF SendInv, RequestInv, Unsent
  <2>7. \A e \in Drafts : DraftKept(e)
    BY <1>16, <2>1, <2>2, <2>5, <2>6, TransitionEffect DEF DraftKept, StoreResult
  <2>8. \A e \in Drafts : messages'[e].id => messages[e].id \/ drafts'[e].status \in Outcomes
    <3>1. CASE UNCHANGED messages
      BY <3>1
    <3>2. CASE /\ Transition(calls[c])
               /\ RecordMessage(calls[c].draft, calls[c].to, calls[c].to \in {"sent", "call_queued"})
      <4>1. drafts'[calls[c].draft].status = calls[c].to
        BY <2>1, <3>2, TransitionEffect
      <4>2. ASSUME NEW e \in Drafts, e # calls[c].draft
            PROVE  messages'[e] = messages[e]
        BY <3>2, <4>2 DEF TypeInv, TypeOK, RecordMessage
      <4>3. messages'[calls[c].draft].id = (calls[c].to \in {"sent", "call_queued"})
        BY <2>1, <3>2, Zenon DEF TypeInv, TypeOK, RecordMessage
      <4> QED
        BY <4>1, <4>2, <4>3, StatusFacts
    <3> QED
      BY <1>16, <3>1, <3>2 DEF StoreResult
  <2> QED
    BY <1>16, <2>4, <2>7, <2>8, SendKept DEF Requests, StoreResult
<1>17. ASSUME NEW c \in Calls, CallFails(c)
      PROVE  SendInv'
  <2>1. \A o \in Calls : CallKept(o)
    BY <1>17
       DEF TypeInv, TypeOK, CallFails, Return, Idle, CallKept, Engaged, Attempting,
           AttemptPoints
  <2> QED
    BY <1>17, <2>1, SendKept DEF DraftKept, Requests, CallFails
<1>18. ASSUME NEW t \in Tokens, TokenExpires(t)
      PROVE  SendInv'
  BY <1>18, SendKept DEF DraftKept, CallKept, Requests, TokenExpires
<1>19. ASSUME NEW r \in wire, ProviderDecides(r)
      PROVE  SendInv'
  BY <1>19, SendKept DEF DraftKept, CallKept, Requests, ProviderDecides
<1>20. ASSUME NEW d \in Drafts, LeaseExpires(d)
      PROVE  SendInv'
  <2>1. \A e \in Drafts : DraftKept(e)
    BY <1>20 DEF TypeInv, TypeOK, DraftRow, DraftKept, LeaseExpires
  <2> QED
    BY <1>20, <2>1, SendKept DEF CallKept, Requests, LeaseExpires
<1>21. ASSUME NEW d \in Drafts, NEW s \in ReceiptStatuses, Receipt(d, s)
      PROVE  SendInv'
  <2>1. drafts[d].status \in Outcomes
    BY <1>21 DEF SendInv, ReceiptInv, Receipt
  <2>2. \A e \in Drafts : DraftKept(e)
    BY <1>21, <2>1, StatusFacts DEF TypeInv, TypeOK, DraftRow, DraftKept, Receipt
  <2>3. \A e \in Drafts : messages'[e].id => messages[e].id
    BY <1>21 DEF TypeInv, TypeOK, MessageRow, Receipt
  <2> QED
    BY <1>21, <2>2, <2>3, SendKept DEF CallKept, Requests, Receipt
<1>22. ASSUME Restart
      PROVE  SendInv'
  <2>1. \A o \in Calls : calls'[o].pc = "idle"
    BY <1>22 DEF Restart, Idle
  <2>2. ASSUME NEW e \in Drafts
        PROVE  /\ DraftKept(e)
               /\ messages'[e].id => messages[e].id
    <3>1. CASE Stale(e)
      <4>1. /\ drafts'[e] = [drafts[e] EXCEPT !.status = "delivery_unknown",
                                              !.revision = drafts[e].revision + 1]
            /\ messages'[e] = [status |-> "delivery_unknown", id |-> FALSE]
        BY <1>22, <3>1 DEF Restart
      <4>2. drafts[e].status = "sending" /\ drafts'[e].status = "delivery_unknown"
        BY <3>1, <4>1 DEF Stale, TypeInv, TypeOK, DraftRow
      <4> QED
        BY <2>1, <4>1, <4>2, StatusFacts DEF DraftKept, Attempting, AttemptPoints
    <3>2. CASE ~Stale(e)
      BY <1>22, <3>2 DEF Restart, DraftKept
    <3> QED
      BY <3>1, <3>2
  <2>3. \A o \in Calls : CallKept(o)
    BY <2>1 DEF CallKept, Engaged, Attempting, AttemptPoints
  <2> QED
    BY <1>22, <2>2, <2>3, SendKept DEF Requests, Restart
<1>23. CASE UNCHANGED vars
  BY <1>23, SendKept DEF vars, DraftKept, CallKept, Requests
<1> QED
  BY <1>1, <1>2, <1>3, <1>4, <1>5, <1>6, <1>7, <1>8, <1>9, <1>10, <1>11, <1>12,
     <1>13, <1>14, <1>15, <1>16, <1>17, <1>18, <1>19, <1>20, <1>21, <1>22, <1>23
     DEF Next

-----------------------------------------------------------------------------
(* The theorems.                                                           *)

\* The types, and what each thread and token carries, hold initially.
LEMMA TypeInit ==
  Init => TypeInv
<1> SUFFICES ASSUME Init PROVE TypeInv
  OBVIOUS
<1>1. TypeOK
  BY StatusFacts, IdleFits, OutboundAssumption
     DEF Init, TypeOK, DraftRow, MessageRow, TokenRow
<1>2. CallOK /\ TokenOK
  BY IdleFits DEF Init, CallOK, TokenOK
<1> QED
  BY <1>1, <1>2 DEF TypeInv

\* The invariant of the sends holds before anything was sent.
LEMMA SendInit ==
  Init => SendInv
  BY DEF Init, SendInv, PrepareInv, AttemptInv, RequestInv, ReceiptInv,
         AtMostOneSend, Attempting, AttemptPoints, Unsent, Idle, Requests

\* Every reachable state is well typed, with what a thread carries fitting the
\* point its handler has reached and every token naming a draft.
THEOREM TypeInvariant == Spec => []TypeInv
<1>1. TypeInv /\ [Next]_vars => TypeInv'
  BY TypeStep
<1> QED
  BY TypeInit, <1>1, PTL DEF Spec

\* Every variable keeps its type in every reachable state.
THEOREM TypeCorrect == Spec => []TypeOK
<1>1. TypeInv => TypeOK
  BY DEF TypeInv
<1> QED
  BY TypeInvariant, <1>1, PTL

\* The inductive invariant of the sends holds in every reachable state.
THEOREM SendInvariant == Spec => []SendInv
<1>1. TypeInv /\ TypeInv' /\ SendInv /\ [Next]_vars => SendInv'
  BY SendStep
<1> QED
  BY SendInit, TypeInvariant, <1>1, PTL DEF Spec

\* However many calls, tokens, receipts, failures and restarts there are, at
\* most one request of a draft ever leaves for its provider.
THEOREM AtMostOnce == Spec => []AtMostOneSend
<1>1. SendInv => AtMostOneSend
  BY DEF SendInv
<1> QED
  BY SendInvariant, <1>1, PTL

\* A draft its owner cancelled was not sent and never will be.
THEOREM CancelledNotSent == Spec => []CancelledIsNotSent
<1>1. SendInv => CancelledIsNotSent
  BY StatusFacts DEF SendInv, RequestInv, CancelledIsNotSent
<1> QED
  BY SendInvariant, <1>1, PTL

-----------------------------------------------------------------------------
(* Final outcomes, answered edits, real failures.                          *)


\* What a step may do to the status and the revision of a draft.
StatusMove(e) ==
  LET old == drafts[e].status
      new == drafts'[e].status
  IN  \/ new = old /\ drafts'[e].revision = drafts[e].revision
      \/ /\ drafts'[e].revision > drafts[e].revision
         /\ \/ old = "absent" /\ new \in {"draft", "blocked"}
            \/ old \in {"draft", "blocked"} /\ new \in {"draft", "blocked", "cancelled"}
            \/ /\ old = "draft" /\ new = "sending"
               /\ \E c \in Calls : calls[c].draft = e /\ Claimable(calls[c]) /\ ConfirmClaims(c)
            \/ old = "sending" /\ new \in {"blocked"} \cup Outcomes
      \/ /\ drafts'[e].revision = drafts[e].revision
         /\ old \in Outcomes /\ new \in Outcomes

\* Every step changes the status and the revision of a draft in one of the
\* ways the handlers allow.
LEMMA StatusMoves ==
  ASSUME TypeInv, SendInv, AnsweredInv, [Next]_vars
  PROVE  \A e \in Drafts : StatusMove(e)
<1> SUFFICES ASSUME NEW e \in Drafts
             PROVE  StatusMove(e)
  OBVIOUS
<1>0. drafts[e] \in DraftRow
  BY DEF TypeInv, TypeOK
<1>1. ASSUME NEW c \in Calls, NEW d \in Drafts, NEW x \in Contents, PrepareReads(c, d, x)
       PROVE  StatusMove(e)
  BY <1>1 DEF StatusMove, PrepareReads
<1>2. ASSUME NEW c \in Calls, NEW d \in Drafts, NEW x \in Contents, EditReads(c, d, x)
       PROVE  StatusMove(e)
  BY <1>2 DEF StatusMove, EditReads
<1>3. ASSUME NEW c \in Calls, NEW d \in Drafts, CancelReads(c, d)
       PROVE  StatusMove(e)
  BY <1>3 DEF StatusMove, CancelReads
<1>4. ASSUME NEW c \in Calls, NEW d \in Drafts, IssueReads(c, d)
       PROVE  StatusMove(e)
  BY <1>4 DEF StatusMove, IssueReads
<1>5. ASSUME NEW c \in Calls, NEW t \in Tokens, IssueSaves(c, t)
       PROVE  StatusMove(e)
  BY <1>5 DEF StatusMove, IssueSaves
<1>6. ASSUME NEW c \in Calls, NEW t \in Tokens, ConfirmValidates(c, t)
       PROVE  StatusMove(e)
  BY <1>6 DEF StatusMove, ConfirmValidates
<1>7. ASSUME NEW c \in Calls, PrepareSaves(c)
       PROVE  StatusMove(e)
  <2>1. /\ calls[c] \in Call /\ calls[c].pc = "prepare" /\ calls[c].to \in {"draft", "blocked"}
        /\ drafts[calls[c].draft].status = "absent"
    BY <1>7 DEF TypeInv, TypeOK, CallOK, CallFits, SendInv, PrepareInv, PrepareSaves
  <2>2. CASE UNCHANGED drafts
    BY <2>2 DEF StatusMove
  <2>3. CASE Transition(calls[c]) /\ e # calls[c].draft
    BY <2>1, <2>3, TransitionEffect DEF StatusMove
  <2>4. CASE Transition(calls[c]) /\ e = calls[c].draft
    <3>1. drafts[e].revision = 0 /\ calls[c].revision + 1 > 0
      BY <2>1, <2>4 DEF AnsweredInv, Call
    <3> QED
      BY <2>1, <2>4, <3>1, TransitionEffect DEF StatusMove
  <2> QED
    BY <1>7, <2>2, <2>3, <2>4 DEF PrepareSaves
<1>8. ASSUME NEW c \in Calls, ChangeSaves(c)
       PROVE  StatusMove(e)
  <2>1. /\ calls[c] \in Call /\ calls[c].pc \in {"edit", "cancel"}
        /\ calls[c].to \in {"draft", "blocked", "cancelled"} /\ calls[c].from \in {"draft", "blocked"}
    BY <1>8 DEF TypeInv, TypeOK, CallOK, CallFits, ChangeSaves
  <2>2. CASE UNCHANGED drafts
    BY <2>2 DEF StatusMove
  <2>3. CASE Transition(calls[c]) /\ e # calls[c].draft
    BY <2>1, <2>3, TransitionEffect DEF StatusMove
  <2>4. CASE Current(calls[c]) /\ Transition(calls[c]) /\ e = calls[c].draft
    <3>1. /\ drafts[e].status \in {"draft", "blocked"} /\ calls[c].revision = drafts[e].revision
          /\ calls[c].revision + 1 > calls[c].revision
      BY <2>1, <2>4 DEF Current, Call
    <3> QED
      BY <2>1, <2>4, <3>1, TransitionEffect DEF StatusMove
  <2> QED
    BY <1>8, <2>2, <2>3, <2>4 DEF ChangeSaves
<1>9. ASSUME NEW c \in Calls, ChangeInvalidates(c)
       PROVE  StatusMove(e)
  BY <1>9 DEF StatusMove, ChangeInvalidates
<1>10. ASSUME NEW c \in Calls, ConfirmRereads(c)
       PROVE  StatusMove(e)
  BY <1>10 DEF StatusMove, ConfirmRereads
<1>11. ASSUME NEW c \in Calls, ConfirmClaims(c)
       PROVE  StatusMove(e)
  <2>1. calls[c] \in Call /\ calls[c].draft \in Drafts /\ calls[c].from = "draft"
    BY <1>11 DEF TypeInv, TypeOK, CallOK, CallFits, ConfirmClaims
  <2>2. CASE UNCHANGED drafts
    BY <2>2 DEF StatusMove
  <2> DEFINE row == [status |-> "sending", revision |-> calls[c].revision + 1,
                     content |-> calls[c].content, leased |-> TRUE]
  <2>3. CASE Claimable(calls[c]) /\ drafts' = [drafts EXCEPT ![calls[c].draft] = row]
    <3>1. CASE e # calls[c].draft
      BY <2>3, <3>1 DEF StatusMove, TypeInv, TypeOK
    <3>2. CASE e = calls[c].draft
      <4>1. /\ drafts[e].status = "draft" /\ calls[c].revision = drafts[e].revision
            /\ calls[c].revision + 1 > calls[c].revision
        BY <2>1, <2>3, <3>2 DEF Claimable, Current, Call
      <4>2. drafts'[e].status = "sending" /\ drafts'[e].revision = calls[c].revision + 1
        BY <2>1, <2>3, <3>2 DEF TypeInv, TypeOK
      <4> QED
        BY <1>11, <2>3, <3>2, <4>1, <4>2 DEF StatusMove
    <3> QED
      BY <3>1, <3>2
  <2> QED
    BY <1>11, <2>2, <2>3 DEF ConfirmClaims
<1>12. ASSUME NEW c \in Calls, ProviderUnavailable(c)
       PROVE  StatusMove(e)
  BY <1>12 DEF StatusMove, ProviderUnavailable
<1>13. ASSUME NEW c \in Calls, ProviderCalled(c)
       PROVE  StatusMove(e)
  BY <1>13 DEF StatusMove, ProviderCalled
<1>14. ASSUME NEW c \in Calls, ProviderAnswers(c)
       PROVE  StatusMove(e)
  BY <1>14 DEF StatusMove, ProviderAnswers
<1>15. ASSUME NEW c \in Calls, AnswerLost(c)
       PROVE  StatusMove(e)
  BY <1>15 DEF StatusMove, AnswerLost
<1>16. ASSUME NEW c \in Calls, StoreResult(c)
       PROVE  StatusMove(e)
  <2>1. /\ calls[c] \in Call /\ calls[c].pc = "store"
        /\ calls[c].to \in {"blocked"} \cup Outcomes /\ calls[c].from = "sending"
    BY <1>16 DEF TypeInv, TypeOK, CallOK, CallFits, AttemptPoints, StoreResult
  <2>2. CASE UNCHANGED drafts
    BY <2>2 DEF StatusMove
  <2>3. CASE Transition(calls[c]) /\ e # calls[c].draft
    BY <2>1, <2>3, TransitionEffect DEF StatusMove
  <2>4. CASE Current(calls[c]) /\ Transition(calls[c]) /\ e = calls[c].draft
    <3>1. /\ drafts[e].status = "sending" /\ calls[c].revision = drafts[e].revision
          /\ calls[c].revision + 1 > calls[c].revision
      BY <2>1, <2>4 DEF Current, Call
    <3> QED
      BY <2>1, <2>4, <3>1, TransitionEffect DEF StatusMove
  <2> QED
    BY <1>16, <2>2, <2>3, <2>4 DEF StoreResult
<1>17. ASSUME NEW c \in Calls, CallFails(c)
       PROVE  StatusMove(e)
  BY <1>17 DEF StatusMove, CallFails
<1>18. ASSUME NEW t \in Tokens, TokenExpires(t)
       PROVE  StatusMove(e)
  BY <1>18 DEF StatusMove, TokenExpires
<1>19. ASSUME NEW r \in wire, ProviderDecides(r)
       PROVE  StatusMove(e)
  BY <1>19 DEF StatusMove, ProviderDecides
<1>20. ASSUME NEW d \in Drafts, LeaseExpires(d)
       PROVE  StatusMove(e)
  <2>1. drafts'[e].revision = drafts[e].revision /\ drafts'[e].status = drafts[e].status
    BY <1>0, <1>20 DEF TypeInv, TypeOK, DraftRow, LeaseExpires
  <2> QED
    BY <2>1 DEF StatusMove
<1>21. ASSUME NEW d \in Drafts, NEW s \in ReceiptStatuses, Receipt(d, s)
       PROVE  StatusMove(e)
  <2>1. drafts[d].status \in Outcomes
    BY <1>21 DEF SendInv, ReceiptInv, Receipt
  <2>2. drafts'[d].revision = drafts[d].revision /\ drafts'[d].status = s
    BY <1>21 DEF TypeInv, TypeOK, DraftRow, Receipt
  <2>3. e # d => drafts'[e] = drafts[e]
    BY <1>21 DEF TypeInv, TypeOK, Receipt
  <2> QED
    BY <2>1, <2>2, <2>3, StatusFacts DEF StatusMove
<1>22. ASSUME Restart
       PROVE  StatusMove(e)
  <2>1. CASE Stale(e)
    <3>1. drafts'[e] = [drafts[e] EXCEPT !.status = "delivery_unknown",
                                         !.revision = drafts[e].revision + 1]
      BY <1>22, <2>1 DEF Restart
    <3>2. /\ drafts[e].status = "sending" /\ drafts'[e].status = "delivery_unknown"
          /\ drafts'[e].revision > drafts[e].revision
      BY <1>0, <2>1, <3>1 DEF Stale, DraftRow
    <3> QED
      BY <3>2, StatusFacts DEF StatusMove
  <2>2. CASE ~Stale(e)
    BY <1>22, <2>2 DEF Restart, StatusMove
  <2> QED
    BY <2>1, <2>2
<1>23. CASE UNCHANGED vars
  BY <1>23 DEF vars, StatusMove
<1> QED
  BY <1>1, <1>2, <1>3, <1>4, <1>5, <1>6, <1>7, <1>8, <1>9, <1>10, <1>11, <1>12,
     <1>13, <1>14, <1>15, <1>16, <1>17, <1>18, <1>19, <1>20, <1>21, <1>22, <1>23
     DEF Next

\* A token that was issued keeps its draft and revision, and is never revived.
TokenMove(t) ==
  tokens[t].state # "unissued" =>
    /\ tokens'[t].state # "unissued"
    /\ tokens'[t].draft = tokens[t].draft /\ tokens'[t].revision = tokens[t].revision
    /\ tokens'[t].state = "valid" => tokens[t].state = "valid"

\* No step re-issues a token, moves it to another draft or revives it.
LEMMA TokenMoves ==
  ASSUME TypeInv, [Next]_vars
  PROVE  \A t \in Tokens : TokenMove(t)
<1> SUFFICES ASSUME NEW u \in Tokens
             PROVE  TokenMove(u)
  OBVIOUS
<1>0. tokens[u] \in TokenRow
  BY DEF TypeInv, TypeOK
<1>1. ASSUME NEW c \in Calls, NEW d \in Drafts, NEW x \in Contents, PrepareReads(c, d, x)
       PROVE  TokenMove(u)
  BY <1>1 DEF TokenMove, PrepareReads
<1>2. ASSUME NEW c \in Calls, NEW d \in Drafts, NEW x \in Contents, EditReads(c, d, x)
       PROVE  TokenMove(u)
  BY <1>2 DEF TokenMove, EditReads
<1>3. ASSUME NEW c \in Calls, NEW d \in Drafts, CancelReads(c, d)
       PROVE  TokenMove(u)
  BY <1>3 DEF TokenMove, CancelReads
<1>4. ASSUME NEW c \in Calls, NEW d \in Drafts, IssueReads(c, d)
       PROVE  TokenMove(u)
  BY <1>4 DEF TokenMove, IssueReads
<1>5. ASSUME NEW c \in Calls, NEW t \in Tokens, IssueSaves(c, t)
       PROVE  TokenMove(u)
  BY <1>0, <1>5 DEF TypeInv, TypeOK, TokenRow, TokenMove, IssueSaves
<1>6. ASSUME NEW c \in Calls, NEW t \in Tokens, ConfirmValidates(c, t)
       PROVE  TokenMove(u)
  BY <1>6 DEF TokenMove, ConfirmValidates
<1>7. ASSUME NEW c \in Calls, PrepareSaves(c)
       PROVE  TokenMove(u)
  BY <1>7 DEF TokenMove, PrepareSaves
<1>8. ASSUME NEW c \in Calls, ChangeSaves(c)
       PROVE  TokenMove(u)
  BY <1>8 DEF TokenMove, ChangeSaves
<1>9. ASSUME NEW c \in Calls, ChangeInvalidates(c)
       PROVE  TokenMove(u)
  <2>1. tokens'[u] = tokens[u] \/ tokens'[u] = [tokens[u] EXCEPT !.state = "invalidated"]
    BY <1>9 DEF ChangeInvalidates, InvalidateTokens
  <2> QED
    BY <1>0, <2>1 DEF TokenRow, TokenMove
<1>10. ASSUME NEW c \in Calls, ConfirmRereads(c)
       PROVE  TokenMove(u)
  BY <1>10 DEF TokenMove, ConfirmRereads
<1>11. ASSUME NEW c \in Calls, ConfirmClaims(c)
       PROVE  TokenMove(u)
  <2>1. \/ tokens'[u] = tokens[u]
        \/ tokens'[u] = [tokens[u] EXCEPT !.state = "consumed"]
        \/ tokens'[u] = [tokens[u] EXCEPT !.state = "invalidated"]
    BY <1>11 DEF ConfirmClaims
  <2> QED
    BY <1>0, <2>1 DEF TokenRow, TokenMove
<1>12. ASSUME NEW c \in Calls, ProviderUnavailable(c)
       PROVE  TokenMove(u)
  BY <1>12 DEF TokenMove, ProviderUnavailable
<1>13. ASSUME NEW c \in Calls, ProviderCalled(c)
       PROVE  TokenMove(u)
  BY <1>13 DEF TokenMove, ProviderCalled
<1>14. ASSUME NEW c \in Calls, ProviderAnswers(c)
       PROVE  TokenMove(u)
  BY <1>14 DEF TokenMove, ProviderAnswers
<1>15. ASSUME NEW c \in Calls, AnswerLost(c)
       PROVE  TokenMove(u)
  BY <1>15 DEF TokenMove, AnswerLost
<1>16. ASSUME NEW c \in Calls, StoreResult(c)
       PROVE  TokenMove(u)
  BY <1>16 DEF TokenMove, StoreResult
<1>17. ASSUME NEW c \in Calls, CallFails(c)
       PROVE  TokenMove(u)
  BY <1>17 DEF TokenMove, CallFails
<1>18. ASSUME NEW t \in Tokens, TokenExpires(t)
       PROVE  TokenMove(u)
  BY <1>0, <1>18 DEF TypeInv, TypeOK, TokenRow, TokenMove, TokenExpires
<1>19. ASSUME NEW r \in wire, ProviderDecides(r)
       PROVE  TokenMove(u)
  BY <1>19 DEF TokenMove, ProviderDecides
<1>20. ASSUME NEW d \in Drafts, LeaseExpires(d)
       PROVE  TokenMove(u)
  BY <1>20 DEF TokenMove, LeaseExpires
<1>21. ASSUME NEW d \in Drafts, NEW s \in ReceiptStatuses, Receipt(d, s)
       PROVE  TokenMove(u)
  BY <1>21 DEF TokenMove, Receipt
<1>22. ASSUME Restart
       PROVE  TokenMove(u)
  BY <1>22 DEF TokenMove, Restart
<1>23. CASE UNCHANGED vars
  BY <1>23 DEF vars, TokenMove
<1> QED
  BY <1>1, <1>2, <1>3, <1>4, <1>5, <1>6, <1>7, <1>8, <1>9, <1>10, <1>11, <1>12,
     <1>13, <1>14, <1>15, <1>16, <1>17, <1>18, <1>19, <1>20, <1>21, <1>22, <1>23
     DEF Next

\* A step keeps AnsweredInv when it answers nobody, and each thread either goes
\* on as it was, or is at a point of no interest, or is right by itself.

\* A step that answers no edit, and leaves each thread as it was or away from
\* the points the invariant speaks of, keeps the invariant of answered edits.
LEMMA AnsweredKept ==
  ASSUME TypeInv, TypeInv', AnsweredInv, UNCHANGED answered,
         \A e \in Drafts : StatusMove(e), \A t \in Tokens : TokenMove(t),
         \A o \in Calls : \/ calls'[o] = calls[o]
                          \/ calls'[o].pc \notin {"invalidate", "confirm", "claim"}
                          \/ AnsweredBy(o)'
  PROVE  AnsweredInv'
<1>1. ASSUME NEW d \in Drafts
      PROVE  /\ answered'[d] <= drafts'[d].revision
             /\ drafts'[d].status = "absent" => drafts'[d].revision = 0
  <2>1. answered[d] \in Nat /\ drafts[d] \in DraftRow /\ drafts'[d] \in DraftRow
    BY DEF TypeInv, TypeOK
  <2>2. drafts'[d].revision >= drafts[d].revision
    BY <2>1 DEF StatusMove, DraftRow
  <2>3. drafts'[d].status = "absent" => drafts[d].status = "absent" /\ drafts'[d].revision = drafts[d].revision
    BY StatusFacts DEF StatusMove
  <2> QED
    BY <2>1, <2>2, <2>3 DEF AnsweredInv, DraftRow
<1>2. ASSUME NEW o \in Calls
      PROVE  AnsweredBy(o)'
  <2>1. CASE AnsweredBy(o)'
    BY <2>1
  <2>2. CASE calls'[o].pc \notin {"invalidate", "confirm", "claim"}
    BY <2>2 DEF AnsweredBy
  <2>3. CASE calls'[o] = calls[o]
    <3>1. calls[o] \in Call /\ CallFits(calls[o]) /\ AnsweredBy(o)
      BY DEF TypeInv, TypeOK, CallOK, AnsweredInv
    <3>2. ASSUME calls[o].pc = "invalidate"
          PROVE  calls[o].revision < drafts'[calls[o].draft].revision
      <4>1. calls[o].draft \in Drafts /\ calls[o].revision \in Nat
        BY <3>1, <3>2 DEF Call, CallFits
      <4>2. /\ drafts[calls[o].draft] \in DraftRow /\ drafts'[calls[o].draft] \in DraftRow
            /\ StatusMove(calls[o].draft)
        BY <4>1 DEF TypeInv, TypeOK
      <4> QED
        BY <3>1, <3>2, <4>1, <4>2 DEF AnsweredBy, StatusMove, DraftRow
    <3>3. ASSUME calls[o].pc \in {"confirm", "claim"}
          PROVE  LET k == calls[o] IN
                 /\ tokens'[k.token].draft = k.draft /\ tokens'[k.token].state # "unissued"
                 /\ tokens'[k.token].state = "valid" => tokens'[k.token].revision >= answered'[k.draft]
      <4>1. calls[o].token \in Tokens
        BY <3>1, <3>3 DEF CallFits
      <4> QED
        BY <3>1, <3>3, <4>1 DEF AnsweredBy, TokenMove
    <3> QED
      BY <2>3, <3>2, <3>3 DEF AnsweredBy
  <2> QED
    BY <2>1, <2>2, <2>3
<1> QED
  BY <1>1, <1>2 DEF AnsweredInv

\* Every step keeps the invariant of answered edits.
LEMMA AnsweredStep ==
  ASSUME TypeInv, TypeInv', SendInv, AnsweredInv, [Next]_vars
  PROVE  AnsweredInv'
<1>0. (\A e \in Drafts : StatusMove(e)) /\ (\A t \in Tokens : TokenMove(t))
  BY StatusMoves, TokenMoves
<1>1. ASSUME NEW c \in Calls, NEW d \in Drafts, NEW x \in Contents, PrepareReads(c, d, x)
       PROVE  AnsweredInv'
  <2>1. \A o \in Calls : \/ calls'[o] = calls[o]
                         \/ calls'[o].pc \notin {"invalidate", "confirm", "claim"}
    BY <1>1 DEF TypeInv, TypeOK, Call, PrepareReads, Begin, Idle
  <2> QED
    BY <1>0, <1>1, <2>1, AnsweredKept DEF PrepareReads
<1>2. ASSUME NEW c \in Calls, NEW d \in Drafts, NEW x \in Contents, EditReads(c, d, x)
       PROVE  AnsweredInv'
  <2>1. \A o \in Calls : \/ calls'[o] = calls[o]
                         \/ calls'[o].pc \notin {"invalidate", "confirm", "claim"}
    BY <1>2 DEF TypeInv, TypeOK, Call, EditReads, Begin, Idle
  <2> QED
    BY <1>0, <1>2, <2>1, AnsweredKept DEF EditReads
<1>3. ASSUME NEW c \in Calls, NEW d \in Drafts, CancelReads(c, d)
       PROVE  AnsweredInv'
  <2>1. \A o \in Calls : \/ calls'[o] = calls[o]
                         \/ calls'[o].pc \notin {"invalidate", "confirm", "claim"}
    BY <1>3 DEF TypeInv, TypeOK, Call, CancelReads, Begin, Idle
  <2> QED
    BY <1>0, <1>3, <2>1, AnsweredKept DEF CancelReads
<1>4. ASSUME NEW c \in Calls, NEW d \in Drafts, IssueReads(c, d)
       PROVE  AnsweredInv'
  <2>1. \A o \in Calls : \/ calls'[o] = calls[o]
                         \/ calls'[o].pc \notin {"invalidate", "confirm", "claim"}
    BY <1>4 DEF TypeInv, TypeOK, Call, IssueReads, Begin, Idle
  <2> QED
    BY <1>0, <1>4, <2>1, AnsweredKept DEF IssueReads
<1>5. ASSUME NEW c \in Calls, NEW t \in Tokens, IssueSaves(c, t)
       PROVE  AnsweredInv'
  <2>1. \A o \in Calls : \/ calls'[o] = calls[o]
                         \/ calls'[o].pc \notin {"invalidate", "confirm", "claim"}
    BY <1>5 DEF TypeInv, TypeOK, Call, IssueSaves, Return, Idle
  <2> QED
    BY <1>0, <1>5, <2>1, AnsweredKept DEF IssueSaves
<1>6. ASSUME NEW c \in Calls, NEW t \in Tokens, ConfirmValidates(c, t)
       PROVE  AnsweredInv'
  <2> DEFINE d == tokens[t].draft
  <2>1. calls' = [calls EXCEPT ![c] = [Idle EXCEPT !.pc = "confirm", !.draft = d,
                                                   !.token = t]]
    BY <1>6 DEF ConfirmValidates, Begin
  <2>2. calls'[c].pc = "confirm" /\ calls'[c].draft = d /\ calls'[c].token = t
    BY <2>1 DEF TypeInv, TypeOK, Idle
  <2>3. /\ tokens[t].state # "unissued" /\ tokens[t].revision = drafts[d].revision
        /\ d \in Drafts
    BY <1>6 DEF ConfirmValidates, Validates, TypeInv, TokenOK
  <2>4. tokens[t].revision >= answered[d]
    <3>1. answered[d] \in Nat /\ drafts[d].revision \in Nat
      BY <2>3 DEF TypeInv, TypeOK, DraftRow
    <3> QED
      BY <2>3, <3>1 DEF AnsweredInv
  <2>5. AnsweredBy(c)'
    BY <1>6, <2>2, <2>3, <2>4 DEF AnsweredBy, ConfirmValidates
  <2>6. \A o \in Calls \ {c} : calls'[o] = calls[o]
    BY <2>1 DEF TypeInv, TypeOK
  <2> QED
    BY <1>0, <1>6, <2>5, <2>6, AnsweredKept DEF ConfirmValidates
<1>7. ASSUME NEW c \in Calls, PrepareSaves(c)
       PROVE  AnsweredInv'
  <2>1. \A o \in Calls : \/ calls'[o] = calls[o]
                         \/ calls'[o].pc \notin {"invalidate", "confirm", "claim"}
    BY <1>7 DEF TypeInv, TypeOK, Call, PrepareSaves, Return, Idle
  <2> QED
    BY <1>0, <1>7, <2>1, AnsweredKept DEF PrepareSaves
<1>8. ASSUME NEW c \in Calls, ChangeSaves(c)
       PROVE  AnsweredInv'
  <2>1. calls[c] \in Call /\ calls[c].pc \in {"edit", "cancel"}
    BY <1>8 DEF TypeInv, TypeOK, ChangeSaves
  <2>2. \A o \in Calls \ {c} : calls'[o] = calls[o]
    BY <1>8 DEF TypeInv, TypeOK, ChangeSaves, Go, Return
  <2>3. calls'[c].pc \notin {"invalidate", "confirm", "claim"} \/ AnsweredBy(c)'
    <3>1. CASE Transition(calls[c]) /\ Go(c, "invalidate")
      <4>1. calls'[c] = [calls[c] EXCEPT !.pc = "invalidate"]
        BY <3>1 DEF Go, TypeInv, TypeOK
      <4>2. /\ calls'[c].pc = "invalidate" /\ calls'[c].draft = calls[c].draft
            /\ calls'[c].revision = calls[c].revision /\ calls[c].revision < calls[c].revision + 1
        BY <2>1, <4>1 DEF Call
      <4> QED
        BY <2>1, <3>1, <4>2, TransitionEffect DEF AnsweredBy
    <3>2. CASE Return(c)
      BY <3>2 DEF Return, Idle, TypeInv, TypeOK
    <3> QED
      BY <1>8, <3>1, <3>2 DEF ChangeSaves
  <2> QED
    BY <1>0, <1>8, <2>2, <2>3, AnsweredKept DEF ChangeSaves
<1>9. ASSUME NEW c \in Calls, ChangeInvalidates(c)
       PROVE  AnsweredInv'
  <2> DEFINE d == calls[c].draft
  <2>1. calls[c] \in Call /\ d \in Drafts /\ calls[c].revision < drafts[d].revision
    BY <1>9
       DEF TypeInv, TypeOK, CallOK, CallFits, AnsweredInv, AnsweredBy,
           ChangeInvalidates
  <2>2. ASSUME NEW e \in Drafts
        PROVE  answered'[e] <= drafts'[e].revision
    <3>1. /\ answered[e] \in Nat /\ drafts[e].revision \in Nat /\ calls[c].revision \in Nat
          /\ answered[e] <= drafts[e].revision
      BY <2>1 DEF TypeInv, TypeOK, DraftRow, Call, AnsweredInv
    <3>2. answered'[e] = answered[e] \/ (e = d /\ answered'[e] = calls[c].revision + 1)
      BY <1>9, <2>1 DEF TypeInv, TypeOK, ChangeInvalidates
    <3> QED
      BY <1>9, <2>1, <3>1, <3>2 DEF ChangeInvalidates
  <2>3. ASSUME NEW o \in Calls
        PROVE  AnsweredBy(o)'
    <3>1. CASE o = c
      BY <1>9, <3>1 DEF AnsweredBy, ChangeInvalidates, Return, Idle, TypeInv, TypeOK
    <3>2. CASE o # c
      <4>1. calls'[o] = calls[o] /\ AnsweredBy(o) /\ CallFits(calls[o])
        BY <1>9, <3>2
           DEF ChangeInvalidates, Return, TypeInv, TypeOK, CallOK, AnsweredInv
      <4>2. ASSUME calls[o].pc \in {"confirm", "claim"}
            PROVE  LET k == calls[o] IN
                   /\ tokens'[k.token].draft = k.draft /\ tokens'[k.token].state # "unissued"
                   /\ tokens'[k.token].state = "valid" => tokens'[k.token].revision >= answered'[k.draft]
        <5>1. calls[o].token \in Tokens /\ calls[o].draft \in Drafts
          BY <4>1, <4>2 DEF CallFits
        <5>2. TokenMove(calls[o].token)
          BY <1>0, <5>1
        <5>3. CASE calls[o].draft = d
          <6>1. tokens[calls[o].token].draft = d /\ tokens[calls[o].token] \in TokenRow
            BY <4>1, <4>2, <5>1, <5>3 DEF AnsweredBy, TypeInv, TypeOK
          <6>2. tokens'[calls[o].token].state # "valid"
            <7>1. calls[o].token # NoToken
              BY <5>1, OutboundAssumption
            <7> QED
              BY <1>9, <5>1, <6>1, <7>1
                 DEF ChangeInvalidates, InvalidateTokens, TokenRow
          <6> QED
            BY <4>1, <4>2, <5>2, <6>2 DEF AnsweredBy, TokenMove
        <5>4. CASE calls[o].draft # d
          <6>1. answered'[calls[o].draft] = answered[calls[o].draft]
            BY <1>9, <5>1, <5>4 DEF ChangeInvalidates, TypeInv, TypeOK
          <6> QED
            BY <4>1, <4>2, <5>2, <6>1 DEF AnsweredBy, TokenMove
        <5> QED
          BY <5>3, <5>4
      <4> QED
        BY <1>9, <4>1, <4>2 DEF AnsweredBy, ChangeInvalidates
    <3> QED
      BY <3>1, <3>2
  <2> QED
    BY <1>9, <2>2, <2>3 DEF AnsweredInv, ChangeInvalidates
<1>10. ASSUME NEW c \in Calls, ConfirmRereads(c)
       PROVE  AnsweredInv'
  <2>1. /\ calls'[c].pc = "claim" /\ calls'[c].draft = calls[c].draft
        /\ calls'[c].token = calls[c].token /\ calls[c].pc = "confirm"
    BY <1>10 DEF TypeInv, TypeOK, Call, ConfirmRereads
  <2>2. AnsweredBy(c)'
    BY <1>10, <2>1 DEF AnsweredInv, AnsweredBy, ConfirmRereads
  <2>3. \A o \in Calls \ {c} : calls'[o] = calls[o]
    BY <1>10 DEF TypeInv, TypeOK, ConfirmRereads
  <2> QED
    BY <1>0, <1>10, <2>2, <2>3, AnsweredKept DEF ConfirmRereads
<1>11. ASSUME NEW c \in Calls, ConfirmClaims(c)
       PROVE  AnsweredInv'
  <2>1. \A o \in Calls \ {c} : calls'[o] = calls[o]
    BY <1>11 DEF TypeInv, TypeOK, ConfirmClaims, Return
  <2>2. calls'[c].pc \notin {"invalidate", "confirm", "claim"}
    <3>1. CASE Claimable(calls[c])
      <4>1. calls'[c] = [calls[c] EXCEPT !.pc = "provider",
                           !.revision = calls[c].revision + 1, !.from = "sending"]
        BY <1>11, <3>1 DEF TypeInv, TypeOK, ConfirmClaims
      <4>2. calls[c] \in Call
        BY DEF TypeInv, TypeOK
      <4> QED
        BY <4>1, <4>2 DEF Call
    <3>2. CASE ~Claimable(calls[c])
      BY <1>11, <3>2 DEF TypeInv, TypeOK, ConfirmClaims, Return, Idle
    <3> QED
      BY <3>1, <3>2
  <2>3. \A o \in Calls : \/ calls'[o] = calls[o]
                         \/ calls'[o].pc \notin {"invalidate", "confirm", "claim"}
    BY <2>1, <2>2
  <2> QED
    BY <1>0, <1>11, <2>3, AnsweredKept DEF ConfirmClaims
<1>12. ASSUME NEW c \in Calls, ProviderUnavailable(c)
       PROVE  AnsweredInv'
  <2>1. \A o \in Calls : \/ calls'[o] = calls[o]
                         \/ calls'[o].pc \notin {"invalidate", "confirm", "claim"}
    BY <1>12 DEF TypeInv, TypeOK, Call, ProviderUnavailable
  <2> QED
    BY <1>0, <1>12, <2>1, AnsweredKept DEF ProviderUnavailable
<1>13. ASSUME NEW c \in Calls, ProviderCalled(c)
       PROVE  AnsweredInv'
  <2>1. \A o \in Calls : \/ calls'[o] = calls[o]
                         \/ calls'[o].pc \notin {"invalidate", "confirm", "claim"}
    BY <1>13 DEF TypeInv, TypeOK, Call, ProviderCalled, Go
  <2> QED
    BY <1>0, <1>13, <2>1, AnsweredKept DEF ProviderCalled
<1>14. ASSUME NEW c \in Calls, ProviderAnswers(c)
       PROVE  AnsweredInv'
  <2>1. \A o \in Calls : \/ calls'[o] = calls[o]
                         \/ calls'[o].pc \notin {"invalidate", "confirm", "claim"}
    BY <1>14 DEF TypeInv, TypeOK, Call, ProviderAnswers
  <2> QED
    BY <1>0, <1>14, <2>1, AnsweredKept DEF ProviderAnswers
<1>15. ASSUME NEW c \in Calls, AnswerLost(c)
       PROVE  AnsweredInv'
  <2>1. \A o \in Calls : \/ calls'[o] = calls[o]
                         \/ calls'[o].pc \notin {"invalidate", "confirm", "claim"}
    BY <1>15 DEF TypeInv, TypeOK, Call, AnswerLost
  <2> QED
    BY <1>0, <1>15, <2>1, AnsweredKept DEF AnswerLost
<1>16. ASSUME NEW c \in Calls, StoreResult(c)
       PROVE  AnsweredInv'
  <2>1. \A o \in Calls : \/ calls'[o] = calls[o]
                         \/ calls'[o].pc \notin {"invalidate", "confirm", "claim"}
    BY <1>16 DEF TypeInv, TypeOK, Call, StoreResult, Return, Idle
  <2> QED
    BY <1>0, <1>16, <2>1, AnsweredKept DEF StoreResult
<1>17. ASSUME NEW c \in Calls, CallFails(c)
       PROVE  AnsweredInv'
  <2>1. \A o \in Calls : \/ calls'[o] = calls[o]
                         \/ calls'[o].pc \notin {"invalidate", "confirm", "claim"}
    BY <1>17 DEF TypeInv, TypeOK, Call, CallFails, Return, Idle
  <2> QED
    BY <1>0, <1>17, <2>1, AnsweredKept DEF CallFails
<1>18. ASSUME NEW t \in Tokens, TokenExpires(t)
       PROVE  AnsweredInv'
  BY <1>0, <1>18, AnsweredKept DEF TokenExpires
<1>19. ASSUME NEW r \in wire, ProviderDecides(r)
       PROVE  AnsweredInv'
  BY <1>0, <1>19, AnsweredKept DEF ProviderDecides
<1>20. ASSUME NEW d \in Drafts, LeaseExpires(d)
       PROVE  AnsweredInv'
  BY <1>0, <1>20, AnsweredKept DEF LeaseExpires
<1>21. ASSUME NEW d \in Drafts, NEW s \in ReceiptStatuses, Receipt(d, s)
       PROVE  AnsweredInv'
  BY <1>0, <1>21, AnsweredKept DEF Receipt
<1>22. ASSUME Restart
       PROVE  AnsweredInv'
  <2>1. \A o \in Calls : \/ calls'[o] = calls[o]
                         \/ calls'[o].pc \notin {"invalidate", "confirm", "claim"}
    BY <1>22 DEF TypeInv, TypeOK, Call, Restart, Idle
  <2> QED
    BY <1>0, <1>22, <2>1, AnsweredKept DEF Restart
<1>23. CASE UNCHANGED vars
  BY <1>0, <1>23, AnsweredKept DEF vars
<1> QED
  BY <1>1, <1>2, <1>3, <1>4, <1>5, <1>6, <1>7, <1>8, <1>9, <1>10, <1>11, <1>12,
     <1>13, <1>14, <1>15, <1>16, <1>17, <1>18, <1>19, <1>20, <1>21, <1>22, <1>23
     DEF Next

-----------------------------------------------------------------------------
(* A failure stored for a Gmail draft is real.                             *)

\* A step that makes no request, stores no failure without a receipt, and moves
\* no thread to a point where it awaits or stores, keeps the invariant.
LEMMA GmailKept ==
  ASSUME TypeInv, GmailInv, Requests' \subseteq Requests,
         \A e \in Drafts : receipts'[e] = {} =>
           /\ receipts[e] = {}
           /\ drafts'[e].status = "failed" =>
                \/ drafts[e].status = "failed"
                \/ ChannelOf[e] # "gmail"
                \/ \A r \in Requests : r.draft # e,
         \A o \in Calls : calls'[o] = calls[o] \/ calls'[o].pc \notin {"await", "store"}
  PROVE  GmailInv'
<1>1. \A r \in Requests' : r \in Requests /\ r.draft \in Drafts
  BY DEF TypeInv, TypeOK, Requests, Request
<1>2. GmailFailureIsReal'
  BY <1>1 DEF GmailInv, GmailFailureIsReal
<1>3. ASSUME NEW c \in Calls, NEW r \in Requests', r.draft = calls'[c].draft
      PROVE  /\ calls'[c].pc = "await" => r = RequestOf(c)'
             /\ calls'[c].pc = "store" /\ ChannelOf[r.draft] = "gmail"
                  => calls'[c].to # "failed"
  BY <1>1, <1>3 DEF GmailInv, RequestOf
<1> QED
  BY <1>2, <1>3 DEF GmailInv

\* A thread that goes to await or to store what the provider did says so truly.
LEMMA GmailMoved ==
  ASSUME TypeInv, GmailInv, NEW c \in Calls, UNCHANGED <<drafts, receipts, wire, accepted>>,
         \A o \in Calls \ {c} : calls'[o] = calls[o],
         calls'[c].pc = "store", calls'[c].draft = calls[c].draft,
         \A r \in Requests : r.draft = calls[c].draft /\ ChannelOf[r.draft] = "gmail"
                             => calls'[c].to # "failed"
  PROVE  GmailInv'
<1>1. Requests' = Requests
  BY DEF Requests
<1>2. GmailFailureIsReal'
  BY <1>1 DEF GmailInv, GmailFailureIsReal
<1>3. ASSUME NEW o \in Calls, NEW r \in Requests', r.draft = calls'[o].draft
      PROVE  /\ calls'[o].pc = "await" => r = RequestOf(o)'
             /\ calls'[o].pc = "store" /\ ChannelOf[r.draft] = "gmail"
                  => calls'[o].to # "failed"
  BY <1>1, <1>3 DEF GmailInv, RequestOf
<1> QED
  BY <1>2, <1>3 DEF GmailInv

\* Every step keeps the invariant of Gmail failures.
LEMMA GmailStep ==
  ASSUME TypeInv, SendInv, GmailInv, [Next]_vars
  PROVE  GmailInv'
<1>0. ASSUME UNCHANGED <<drafts, receipts, wire, accepted>>,
             \A o \in Calls : calls'[o] = calls[o] \/ calls'[o].pc \notin {"await", "store"}
      PROVE  GmailInv'
  BY <1>0, GmailKept DEF Requests
<1>1. ASSUME NEW c \in Calls, NEW d \in Drafts, NEW x \in Contents, PrepareReads(c, d, x)
      PROVE  GmailInv'
  <2>1. \A o \in Calls : calls'[o] = calls[o] \/ calls'[o].pc \notin {"await", "store"}
    BY <1>1 DEF TypeInv, TypeOK, Call, PrepareReads, Begin, Idle
  <2> QED
    BY <1>0, <1>1, <2>1 DEF PrepareReads
<1>2. ASSUME NEW c \in Calls, NEW d \in Drafts, NEW x \in Contents, EditReads(c, d, x)
      PROVE  GmailInv'
  <2>1. \A o \in Calls : calls'[o] = calls[o] \/ calls'[o].pc \notin {"await", "store"}
    BY <1>2 DEF TypeInv, TypeOK, Call, EditReads, Begin, Idle
  <2> QED
    BY <1>0, <1>2, <2>1 DEF EditReads
<1>3. ASSUME NEW c \in Calls, NEW d \in Drafts, CancelReads(c, d)
      PROVE  GmailInv'
  <2>1. \A o \in Calls : calls'[o] = calls[o] \/ calls'[o].pc \notin {"await", "store"}
    BY <1>3 DEF TypeInv, TypeOK, Call, CancelReads, Begin, Idle
  <2> QED
    BY <1>0, <1>3, <2>1 DEF CancelReads
<1>4. ASSUME NEW c \in Calls, NEW d \in Drafts, IssueReads(c, d)
      PROVE  GmailInv'
  <2>1. \A o \in Calls : calls'[o] = calls[o] \/ calls'[o].pc \notin {"await", "store"}
    BY <1>4 DEF TypeInv, TypeOK, Call, IssueReads, Begin, Idle
  <2> QED
    BY <1>0, <1>4, <2>1 DEF IssueReads
<1>5. ASSUME NEW c \in Calls, NEW t \in Tokens, IssueSaves(c, t)
      PROVE  GmailInv'
  <2>1. \A o \in Calls : calls'[o] = calls[o] \/ calls'[o].pc \notin {"await", "store"}
    BY <1>5 DEF TypeInv, TypeOK, Call, IssueSaves, Return, Idle
  <2> QED
    BY <1>0, <1>5, <2>1 DEF IssueSaves
<1>6. ASSUME NEW c \in Calls, NEW t \in Tokens, ConfirmValidates(c, t)
      PROVE  GmailInv'
  <2>1. \A o \in Calls : calls'[o] = calls[o] \/ calls'[o].pc \notin {"await", "store"}
    BY <1>6 DEF TypeInv, TypeOK, Call, ConfirmValidates, Begin, Idle
  <2> QED
    BY <1>0, <1>6, <2>1 DEF ConfirmValidates
<1>7. ASSUME NEW c \in Calls, PrepareSaves(c)
      PROVE  GmailInv'
  <2>1. \A o \in Calls : calls'[o] = calls[o] \/ calls'[o].pc \notin {"await", "store"}
    BY <1>7 DEF TypeInv, TypeOK, PrepareSaves, Return, Idle
  <2>2. calls[c].pc = "prepare" /\ calls[c].to \in {"draft", "blocked"}
    BY <1>7 DEF TypeInv, CallOK, CallFits, PrepareSaves
  <2>3. \A e \in Drafts : drafts'[e].status = "failed" => drafts[e].status = "failed"
    BY <1>7, <2>2, TransitionEffect DEF PrepareSaves
  <2> QED
    BY <1>7, <2>1, <2>3, GmailKept DEF PrepareSaves, Requests
<1>8. ASSUME NEW c \in Calls, ChangeSaves(c)
      PROVE  GmailInv'
  <2>1. \A o \in Calls : calls'[o] = calls[o] \/ calls'[o].pc \notin {"await", "store"}
    BY <1>8 DEF TypeInv, TypeOK, Call, ChangeSaves, Go, Return, Idle
  <2>2. calls[c].pc \in {"edit", "cancel"} /\ calls[c].to \in {"draft", "blocked", "cancelled"}
    BY <1>8 DEF TypeInv, CallOK, CallFits, ChangeSaves
  <2>3. \A e \in Drafts : drafts'[e].status = "failed" => drafts[e].status = "failed"
    BY <1>8, <2>2, TransitionEffect DEF ChangeSaves
  <2> QED
    BY <1>8, <2>1, <2>3, GmailKept DEF ChangeSaves, Requests
<1>9. ASSUME NEW c \in Calls, ChangeInvalidates(c)
      PROVE  GmailInv'
  <2>1. \A o \in Calls : calls'[o] = calls[o] \/ calls'[o].pc \notin {"await", "store"}
    BY <1>9 DEF TypeInv, TypeOK, ChangeInvalidates, Return, Idle
  <2> QED
    BY <1>0, <1>9, <2>1 DEF ChangeInvalidates
<1>10. ASSUME NEW c \in Calls, ConfirmRereads(c)
       PROVE  GmailInv'
  <2>1. \A o \in Calls : calls'[o] = calls[o] \/ calls'[o].pc \notin {"await", "store"}
    BY <1>10 DEF TypeInv, TypeOK, Call, ConfirmRereads
  <2> QED
    BY <1>0, <1>10, <2>1 DEF ConfirmRereads
<1>11. ASSUME NEW c \in Calls, ConfirmClaims(c)
       PROVE  GmailInv'
  <2>0. calls[c] \in Call /\ calls[c].draft \in Drafts
    BY <1>11 DEF TypeInv, TypeOK, CallOK, CallFits, ConfirmClaims
  <2>1. \A o \in Calls : calls'[o] = calls[o] \/ calls'[o].pc \notin {"await", "store"}
    <3>1. CASE Claimable(calls[c])
      <4>1. calls' = [calls EXCEPT ![c] = [calls[c] EXCEPT !.pc = "provider",
                        !.revision = calls[c].revision + 1, !.from = "sending"]]
        BY <1>11, <3>1 DEF ConfirmClaims
      <4> QED
        BY <2>0, <4>1 DEF TypeInv, TypeOK, Call
    <3>2. CASE ~Claimable(calls[c])
      BY <1>11, <3>2 DEF TypeInv, TypeOK, ConfirmClaims, Return, Idle
    <3> QED
      BY <3>1, <3>2
  <2>2. \A e \in Drafts : drafts'[e].status = "failed" => drafts[e].status = "failed"
    BY <1>11, <2>0 DEF TypeInv, TypeOK, ConfirmClaims
  <2> QED
    BY <1>11, <2>1, <2>2, GmailKept DEF ConfirmClaims, Requests
<1>12. ASSUME NEW c \in Calls, ProviderUnavailable(c)
       PROVE  GmailInv'
  <2>1. /\ calls'[c].pc = "store" /\ calls'[c].draft = calls[c].draft
        /\ \A o \in Calls \ {c} : calls'[o] = calls[o]
    BY <1>12 DEF TypeInv, TypeOK, Call, ProviderUnavailable
  <2>2. \A r \in Requests : r.draft # calls[c].draft
    BY <1>12 DEF ProviderUnavailable, SendInv, RequestInv, Unsent
  <2> QED
    BY <1>12, <2>1, <2>2, GmailMoved DEF ProviderUnavailable
<1>13. ASSUME NEW c \in Calls, ProviderCalled(c)
       PROVE  GmailInv'
  <2>1. /\ calls'[c].pc = "await" /\ RequestOf(c)' = RequestOf(c)
        /\ calls'[c].draft = calls[c].draft
        /\ \A o \in Calls \ {c} : calls'[o] = calls[o] /\ RequestOf(o)' = RequestOf(o)
    BY <1>13 DEF TypeInv, TypeOK, Call, ProviderCalled, Go, RequestOf
  <2>2. /\ Requests' = Requests \cup {RequestOf(c)} /\ UNCHANGED <<drafts, receipts>>
        /\ RequestOf(c).draft = calls[c].draft
    BY <1>13 DEF ProviderCalled, Requests, RequestOf
  <2>3. /\ \A r \in Requests : r.draft # calls[c].draft
        /\ drafts[calls[c].draft].status = "sending"
        /\ \A o \in Calls \ {c} : Attempting(o) => calls[o].draft # calls[c].draft
    BY <1>13 DEF ProviderCalled, SendInv, RequestInv, AttemptInv, Attempting,
                 AttemptPoints, Unsent
  <2>4. GmailFailureIsReal'
    BY <2>2, <2>3 DEF GmailInv, GmailFailureIsReal
  <2>5. ASSUME NEW o \in Calls, NEW r \in Requests', r.draft = calls'[o].draft
        PROVE  /\ calls'[o].pc = "await" => r = RequestOf(o)'
               /\ calls'[o].pc = "store" /\ ChannelOf[r.draft] = "gmail"
                    => calls'[o].to # "failed"
    <3>1. CASE o = c
      BY <2>1, <2>2, <2>3, <2>5, <3>1
    <3>2. CASE o # c
      BY <2>1, <2>2, <2>3, <2>5, <3>2 DEF GmailInv, Attempting, AttemptPoints
    <3> QED
      BY <3>1, <3>2
  <2> QED
    BY <2>4, <2>5 DEF GmailInv
<1>14. ASSUME NEW c \in Calls, ProviderAnswers(c)
       PROVE  GmailInv'
  <2>1. /\ calls'[c].pc = "store" /\ calls'[c].draft = calls[c].draft
        /\ calls'[c].to = AnswerOf(c)
        /\ \A o \in Calls \ {c} : calls'[o] = calls[o]
    BY <1>14 DEF TypeInv, TypeOK, Call, ProviderAnswers
  <2>2. \A r \in Requests : r.draft = calls[c].draft => r \in accepted /\ r = RequestOf(c)
    BY <1>14 DEF ProviderAnswers, GmailInv, Requests
  <2>3. \A r \in Requests : r.draft = calls[c].draft => AnswerOf(c) # "failed"
    BY <2>2 DEF AnswerOf
  <2> QED
    BY <1>14, <2>1, <2>3, GmailMoved DEF ProviderAnswers
<1>15. ASSUME NEW c \in Calls, AnswerLost(c)
       PROVE  GmailInv'
  <2>1. /\ calls'[c].pc = "store" /\ calls'[c].draft = calls[c].draft
        /\ calls'[c].to = LostAnswerIs(calls[c].draft)
        /\ \A o \in Calls \ {c} : calls'[o] = calls[o]
    BY <1>15 DEF TypeInv, TypeOK, Call, AnswerLost
  <2>2. ChannelOf[calls[c].draft] = "gmail" => calls'[c].to # "failed"
    BY <2>1 DEF LostAnswerIs
  <2> QED
    BY <1>15, <2>1, <2>2, GmailMoved DEF AnswerLost
<1>16. ASSUME NEW c \in Calls, StoreResult(c)
       PROVE  GmailInv'
  <2>1. \A o \in Calls : calls'[o] = calls[o] \/ calls'[o].pc \notin {"await", "store"}
    BY <1>16 DEF TypeInv, TypeOK, StoreResult, Return, Idle
  <2>2. \A e \in Drafts : drafts'[e].status = "failed" =>
          drafts[e].status = "failed" \/ (e = calls[c].draft /\ calls[c].to = "failed")
    BY <1>16, TransitionEffect DEF StoreResult
  <2>3. ChannelOf[calls[c].draft] = "gmail" /\ calls[c].to = "failed" =>
          \A r \in Requests : r.draft # calls[c].draft
    BY <1>16 DEF StoreResult, GmailInv
  <2> QED
    BY <1>16, <2>1, <2>2, <2>3, GmailKept DEF StoreResult, Requests
<1>17. ASSUME NEW c \in Calls, CallFails(c)
       PROVE  GmailInv'
  <2>1. \A o \in Calls : calls'[o] = calls[o] \/ calls'[o].pc \notin {"await", "store"}
    BY <1>17 DEF TypeInv, TypeOK, CallFails, Return, Idle
  <2> QED
    BY <1>0, <1>17, <2>1 DEF CallFails
<1>18. ASSUME NEW t \in Tokens, TokenExpires(t)
       PROVE  GmailInv'
  BY <1>0, <1>18 DEF TokenExpires
<1>19. ASSUME NEW r \in wire, ProviderDecides(r)
       PROVE  GmailInv'
  <2>1. Requests' \subseteq Requests
    BY <1>19 DEF ProviderDecides, Requests
  <2> QED
    BY <1>19, <2>1, GmailKept DEF ProviderDecides
<1>20. ASSUME NEW d \in Drafts, LeaseExpires(d)
       PROVE  GmailInv'
  <2>1. \A e \in Drafts : drafts'[e].status = drafts[e].status
    BY <1>20 DEF TypeInv, TypeOK, DraftRow, LeaseExpires
  <2> QED
    BY <1>20, <2>1, GmailKept DEF LeaseExpires, Requests
<1>21. ASSUME NEW d \in Drafts, NEW s \in ReceiptStatuses, Receipt(d, s)
       PROVE  GmailInv'
  <2>1. \A e \in Drafts : receipts'[e] = {} =>
          receipts[e] = {} /\ drafts'[e].status = drafts[e].status
    BY <1>21 DEF TypeInv, TypeOK, Receipt
  <2> QED
    BY <1>21, <2>1, GmailKept DEF Receipt, Requests
<1>22. ASSUME Restart
       PROVE  GmailInv'
  <2>1. \A o \in Calls : calls'[o].pc \notin {"await", "store"}
    BY <1>22 DEF Restart, Idle
  <2>2. ASSUME NEW e \in Drafts
        PROVE  drafts'[e].status = "failed" => drafts[e].status = "failed"
    <3>1. drafts[e] \in DraftRow
      BY DEF TypeInv, TypeOK
    <3> QED
      BY <1>22, <3>1 DEF Restart, DraftRow
  <2> QED
    BY <1>22, <2>1, <2>2, GmailKept DEF Restart, Requests
<1>23. CASE UNCHANGED vars
  BY <1>0, <1>23 DEF vars
<1> QED
  BY <1>1, <1>2, <1>3, <1>4, <1>5, <1>6, <1>7, <1>8, <1>9, <1>10, <1>11, <1>12,
     <1>13, <1>14, <1>15, <1>16, <1>17, <1>18, <1>19, <1>20, <1>21, <1>22, <1>23
     DEF Next

-----------------------------------------------------------------------------
(* The theorems.                                                           *)

\* No edit has been answered initially.
LEMMA AnsweredInit ==
  Init => AnsweredInv
  BY DEF Init, AnsweredInv, AnsweredBy, Idle

\* The invariant of answered edits holds in every reachable state.
THEOREM AnsweredInvariant == Spec => []AnsweredInv
<1>1. TypeInv /\ TypeInv' /\ SendInv /\ AnsweredInv /\ [Next]_vars => AnsweredInv'
  BY AnsweredStep
<1> QED
  BY AnsweredInit, TypeInvariant, SendInvariant, <1>1, PTL DEF Spec

\* A cancelled draft stays cancelled; one with an outcome never loses it for a
\* status from which it could be edited or sent.
THEOREM OutcomeStays == Spec => OutcomeIsFinal
<1> DEFINE Final(d) == /\ drafts[d].status = "cancelled" => drafts'[d].status = "cancelled"
                       /\ drafts[d].status \in Outcomes => drafts'[d].status \in Outcomes
<1>1. TypeInv /\ SendInv /\ AnsweredInv /\ [Next]_vars => [\A d \in Drafts : Final(d)]_vars
  <2> SUFFICES ASSUME TypeInv, SendInv, AnsweredInv, [Next]_vars, NEW d \in Drafts
               PROVE  Final(d)
    OBVIOUS
  <2>1. StatusMove(d)
    BY StatusMoves
  <2> QED
    BY <2>1, StatusFacts DEF StatusMove
<1> QED
  BY TypeInvariant, SendInvariant, AnsweredInvariant, <1>1, PTL DEF Spec, OutcomeIsFinal

\* Once an edit has been answered, only a token issued for that revision or a
\* later one can have the draft sent.
THEOREM AnsweredRespected == Spec => AnsweredEditIsRespected
<1> DEFINE Respected(d) ==
      drafts[d].status = "draft" /\ drafts'[d].status = "sending"
      => \E t \in Tokens : /\ tokens[t].draft = d
                           /\ tokens[t].state = "valid"
                           /\ tokens'[t].state = "consumed"
                           /\ tokens[t].revision >= answered[d]
<1>1. TypeInv /\ SendInv /\ AnsweredInv /\ [Next]_vars
      => [\A d \in Drafts : Respected(d)]_vars
  <2> SUFFICES ASSUME TypeInv, SendInv, AnsweredInv, [Next]_vars, NEW d \in Drafts,
                      drafts[d].status = "draft", drafts'[d].status = "sending"
               PROVE  \E t \in Tokens : /\ tokens[t].draft = d
                                        /\ tokens[t].state = "valid"
                                        /\ tokens'[t].state = "consumed"
                                        /\ tokens[t].revision >= answered[d]
    OBVIOUS
  <2>1. StatusMove(d)
    BY StatusMoves
  <2>2. PICK c \in Calls : calls[c].draft = d /\ Claimable(calls[c]) /\ ConfirmClaims(c)
    BY <2>1, StatusFacts DEF StatusMove
  <2> DEFINE t == calls[c].token
  <2>3. /\ t \in Tokens /\ calls[c].pc = "claim"
        /\ tokens[t] \in TokenRow /\ tokens[t].state = "valid"
    BY <2>2 DEF TypeInv, TypeOK, CallOK, CallFits, ConfirmClaims, Claimable
  <2>4. tokens[t].draft = d /\ tokens[t].revision >= answered[d]
    BY <2>2, <2>3 DEF AnsweredInv, AnsweredBy
  <2>5. tokens'[t].state = "consumed"
    BY <2>2, <2>3 DEF ConfirmClaims, TokenRow
  <2> QED
    BY <2>3, <2>4, <2>5
<1> QED
  BY TypeInvariant, SendInvariant, AnsweredInvariant, <1>1, PTL
     DEF Spec, AnsweredEditIsRespected

\* No request exists initially.
LEMMA GmailInit ==
  Init => GmailInv
  BY DEF Init, GmailInv, GmailFailureIsReal, Requests

\* The invariant of Gmail failures holds in every reachable state.
THEOREM GmailInvariant == Spec => []GmailInv
<1>1. TypeInv /\ SendInv /\ GmailInv /\ [Next]_vars => GmailInv'
  BY GmailStep
<1> QED
  BY GmailInit, TypeInvariant, SendInvariant, <1>1, PTL DEF Spec

\* A Gmail draft stored as failed, with no receipt that says so, has no request
\* that was carried out or is still under way, whatever answers were lost.
THEOREM GmailFailuresAreReal == Spec => []GmailFailureIsReal
<1>1. GmailInv => GmailFailureIsReal
  BY DEF GmailInv
<1> QED
  BY GmailInvariant, <1>1, PTL

=============================================================================
