-------------------------- MODULE AssistantOutbound --------------------------
(***************************************************************************)
(* Messages Nomi sends in its own name (runtime_api/app/assistant_identity *)
(* outbound.py and outbound_repository.py): drafts, the one-time tokens    *)
(* that confirm them, the call to the provider, and what is recorded of    *)
(* its outcome.  runtime-api runs the handlers in one process, each on a   *)
(* thread of its own, over Postgres.                                       *)
(*                                                                         *)
(* Grain.  One action is one database transaction or one half of the       *)
(* provider exchange.  Reads that only decide together are one action when *)
(* a later compare-and-swap makes the difference invisible: the draft and  *)
(* the drafts the policy compares it with, the draft and the token it is   *)
(* confirmed by.  The second read of a confirmed draft is kept apart.      *)
(*                                                                         *)
(* A content stands for what the confirmation hash covers of subject and   *)
(* body; equal contents are the ones the near-duplicate ratio matches.     *)
(* Recipient, channel and idempotency key never change after preparation.  *)
(* The day of the quotas and the duplicate window does not end, and every  *)
(* call is made as "local_owner", as the endpoints make it.                *)
(*                                                                         *)
(* Bound: MaxRevision, the revision from which a draft is edited no more.  *)
(***************************************************************************)
EXTENDS Integers, FiniteSets

CONSTANTS
  Drafts, Contents, Tokens,
  Calls,                      \* threads that serve requests
  ChannelOf, RecipientOf,     \* of a draft
  KeyOf, NoKey,               \* idempotency key of a draft, or none
  ContactLimit, ChannelLimit, DailyLimit,
  MaxRevision,
  NoDraft, NoContent, NoToken

ASSUME OutboundAssumption ==
  /\ ContactLimit \in Nat \ {0} /\ ChannelLimit \in Nat \ {0}
  /\ DailyLimit \in Nat \ {0} /\ MaxRevision \in Nat
  /\ NoDraft \notin Drafts /\ NoContent \notin Contents /\ NoToken \notin Tokens

VARIABLES
  drafts,     \* assistant_message_drafts; "absent" before the row
  messages,   \* assistant_outbound_messages: status, and whether it has a provider id
  tokens,     \* assistant_outbound_confirmations
  calls,      \* what each thread is doing, with what it read
  wire,       \* requests the provider has not decided
  accepted,   \* requests the provider has carried out
  receipts,   \* assistant_delivery_receipts of a draft
  answered    \* latest revision made by an edit whose caller has its answer

vars == <<drafts, messages, tokens, calls, wire, accepted, receipts, answered>>

ReceiptStatuses == {"delivered", "read", "failed", "rejected"}
Outcomes == {"sent", "call_queued", "delivery_unknown"} \cup ReceiptStatuses
Statuses == {"absent", "draft", "blocked", "cancelled", "sending"} \cup Outcomes

ProgramPoints == {"idle", "prepare", "edit", "cancel", "invalidate", "issue",
                  "confirm", "claim", "provider", "await", "store"}

\* What a thread knows: the status and revision it read and expects to find,
\* the content and status it is going to write, the token it was given.
Call == [pc : ProgramPoints, draft : Drafts \cup {NoDraft},
         token : Tokens \cup {NoToken}, revision : Nat,
         content : Contents \cup {NoContent},
         from : Statuses, to : Statuses, expired : BOOLEAN]

Request == [draft : Drafts, revision : Nat, content : Contents \cup {NoContent},
            token : Tokens, by : Calls]

DraftRow == [status : Statuses, revision : Nat,
             content : Contents \cup {NoContent}, leased : BOOLEAN]
MessageRow == [status : Statuses, id : BOOLEAN]
TokenRow == [state : {"unissued", "valid", "invalidated", "consumed"},
             draft : Drafts \cup {NoDraft}, revision : Nat,
             content : Contents \cup {NoContent}, expired : BOOLEAN]

Idle == [pc |-> "idle", draft |-> NoDraft, token |-> NoToken, revision |-> 0,
         content |-> NoContent, from |-> "absent", to |-> "absent",
         expired |-> FALSE]

Begin(c, call) == calls[c].pc = "idle" /\ calls' = [calls EXCEPT ![c] = call]
Go(c, p) == calls' = [calls EXCEPT ![c].pc = p]
Return(c) == calls' = [calls EXCEPT ![c] = Idle]

Init ==
  /\ drafts = [d \in Drafts |-> [status |-> "absent", revision |-> 0,
                                 content |-> NoContent, leased |-> FALSE]]
  /\ messages = [d \in Drafts |-> [status |-> "absent", id |-> FALSE]]
  /\ tokens = [t \in Tokens |-> [state |-> "unissued", draft |-> NoDraft,
                                 revision |-> 0, content |-> NoContent,
                                 expired |-> FALSE]]
  /\ calls = [c \in Calls |-> Idle]
  /\ wire = {} /\ accepted = {}
  /\ receipts = [d \in Drafts |-> {}]
  /\ answered = [d \in Drafts |-> 0]

-----------------------------------------------------------------------------
(* Policy.                                                                 *)

ActiveStatuses == {"draft", "sending", "sent", "call_queued", "delivery_unknown"}

NearDuplicate(d, x) ==
  \E e \in Drafts \ {d} :
    /\ drafts[e].status \in ActiveStatuses
    /\ ChannelOf[e] = ChannelOf[d]
    /\ RecipientOf[e] = RecipientOf[d]
    /\ drafts[e].content = x

SentToday == {e \in Drafts : drafts[e].status \in {"sent", "call_queued"}}

QuotaExceeded(d) ==
  LET onChannel == {e \in SentToday : ChannelOf[e] = ChannelOf[d]}
      toContact == {e \in onChannel : RecipientOf[e] = RecipientOf[d]}
  IN  \/ Cardinality(toContact) >= ContactLimit
      \/ Cardinality(onChannel) >= ChannelLimit
      \/ Cardinality(SentToday) >= DailyLimit

\* The status the policy gives draft d with content x.
PolicyStatus(d, x) ==
  IF NearDuplicate(d, x) \/ QuotaExceeded(d) THEN "blocked" ELSE "draft"

-----------------------------------------------------------------------------
(* The compare-and-swap every change of a stored draft goes through: the   *)
(* draft still has the status and the revision that call k read.           *)

\* Mutant of Current: the transition is a plain UPDATE of the draft.
AlwaysCurrent(k) == TRUE

Current(k) ==
  /\ drafts[k.draft].status = k.from
  /\ drafts[k.draft].revision = k.revision

\* Row d after a transition of call k.
Transition(k) ==
  drafts' = [drafts EXCEPT ![k.draft] =
              [@ EXCEPT !.status = k.to, !.revision = k.revision + 1,
                        !.content = k.content]]

\* The upsert that goes with it once the draft has been handed to a provider.
RecordMessage(d, s, id) ==
  messages' = [messages EXCEPT ![d] = [status |-> s, id |-> id]]

InvalidateTokens(d, but) ==
  tokens' = [t \in Tokens |->
              IF t # but /\ tokens[t].draft = d /\ tokens[t].state = "valid"
              THEN [tokens[t] EXCEPT !.state = "invalidated"] ELSE tokens[t]]

-----------------------------------------------------------------------------
(* prepare_draft.                                                          *)

KeyTaken(d) ==
  /\ KeyOf[d] # NoKey
  /\ \E e \in Drafts \ {d} : drafts[e].status # "absent" /\ KeyOf[e] = KeyOf[d]

\* A new draft id, no draft under its key, and the verdict of the policy.
PrepareReads(c, d, x) ==
  /\ drafts[d].status = "absent"
  /\ \A o \in Calls : ~(calls[o].pc = "prepare" /\ calls[o].draft = d)
  /\ ~KeyTaken(d)
  /\ Begin(c, [Idle EXCEPT !.pc = "prepare", !.draft = d, !.content = x,
                           !.to = PolicyStatus(d, x)])
  /\ UNCHANGED <<drafts, messages, tokens, wire, accepted, receipts, answered>>

\* save_draft, which looks the key up again under its advisory lock.
PrepareSaves(c) ==
  LET k == calls[c] IN
  /\ k.pc = "prepare"
  /\ IF KeyTaken(k.draft) THEN UNCHANGED drafts ELSE Transition(k)
  /\ Return(c)
  /\ UNCHANGED <<messages, tokens, wire, accepted, receipts, answered>>

(* edit_draft and cancel_draft: read, compare-and-swap, then a transaction *)
(* of its own that invalidates the tokens of the draft.                    *)

Editable(d) == drafts[d].status \in {"draft", "blocked"}

EditReads(c, d, x) ==
  /\ Editable(d) /\ drafts[d].revision < MaxRevision
  /\ Begin(c, [Idle EXCEPT !.pc = "edit", !.draft = d, !.content = x,
                           !.revision = drafts[d].revision,
                           !.from = drafts[d].status, !.to = PolicyStatus(d, x)])
  /\ UNCHANGED <<drafts, messages, tokens, wire, accepted, receipts, answered>>

CancelReads(c, d) ==
  /\ Editable(d)
  /\ Begin(c, [Idle EXCEPT !.pc = "cancel", !.draft = d,
                           !.content = drafts[d].content,
                           !.revision = drafts[d].revision,
                           !.from = drafts[d].status, !.to = "cancelled"])
  /\ UNCHANGED <<drafts, messages, tokens, wire, accepted, receipts, answered>>

\* cancel_draft leaves call_called as it is, so cancelling a call the adapter
\* refused also rewrites the row of the message, unless an edit cleared it.
RowOfCancelled(k) ==
  /\ k.pc = "cancel" /\ messages[k.draft].status = "blocked"
  /\ ChannelOf[k.draft] = "phone_call"
  /\ RecordMessage(k.draft, "cancelled", FALSE)

\* The transition of either; a lost race is a PermissionError.
ChangeSaves(c) ==
  LET k == calls[c] IN
  /\ k.pc \in {"edit", "cancel"}
  /\ \/ /\ Current(k) /\ Transition(k) /\ Go(c, "invalidate")
        /\ RowOfCancelled(k) \/ UNCHANGED messages
     \/ ~Current(k) /\ UNCHANGED <<drafts, messages>> /\ Return(c)
  /\ UNCHANGED <<tokens, wire, accepted, receipts, answered>>

\* _invalidate_confirmations, and the answer to the caller.
ChangeInvalidates(c) ==
  LET k == calls[c] IN
  /\ k.pc = "invalidate"
  /\ InvalidateTokens(k.draft, NoToken)
  /\ answered' = [answered EXCEPT ![k.draft] =
                    IF @ > k.revision THEN @ ELSE k.revision + 1]
  /\ Return(c)
  /\ UNCHANGED <<drafts, messages, wire, accepted, receipts>>

-----------------------------------------------------------------------------
(* issue_confirmation.                                                     *)

IssueReads(c, d) ==
  /\ drafts[d].status = "draft"
  /\ Begin(c, [Idle EXCEPT !.pc = "issue", !.draft = d,
                           !.content = drafts[d].content,
                           !.revision = drafts[d].revision])
  /\ UNCHANGED <<drafts, messages, tokens, wire, accepted, receipts, answered>>

IssueSaves(c, t) ==
  LET k == calls[c] IN
  /\ k.pc = "issue" /\ tokens[t].state = "unissued"
  /\ tokens' = [tokens EXCEPT ![t] =
                  [state |-> "valid", draft |-> k.draft, revision |-> k.revision,
                   content |-> k.content, expired |-> FALSE]]
  /\ Return(c)
  /\ UNCHANGED <<drafts, messages, wire, accepted, receipts, answered>>

TokenExpires(t) ==
  /\ tokens[t].state # "unissued" /\ ~tokens[t].expired
  /\ tokens' = [tokens EXCEPT ![t].expired = TRUE]
  /\ UNCHANGED <<drafts, messages, calls, wire, accepted, receipts, answered>>

-----------------------------------------------------------------------------
(* confirm_and_send and confirm_and_call.                                  *)

\* _validate_confirmation: the token is alive and its hash is the draft's.
Validates(t, d) ==
  /\ tokens[t].state # "invalidated" /\ ~tokens[t].expired
  /\ tokens[t].revision = drafts[d].revision
  /\ tokens[t].content = drafts[d].content

ConfirmValidates(c, t) ==
  LET d == tokens[t].draft IN
  /\ tokens[t].state # "unissued"
  /\ drafts[d].status = "draft" /\ Validates(t, d)
  /\ Begin(c, [Idle EXCEPT !.pc = "confirm", !.draft = d, !.token = t])
  /\ UNCHANGED <<drafts, messages, tokens, wire, accepted, receipts, answered>>

\* The draft is read once more: this is what will be claimed and sent.
ConfirmRereads(c) ==
  LET k == calls[c]
      d == k.draft
  IN
  /\ k.pc = "confirm"
  /\ calls' = [calls EXCEPT ![c] = [k EXCEPT !.pc = "claim",
                 !.revision = drafts[d].revision, !.content = drafts[d].content,
                 !.from = "draft", !.to = "sending",
                 !.expired = tokens[k.token].expired]]
  /\ UNCHANGED <<drafts, messages, tokens, wire, accepted, receipts, answered>>

\* Mutant of Claimable: the claim looks at the expiry and the draft only.
ClaimableByDraft(k) == ~k.expired /\ Current(k)

Claimable(k) ==
  /\ tokens[k.token].state = "valid" /\ ~k.expired
  /\ Current(k)

\* claim_confirmation_and_transition_draft, one transaction.
ConfirmClaims(c) ==
  LET k == calls[c]
      d == k.draft
      consumed == [tokens[k.token] EXCEPT !.state = "consumed"]
  IN
  /\ k.pc = "claim"
  /\ IF Claimable(k)
     THEN /\ drafts' = [drafts EXCEPT ![d] =
                          [status |-> "sending", revision |-> k.revision + 1,
                           content |-> k.content, leased |-> TRUE]]
          /\ tokens' = [t \in Tokens |->
               IF t = k.token THEN consumed
               ELSE IF tokens[t].draft = d /\ tokens[t].state = "valid"
                    THEN [tokens[t] EXCEPT !.state = "invalidated"]
                    ELSE tokens[t]]
          /\ messages' = [messages EXCEPT ![d].status = "sending"]
          /\ calls' = [calls EXCEPT ![c] = [k EXCEPT !.pc = "provider",
                         !.revision = k.revision + 1, !.from = "sending"]]
     ELSE UNCHANGED <<drafts, tokens, messages>> /\ Return(c)
  /\ UNCHANGED <<wire, accepted, receipts, answered>>

\* The adapter returns without a request: it is not configured, its identity
\* is not verified, the endpoint is of the wrong channel, there is no SDK.
ProviderUnavailable(c) ==
  /\ calls[c].pc = "provider"
  /\ \E s \in {"blocked", "failed"} :
       calls' = [calls EXCEPT ![c].pc = "store", ![c].to = s]
  /\ UNCHANGED <<drafts, messages, tokens, wire, accepted, receipts, answered>>

RequestOf(c) == [draft |-> calls[c].draft, revision |-> calls[c].revision,
                 content |-> calls[c].content, token |-> calls[c].token, by |-> c]

ProviderCalled(c) ==
  /\ calls[c].pc = "provider"
  /\ wire' = wire \cup {RequestOf(c)}
  /\ Go(c, "await")
  /\ UNCHANGED <<drafts, messages, tokens, accepted, receipts, answered>>

\* The provider carries a request out, or it refuses or never sees it.
ProviderDecides(r) ==
  /\ r \in wire
  /\ wire' = wire \ {r}
  /\ accepted' \in {accepted, accepted \cup {r}}
  /\ UNCHANGED <<drafts, messages, tokens, calls, receipts, answered>>

AnswerOf(c) ==
  IF RequestOf(c) \notin accepted THEN "failed"
  ELSE IF ChannelOf[calls[c].draft] = "phone_call" THEN "call_queued" ELSE "sent"

ProviderAnswers(c) ==
  /\ calls[c].pc = "await" /\ RequestOf(c) \notin wire
  /\ calls' = [calls EXCEPT ![c].pc = "store", ![c].to = AnswerOf(c)]
  /\ UNCHANGED <<drafts, messages, tokens, wire, accepted, receipts, answered>>

\* Mutants of LostAnswerIs: an expired exchange reopens the draft instead of
\* leaving it for review; every adapter reports an exception as a failure.
LostAnswerReopens(d) == "blocked"
LostAnswerFails(d) == "failed"

\* What an exchange that ends in an exception is recorded as: the Gmail
\* adapter leaves it open, the HTTP adapters call every error a failure.
LostAnswerIs(d) == IF ChannelOf[d] = "gmail" THEN "delivery_unknown" ELSE "failed"

AnswerLost(c) ==
  /\ calls[c].pc = "await"
  /\ calls' = [calls EXCEPT ![c].pc = "store", ![c].to = LostAnswerIs(calls[c].draft)]
  /\ UNCHANGED <<drafts, messages, tokens, wire, accepted, receipts, answered>>

StoreResult(c) ==
  LET k == calls[c] IN
  /\ k.pc = "store"
  /\ IF Current(k)
     THEN /\ Transition(k)
          /\ RecordMessage(k.draft, k.to, k.to \in {"sent", "call_queued"})
     ELSE UNCHANGED <<drafts, messages>>
  /\ Return(c)
  /\ UNCHANGED <<tokens, wire, accepted, receipts, answered>>

-----------------------------------------------------------------------------
(* Receipts, failures, restart.                                            *)

\* record_delivery_receipt: found by the provider's id, written as it comes.
Receipt(d, s) ==
  /\ messages[d].id
  /\ drafts' = [drafts EXCEPT ![d].status = s]
  /\ messages' = [messages EXCEPT ![d].status = s]
  /\ receipts' = [receipts EXCEPT ![d] = @ \cup {s}]
  /\ UNCHANGED <<tokens, calls, wire, accepted, answered>>

\* A database call of the handler raises: the request ends in an error.
CallFails(c) ==
  /\ calls[c].pc # "idle"
  /\ Return(c)
  /\ UNCHANGED <<drafts, messages, tokens, wire, accepted, receipts, answered>>

LeaseExpires(d) ==
  /\ drafts[d].status = "sending" /\ drafts[d].leased
  /\ drafts' = [drafts EXCEPT ![d].leased = FALSE]
  /\ UNCHANGED <<messages, tokens, calls, wire, accepted, receipts, answered>>

Stale(d) == drafts[d].status = "sending" /\ ~drafts[d].leased

\* The process dies and starts again: reconcile_stale_attempts runs before
\* it serves a request, and nowhere else.
Restart ==
  /\ calls' = [c \in Calls |-> Idle]
  /\ drafts' = [d \in Drafts |->
       IF Stale(d) THEN [drafts[d] EXCEPT !.status = "delivery_unknown",
                                          !.revision = @ + 1]
                   ELSE drafts[d]]
  /\ messages' = [d \in Drafts |->
       IF Stale(d) THEN [status |-> "delivery_unknown", id |-> FALSE]
                   ELSE messages[d]]
  /\ UNCHANGED <<tokens, wire, accepted, receipts, answered>>

Next ==
  \/ \E c \in Calls :
       \/ \E d \in Drafts, x \in Contents : PrepareReads(c, d, x) \/ EditReads(c, d, x)
       \/ \E d \in Drafts : CancelReads(c, d) \/ IssueReads(c, d)
       \/ \E t \in Tokens : IssueSaves(c, t) \/ ConfirmValidates(c, t)
       \/ PrepareSaves(c) \/ ChangeSaves(c) \/ ChangeInvalidates(c)
       \/ ConfirmRereads(c) \/ ConfirmClaims(c)
       \/ ProviderUnavailable(c) \/ ProviderCalled(c)
       \/ ProviderAnswers(c) \/ AnswerLost(c) \/ StoreResult(c) \/ CallFails(c)
  \/ \E t \in Tokens : TokenExpires(t)
  \/ \E r \in wire : ProviderDecides(r)
  \/ \E d \in Drafts : LeaseExpires(d) \/ \E s \in ReceiptStatuses : Receipt(d, s)
  \/ Restart

Spec == Init /\ [][Next]_vars

-----------------------------------------------------------------------------
(* Types and the inductive invariant.                                      *)

\* Every variable keeps its type.
TypeOK ==
  /\ drafts \in [Drafts -> DraftRow]
  /\ messages \in [Drafts -> MessageRow]
  /\ tokens \in [Tokens -> TokenRow]
  /\ calls \in [Calls -> Call]
  /\ wire \subseteq Request /\ accepted \subseteq Request
  /\ receipts \in [Drafts -> SUBSET ReceiptStatuses]
  /\ answered \in [Drafts -> Nat]

Requests == wire \cup accepted

AttemptPoints == {"provider", "await", "store"}

\* A thread that has claimed a draft and not yet recorded the outcome.
Attempting(c) == calls[c].pc \in AttemptPoints

\* An attempt that has not reached the provider, or that did not need to.
Unsent(c) == calls[c].pc = "provider" \/ (calls[c].pc = "store" /\ calls[c].to = "blocked")

\* What a thread carries fits the point it has reached.
CallFits(k) ==
  /\ k.pc # "idle" => k.draft \in Drafts
  /\ k.pc \in {"prepare", "edit"} => k.to \in {"draft", "blocked"}
  /\ k.pc = "cancel" => k.to = "cancelled"
  /\ k.pc \in {"edit", "cancel"} => k.from \in {"draft", "blocked"}
  /\ k.pc \in {"confirm", "claim"} \cup AttemptPoints => k.token \in Tokens
  /\ k.pc = "claim" => k.from = "draft"
  /\ k.pc \in AttemptPoints => k.from = "sending"
  /\ k.pc = "store" => k.to \in {"blocked"} \cup Outcomes

CallOK == \A c \in Calls : CallFits(calls[c])

TokenOK == \A t \in Tokens : tokens[t].state # "unissued" => tokens[t].draft \in Drafts

TypeInv == TypeOK /\ CallOK /\ TokenOK

\* A draft id is new until its only preparer has saved it.
PrepareInv ==
  \A c \in Calls : calls[c].pc = "prepare" =>
    /\ drafts[calls[c].draft].status = "absent"
    /\ \A o \in Calls : calls[o].pc = "prepare" /\ calls[o].draft = calls[c].draft => o = c

\* An attempt is the only one on its draft, which is "sending" until it ends.
AttemptInv ==
  \A c \in Calls : Attempting(c) =>
    /\ drafts[calls[c].draft].status = "sending"
    /\ \A o \in Calls : Attempting(o) /\ calls[o].draft = calls[c].draft => o = c

\* A draft with a request is never open again, and an attempt that has not
\* reached the provider is the first of its draft.
RequestInv ==
  /\ \A r \in Requests : drafts[r.draft].status \in {"sending"} \cup Outcomes
  /\ \A c \in Calls, r \in Requests : Unsent(c) => r.draft # calls[c].draft

\* Only a draft with an outcome can be found by a receipt.
ReceiptInv == \A d \in Drafts : messages[d].id => drafts[d].status \in Outcomes

-----------------------------------------------------------------------------
(* Properties.                                                             *)

\* However many surfaces confirm a draft, with however many tokens, whatever
\* fails, times out, is reconciled or is confirmed again after a refusal of
\* the adapter, at most one request of it ever leaves for the provider.
AtMostOneSend ==
  \A r, s \in Requests : r.draft = s.draft => r = s

\* A draft that was cancelled has not been sent and never will be.
CancelledIsNotSent ==
  \A r \in Requests : drafts[r.draft].status # "cancelled"

\* A draft stored as failed on the Gmail channel, without a receipt that says
\* so, was not carried out and is not under way: the owner may write it again.
GmailFailureIsReal ==
  \A r \in Requests :
    /\ ChannelOf[r.draft] = "gmail" /\ receipts[r.draft] = {}
    => drafts[r.draft].status # "failed"

\* Once the owner has the answer to an edit, no token issued for an earlier
\* revision gets the draft sent, even if it had been validated before.
AnsweredEditIsRespected ==
  [][\A d \in Drafts :
       drafts[d].status = "draft" /\ drafts'[d].status = "sending"
       => \E t \in Tokens : /\ tokens[t].draft = d
                            /\ tokens[t].state = "valid"
                            /\ tokens'[t].state = "consumed"
                            /\ tokens[t].revision >= answered[d]]_vars

\* A cancelled draft stays cancelled, and one with an outcome is never open
\* for editing or sent again, whatever late writes and receipts arrive.
OutcomeIsFinal ==
  [][\A d \in Drafts :
       /\ drafts[d].status = "cancelled" => drafts'[d].status = "cancelled"
       /\ drafts[d].status \in Outcomes => drafts'[d].status \in Outcomes]_vars

\* What makes the sends safe: the inductive invariant.
SendInv == PrepareInv /\ AttemptInv /\ RequestInv /\ ReceiptInv /\ AtMostOneSend

\* The counterpart for answered edits: revisions an edit has answered for exist,
\* and a token that was validated and is still valid is not older than they are.
AnsweredBy(c) ==
  LET k == calls[c] IN
  /\ k.pc = "invalidate" => k.revision < drafts[k.draft].revision
  /\ k.pc \in {"confirm", "claim"} =>
       /\ tokens[k.token].draft = k.draft /\ tokens[k.token].state # "unissued"
       /\ tokens[k.token].state = "valid"
            => tokens[k.token].revision >= answered[k.draft]

AnsweredInv ==
  /\ \A d \in Drafts : /\ answered[d] <= drafts[d].revision
                       /\ drafts[d].status = "absent" => drafts[d].revision = 0
  /\ \A c \in Calls : AnsweredBy(c)

\* The counterpart for Gmail failures: the request of a draft whose answer a
\* thread awaits is that thread's, and a thread about to store a Gmail draft as
\* failed has made none.
GmailInv ==
  /\ GmailFailureIsReal
  /\ \A c \in Calls, r \in Requests : r.draft = calls[c].draft =>
       /\ calls[c].pc = "await" => r = RequestOf(c)
       /\ calls[c].pc = "store" /\ ChannelOf[r.draft] = "gmail" => calls[c].to # "failed"

\* What the identity design says of a confirmation: it is bound to the body,
\* so what is sent is what the token was issued for.
ConfirmedContentIsSent ==
  \A r \in Requests : r.content = tokens[r.token].content

=============================================================================
