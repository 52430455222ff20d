---------------------------- MODULE AssistantGmail ----------------------------
(***************************************************************************)
(* The Gmail identity of the assistant: its lifecycle (lifecycle.py,       *)
(* composio_gmail.py, registry.py), and the mail that is read in its name  *)
(* (gmail_sync.py and the loop in main.py).                                *)
(*                                                                         *)
(* Everything the identity is stands in one row with a version.  Every     *)
(* change reads the row in one transaction and saves it in another, which  *)
(* fails if the version is no longer the one that was read.  The version   *)
(* is not counted here: fresh has the calls that have read the row and     *)
(* since whose read nobody has saved it.  Between the two transactions of  *)
(* a change, and between the changes of one request, anything can come.    *)
(*                                                                         *)
(* Mail is either pushed to a subscription, a thread that may be dead, or  *)
(* fetched: every mail since the last sync less an overlap, or of the last *)
(* day if there was none.  Time is counted in units, from 1.               *)
(***************************************************************************)
EXTENDS Integers, FiniteSets

CONSTANTS
  Handlers,   \* requests that connect or verify, under way at the same time
  Loop,       \* assistant_gmail_inbound_sync_loop
  Mails,
  MaxBatch,   \* ASSISTANT_GMAIL_MAX_SYNC_BATCH
  Overlap,    \* the 60 seconds of assistant_gmail_incremental_query
  Day,        \* newer_than:1d
  MaxTime,    \* bound on the clock
  MaxFaults   \* bound on the failures of fetches, of inserts and of the process

ASSUME GmailAssumption ==
  /\ Loop \notin Handlers
  /\ MaxBatch \in Nat \ {0}
  /\ Overlap \in Nat \ {0}
  /\ Day \in Nat
  /\ MaxTime \in Nat \ {0}
  /\ MaxFaults \in Nat

Calls == Handlers \cup {Loop}

VARIABLES
  identity,   \* the row of assistant_identities
  pc,         \* pc[c]: what the call does next
  fresh,      \* the calls whose read of the row is still current
  time,       \* time[c]: last_sync_at as a sync has read it, 0 for none; when its
              \* fetch was answered; then, what it saves as last_sync_at
  batch,      \* batch[c]: what it has fetched and not yet inserted
  now,
  arrived,    \* arrived[m]: when the mail came to the account, 0 if it did not
  stored,     \* the mails in assistant_inbox_events
  skipped,    \* history: the mails a full batch has left out
  faults      \* the failures so far

rowVars == <<identity, fresh>>
syncVars == <<time, batch>>
mailVars == <<arrived, stored, skipped>>
clockVars == <<now, faults>>
vars == <<rowVars, pc, syncVars, mailVars, clockVars>>

\* "degraded" is a status too, but nothing calls mark_degraded.
Statuses == {"unconfigured", "authorization_pending", "verifying", "connected",
             "expired", "failed", "disabled"}

\* link: a connect link is outstanding (oauth_state_sha256); pinned: there is a
\* connected_account_id; mode, last: metadata.inbound.
Row == [status : Statuses, link : BOOLEAN, pinned : BOOLEAN,
        mode : {"none", "trigger", "sync"}, last : 0..MaxTime]

Stages ==
  {"idle", "link", "relink", "asking", "storing",
   "begin", "beginning", "lookup", "fail", "failing", "expire", "expiring",
   "pin", "pinning", "verified", "connecting",
   "configure", "resubscribe", "trigger", "subscribed", "subscribing",
   "fetch", "persist", "stamp", "stamping"}

TypeOK ==
  /\ identity \in Row
  /\ fresh \subseteq Calls
  /\ pc \in [Calls -> Stages]
  /\ time \in [Calls -> 0..MaxTime]
  /\ batch \in [Calls -> SUBSET Mails]
  /\ now \in 1..MaxTime
  /\ arrived \in [Mails -> 0..MaxTime]
  /\ stored \subseteq Mails
  /\ skipped \subseteq Mails
  /\ faults \in 0..MaxFaults

Init ==
  /\ identity = [status |-> "unconfigured", link |-> FALSE, pinned |-> FALSE,
                 mode |-> "none", last |-> 0]
  /\ fresh = {}
  /\ pc = [c \in Calls |-> "idle"]
  /\ time = [c \in Calls |-> 0]
  /\ batch = [c \in Calls |-> {}]
  /\ now = 1
  /\ arrived = [m \in Mails |-> 0]
  /\ stored = {}
  /\ skipped = {}
  /\ faults = 0

-----------------------------------------------------------------------------
(* One transaction each: a read of the row, and a save of what was read.    *)

Go(c, stage) == pc' = [pc EXCEPT ![c] = stage]

Elsewhere == UNCHANGED <<syncVars, mailVars, clockVars>>

\* The call reads the row and goes on if it is as it must be, and raises if not.
Reads(c, condition, stage) ==
  /\ Go(c, IF condition THEN stage ELSE "idle")
  /\ fresh' = IF condition THEN fresh \cup {c} ELSE fresh
  /\ UNCHANGED identity

\* Mutant: the version is not compared.
AlwaysCurrent(c) == TRUE

\* WHERE identity_id = ... AND version = ...
Current(c) == c \in fresh

\* The row as it was read, with the change; or AssistantIdentityVersionConflict.
Saves(c, row, stage) ==
  IF Current(c)
  THEN identity' = row /\ fresh' = {} /\ Go(c, stage)
  ELSE UNCHANGED rowVars /\ Go(c, "idle")

\* Mutant: a failed verification is marked by mark_degraded.
ToDegraded(status) ==
  [identity EXCEPT !.status = IF status = "failed" THEN "degraded" ELSE status]

To(status) == [identity EXCEPT !.status = status]

-----------------------------------------------------------------------------
(* The owner: pause, resume, disconnect, rename.                            *)

\* The read and the save of such a request are one action: if another save comes
\* between them this one fails, and the request has changed nothing.
OwnerSaves(row) ==
  /\ identity' = row
  /\ fresh' = {}
  /\ UNCHANGED pc
  /\ Elsewhere

Disables == identity.status # "disabled" /\ OwnerSaves(To("disabled"))

Enables == identity.status = "disabled" /\ OwnerSaves(To("verifying"))

\* The metadata stay as they are.
Disconnects == OwnerSaves(To("unconfigured"))

Renames == OwnerSaves(identity)

-----------------------------------------------------------------------------
(* A connect link.                                                          *)

\* The row is read, and the provider makes a link.  A connected identity stays
\* so, going by that read.
LinkReads(h) ==
  /\ pc[h] = "idle"
  /\ Go(h, IF identity.status = "connected" /\ identity.pinned THEN "relink" ELSE "link")
  /\ UNCHANGED rowVars
  /\ Elsewhere

LinkRefused(h) ==
  /\ pc[h] \in {"link", "relink"}
  /\ Go(h, "idle")
  /\ UNCHANGED rowVars
  /\ Elsewhere

AuthorizableFrom ==
  {"unconfigured", "authorization_pending", "expired", "failed", "connected"}

AsksForAuthorization(h) ==
  /\ \/ pc[h] = "link" /\ Reads(h, identity.status \in AuthorizableFrom, "asking")
     \/ pc[h] = "asking" /\ Saves(h, To("authorization_pending"), "relink")
  /\ Elsewhere

StoresLink(h) ==
  /\ \/ pc[h] = "relink" /\ Reads(h, TRUE, "storing")
     \/ pc[h] = "storing" /\ Saves(h, [identity EXCEPT !.link = TRUE], "idle")
  /\ Elsewhere

-----------------------------------------------------------------------------
(* The verification of an account: from the callback of a link, or again.   *)

\* What is not the latest link is refused and changes nothing.
CallbackReads(h) ==
  /\ pc[h] = "idle"
  /\ identity.link
  /\ Go(h, "begin") \/ Go(h, "fail")
  /\ UNCHANGED rowVars
  /\ Elsewhere

VerifyReads(h) ==
  /\ pc[h] = "idle"
  /\ identity.pinned
  /\ Go(h, "begin")
  /\ UNCHANGED rowVars
  /\ Elsewhere

VerifiableFrom == {"authorization_pending", "expired", "failed", "connected"}

BeginsVerification(h) ==
  /\ \/ pc[h] = "begin" /\ Reads(h, identity.status \in VerifiableFrom, "beginning")
     \/ pc[h] = "beginning" /\ Saves(h, To("verifying"), "lookup")
  /\ Elsewhere

\* The provider cannot be asked or has something to object to, the account is
\* expired or revoked, or it is active and has an address.
LooksUp(h) ==
  /\ pc[h] = "lookup"
  /\ Go(h, "fail") \/ Go(h, "expire") \/ Go(h, "pin")
  /\ UNCHANGED rowVars
  /\ Elsewhere

FailsFrom == {"authorization_pending", "verifying"}
ExpiresFrom == {"authorization_pending", "verifying", "connected", "failed"}

VerificationFails(h) ==
  /\ \/ pc[h] = "fail" /\ Reads(h, identity.status \in FailsFrom, "failing")
     \/ pc[h] = "failing" /\ Saves(h, To("failed"), "idle")
     \/ pc[h] = "expire" /\ Reads(h, identity.status \in ExpiresFrom, "expiring")
     \/ pc[h] = "expiring" /\ Saves(h, To("expired"), "idle")
  /\ Elsewhere

\* The account is pinned and the link used up, whatever the status is by now.
Pins(h) ==
  /\ \/ pc[h] = "pin" /\ Reads(h, TRUE, "pinning")
     \/ pc[h] = "pinning"
        /\ Saves(h, [identity EXCEPT !.pinned = TRUE, !.link = FALSE], "verified")
  /\ Elsewhere

\* provider_verified; the request goes on to configure_inbound.
Connects(h) ==
  /\ \/ pc[h] = "verified" /\ Reads(h, identity.status = "verifying", "connecting")
     \/ pc[h] = "connecting" /\ Saves(h, To("connected"), "configure")
  /\ Elsewhere

-----------------------------------------------------------------------------
(* Inbound mail is configured: by a trigger, and by syncs if there is none.  *)

Configures(c) ==
  /\ pc[c] = "configure"
  /\ Go(c, IF ~identity.pinned THEN "idle"
           ELSE IF identity.mode = "trigger" THEN "resubscribe" ELSE "trigger")
  /\ UNCHANGED rowVars
  /\ Elsewhere

\* The subscription is there, or is made.
Subscribes(c) ==
  /\ \/ pc[c] = "resubscribe" /\ Go(c, "idle")
     \/ pc[c] = "trigger" /\ Go(c, "subscribed")
  /\ UNCHANGED rowVars
  /\ Elsewhere

\* No trigger, or no subscription to it: a sync of the last day.
FallsBack(c) ==
  /\ pc[c] \in {"resubscribe", "trigger"}
  /\ Go(c, "fetch")
  /\ UNCHANGED rowVars
  /\ Elsewhere

SavesTrigger(c) ==
  /\ \/ pc[c] = "subscribed" /\ Reads(c, TRUE, "subscribing")
     \/ pc[c] = "subscribing" /\ Saves(c, [identity EXCEPT !.mode = "trigger"], "idle")
  /\ Elsewhere

-----------------------------------------------------------------------------
(* The loop, and a sync.                                                    *)

LoopReads ==
  /\ pc[Loop] = "idle"
  /\ identity.status = "connected"
  /\ Go(Loop, IF identity.mode = "sync" THEN "fetch" ELSE "configure")
  /\ time' = IF identity.mode = "sync" THEN [time EXCEPT ![Loop] = identity.last] ELSE time
  /\ UNCHANGED <<rowVars, batch, mailVars, clockVars>>

\* Mutant: the query starts at the last sync.
WindowFromLastSync(last) == IF last = 0 THEN now - Day ELSE last

\* after:... or newer_than:1d
WindowStart(last) == IF last = 0 THEN now - Day ELSE last - Overlap

InWindow(c) == {m \in Mails : arrived[m] # 0 /\ arrived[m] >= WindowStart(time[c])}

\* All of them, or the newest ones.
Answers(found) ==
  IF Cardinality(found) <= MaxBatch THEN {found}
  ELSE {some \in SUBSET found :
          /\ Cardinality(some) = MaxBatch
          /\ \A m \in some, n \in found \ some : arrived[m] >= arrived[n]}

Fetches(c) ==
  /\ pc[c] = "fetch"
  /\ \E answer \in Answers(InWindow(c)) :
       /\ batch' = [batch EXCEPT ![c] = answer]
       /\ skipped' = skipped \cup (InWindow(c) \ answer)
  /\ time' = [time EXCEPT ![c] = now]
  /\ Go(c, "persist")
  /\ UNCHANGED <<rowVars, arrived, stored, clockVars>>

\* insert_if_new
Persists(c) ==
  /\ pc[c] = "persist"
  /\ \E m \in batch[c] :
       /\ stored' = stored \cup {m}
       /\ batch' = [batch EXCEPT ![c] = @ \ {m}]
  /\ UNCHANGED <<rowVars, pc, time, arrived, skipped, clockVars>>

\* The fetch or an insert raises.
SyncRaises(c) ==
  /\ pc[c] \in {"fetch", "persist"}
  /\ faults < MaxFaults
  /\ faults' = faults + 1
  /\ Go(c, "idle")
  /\ batch' = [batch EXCEPT ![c] = {}]
  /\ time' = [time EXCEPT ![c] = 0]
  /\ UNCHANGED <<rowVars, mailVars, now>>

Stamps(c) ==
  /\ pc[c] = "persist"
  /\ batch[c] = {}
  /\ time' = [time EXCEPT ![c] = now]
  /\ Go(c, "stamp")
  /\ UNCHANGED <<rowVars, batch, mailVars, clockVars>>

\* _save_inbound_state
SavesStamp(c) ==
  /\ \/ pc[c] = "stamp" /\ Reads(c, TRUE, "stamping") /\ UNCHANGED time
     \/ /\ pc[c] = "stamping"
        /\ Saves(c, [identity EXCEPT !.mode = "sync", !.last = time[c]], "idle")
        /\ time' = [time EXCEPT ![c] = 0]
  /\ UNCHANGED <<batch, mailVars, clockVars>>

-----------------------------------------------------------------------------
(* The mail account, the subscription, time and the process.                *)

Arrives(m) ==
  /\ arrived[m] = 0
  /\ arrived' = [arrived EXCEPT ![m] = now]
  /\ UNCHANGED <<rowVars, pc, syncVars, stored, skipped, clockVars>>

\* ingest_trigger, which looks at no status.  The subscription hands on what has
\* come, or nothing: its thread may be dead.
Ingests(m) ==
  /\ arrived[m] # 0
  /\ stored' = stored \cup {m}
  /\ UNCHANGED <<rowVars, pc, syncVars, arrived, skipped, clockVars>>

\* Assumed: what was fetched is inserted within the overlap.
Tick ==
  /\ now < MaxTime
  /\ \A c \in Calls : pc[c] = "persist" => now < time[c] + Overlap
  /\ now' = now + 1
  /\ UNCHANGED <<rowVars, pc, syncVars, mailVars, faults>>

Restart ==
  /\ faults < MaxFaults
  /\ faults' = faults + 1
  /\ pc' = [c \in Calls |-> "idle"]
  /\ fresh' = {}
  /\ time' = [c \in Calls |-> 0]
  /\ batch' = [c \in Calls |-> {}]
  /\ UNCHANGED <<identity, mailVars, now>>

-----------------------------------------------------------------------------

Owner == Disables \/ Enables \/ Disconnects \/ Renames

Link(h) == LinkReads(h) \/ LinkRefused(h) \/ AsksForAuthorization(h) \/ StoresLink(h)

Verification(h) ==
  \/ CallbackReads(h) \/ VerifyReads(h) \/ BeginsVerification(h) \/ LooksUp(h)
  \/ VerificationFails(h) \/ Pins(h) \/ Connects(h)

Inbound(c) ==
  \/ Configures(c) \/ Subscribes(c) \/ FallsBack(c) \/ SavesTrigger(c)
  \/ Fetches(c) \/ Persists(c) \/ SyncRaises(c) \/ Stamps(c) \/ SavesStamp(c)

Surroundings ==
  \/ \E m \in Mails : Arrives(m) \/ Ingests(m)
  \/ Tick \/ Restart

Next ==
  \/ Owner
  \/ \E h \in Handlers : Link(h) \/ Verification(h)
  \/ \E c \in Calls : Inbound(c)
  \/ LoopReads
  \/ Surroundings

Spec == Init /\ [][Next]_vars

\* The loop goes on as long as the process lives, and compose restarts it.
LoopGoesOn == WF_vars(LoopReads \/ Inbound(Loop))

FairSpec == Spec /\ LoopGoesOn

-----------------------------------------------------------------------------
(* Properties                                                               *)

\* A paused identity stays paused until the owner resumes or disconnects it, and
\* a disconnected one stays so until the owner asks for a link or pauses it,
\* whatever verification or sync was under way (lifecycle.py allowed_from and the
\* version compared by repository.py save).
OwnersWordStands ==
  [][identity.status \in {"disabled", "unconfigured"} /\ identity'.status # identity.status =>
       \/ UNCHANGED pc
       \/ identity.status = "unconfigured" /\ \E h \in Handlers : pc[h] = "asking" /\ pc'[h] = "relink"]_vars

\* Mail of the last day that came before the overlap of the last sync is stored,
\* or was left out of a full batch: neither a failed sync, nor two at a time, nor a
\* change from triggers to syncs skips any (gmail_sync.py sync_once, and the query
\* of the loop in main.py).
CoveredBelow(t) ==
  \A m \in Mails :
    arrived[m] # 0 /\ arrived[m] < t /\ arrived[m] >= now - Day
      => m \in stored \cup skipped

MailCovered == CoveredBelow(identity.last - Overlap)

\* As long as the identity is connected and mail is synced, every mail is read, if
\* it did not have to wait for a day (the loop in main.py).
MailIsRead ==
  \A m \in Mails :
    arrived[m] # 0 ~> \/ m \in stored \cup skipped
                      \/ arrived[m] < now - Day
                      \/ ~(identity.status = "connected" /\ identity.mode = "sync")
=============================================================================
