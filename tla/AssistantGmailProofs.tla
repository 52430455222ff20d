------------------------- MODULE AssistantGmailProofs -------------------------
(***************************************************************************)
(* Proofs about AssistantGmail: types, that the owner's word stands, and   *)
(* that syncs skip no mail.                                                *)
(***************************************************************************)
EXTENDS AssistantGmail, TLAPS

USE DEF Calls

-----------------------------------------------------------------------------
(* Types                                                                    *)

\* What is in the pc stays in it, and so does the row.
LEMMA GoType ==
  ASSUME TypeOK, NEW c \in Calls, NEW stage \in Stages, Go(c, stage)
  PROVE  pc' \in [Calls -> Stages]
  BY DEF TypeOK, Go

LEMMA ReadsType ==
  ASSUME TypeOK, NEW c \in Calls, NEW stage \in Stages, NEW condition,
         Reads(c, condition, stage)
  PROVE  identity' \in Row /\ fresh' \subseteq Calls /\ pc' \in [Calls -> Stages]
  <1>1. (IF condition THEN stage ELSE "idle") \in Stages  BY DEF Stages
  <1>. QED  BY <1>1 DEF TypeOK, Reads, Go

LEMMA SavesType ==
  ASSUME TypeOK, NEW c \in Calls, NEW stage \in Stages, NEW row \in Row,
         Saves(c, row, stage)
  PROVE  identity' \in Row /\ fresh' \subseteq Calls /\ pc' \in [Calls -> Stages]
  <1>1. "idle" \in Stages  BY DEF Stages
  <1>. QED  BY <1>1 DEF TypeOK, Saves, Go, rowVars

LEMMA RowType ==
  ASSUME TypeOK
  PROVE  /\ \A status \in Statuses : To(status) \in Row
         /\ [identity EXCEPT !.link = TRUE] \in Row
         /\ [identity EXCEPT !.pinned = TRUE, !.link = FALSE] \in Row
         /\ [identity EXCEPT !.mode = "trigger"] \in Row
         /\ \A t \in 0..MaxTime : [identity EXCEPT !.mode = "sync", !.last = t] \in Row
         /\ identity \in Row
  BY DEF TypeOK, Row, To

\* The part of the types that a step on the row alone leaves as it is.
LEMMA ElsewhereType ==
  ASSUME TypeOK, Elsewhere,
         identity' \in Row, fresh' \subseteq Calls, pc' \in [Calls -> Stages]
  PROVE  TypeOK'
  BY DEF TypeOK, Elsewhere, syncVars, mailVars, clockVars

LEMMA OwnerType == TypeOK /\ Owner => TypeOK'
  <1>. SUFFICES ASSUME TypeOK, Owner PROVE TypeOK'
    OBVIOUS
  <1>1. PICK row \in Row : OwnerSaves(row)
    BY RowType DEF Owner, Disables, Enables, Disconnects, Renames, Statuses
  <1>2. identity' \in Row /\ fresh' \subseteq Calls /\ pc' \in [Calls -> Stages]
    BY <1>1 DEF OwnerSaves, TypeOK
  <1>. QED  BY <1>1, <1>2, ElsewhereType DEF OwnerSaves

LEMMA LinkType ==
  ASSUME TypeOK, NEW h \in Handlers, Link(h)
  PROVE  TypeOK'
  <1>1. CASE LinkReads(h) \/ LinkRefused(h)
    BY <1>1, ElsewhereType DEF LinkReads, LinkRefused, Go, rowVars, TypeOK, Stages
  <1>2. CASE AsksForAuthorization(h)
    <2>1. CASE Reads(h, identity.status \in AuthorizableFrom, "asking")
      BY <1>2, <2>1, ReadsType, ElsewhereType DEF AsksForAuthorization, Stages
    <2>2. CASE Saves(h, To("authorization_pending"), "relink")
      BY <1>2, <2>2, SavesType, RowType, ElsewhereType
      DEF AsksForAuthorization, Stages, Statuses
    <2>. QED  BY <1>2, <2>1, <2>2 DEF AsksForAuthorization
  <1>3. CASE StoresLink(h)
    <2>1. CASE Reads(h, TRUE, "storing")
      BY <1>3, <2>1, ReadsType, ElsewhereType DEF StoresLink, Stages
    <2>2. CASE Saves(h, [identity EXCEPT !.link = TRUE], "idle")
      BY <1>3, <2>2, SavesType, RowType, ElsewhereType DEF StoresLink, Stages
    <2>. QED  BY <1>3, <2>1, <2>2 DEF StoresLink
  <1>. QED  BY <1>1, <1>2, <1>3 DEF Link

LEMMA VerificationType ==
  ASSUME TypeOK, NEW h \in Handlers, Verification(h)
  PROVE  TypeOK'
  <1>1. CASE CallbackReads(h) \/ VerifyReads(h) \/ LooksUp(h)
    BY <1>1, ElsewhereType
    DEF CallbackReads, VerifyReads, LooksUp, Go, rowVars, TypeOK, Stages
  <1>2. CASE BeginsVerification(h)
    <2>1. CASE Reads(h, identity.status \in VerifiableFrom, "beginning")
      BY <1>2, <2>1, ReadsType, ElsewhereType DEF BeginsVerification, Stages
    <2>2. CASE Saves(h, To("verifying"), "lookup")
      BY <1>2, <2>2, SavesType, RowType, ElsewhereType
      DEF BeginsVerification, Stages, Statuses
    <2>. QED  BY <1>2, <2>1, <2>2 DEF BeginsVerification
  <1>3. CASE VerificationFails(h)
    <2>1. CASE Reads(h, identity.status \in FailsFrom, "failing")
      BY <1>3, <2>1, ReadsType, ElsewhereType DEF VerificationFails, Stages
    <2>2. CASE Saves(h, To("failed"), "idle")
      BY <1>3, <2>2, SavesType, RowType, ElsewhereType
      DEF VerificationFails, Stages, Statuses
    <2>3. CASE Reads(h, identity.status \in ExpiresFrom, "expiring")
      BY <1>3, <2>3, ReadsType, ElsewhereType DEF VerificationFails, Stages
    <2>4. CASE Saves(h, To("expired"), "idle")
      BY <1>3, <2>4, SavesType, RowType, ElsewhereType
      DEF VerificationFails, Stages, Statuses
    <2>. QED  BY <1>3, <2>1, <2>2, <2>3, <2>4 DEF VerificationFails
  <1>4. CASE Pins(h)
    <2>1. CASE Reads(h, TRUE, "pinning")
      BY <1>4, <2>1, ReadsType, ElsewhereType DEF Pins, Stages
    <2>2. CASE Saves(h, [identity EXCEPT !.pinned = TRUE, !.link = FALSE], "verified")
      BY <1>4, <2>2, SavesType, RowType, ElsewhereType DEF Pins, Stages
    <2>. QED  BY <1>4, <2>1, <2>2 DEF Pins
  <1>5. CASE Connects(h)
    <2>1. CASE Reads(h, identity.status = "verifying", "connecting")
      BY <1>5, <2>1, ReadsType, ElsewhereType DEF Connects, Stages
    <2>2. CASE Saves(h, To("connected"), "configure")
      BY <1>5, <2>2, SavesType, RowType, ElsewhereType DEF Connects, Stages, Statuses
    <2>. QED  BY <1>5, <2>1, <2>2 DEF Connects
  <1>. QED  BY <1>1, <1>2, <1>3, <1>4, <1>5 DEF Verification

LEMMA InboundType ==
  ASSUME TypeOK, NEW c \in Calls, Inbound(c)
  PROVE  TypeOK'
  <1>1. CASE Configures(c) \/ Subscribes(c) \/ FallsBack(c)
    BY <1>1, ElsewhereType
    DEF Configures, Subscribes, FallsBack, Go, rowVars, TypeOK, Stages
  <1>2. CASE SavesTrigger(c)
    <2>1. CASE Reads(c, TRUE, "subscribing")
      BY <1>2, <2>1, ReadsType, ElsewhereType DEF SavesTrigger, Stages
    <2>2. CASE Saves(c, [identity EXCEPT !.mode = "trigger"], "idle")
      BY <1>2, <2>2, SavesType, RowType, ElsewhereType DEF SavesTrigger, Stages
    <2>. QED  BY <1>2, <2>1, <2>2 DEF SavesTrigger
  <1>3. CASE Fetches(c)
    <2>1. \A answer \in Answers(InWindow(c)) : answer \subseteq Mails
      BY DEF Answers, InWindow
    <2>2. now \in 0..MaxTime  BY GmailAssumption DEF TypeOK
    <2>. QED
      BY <1>3, <2>1, <2>2
      DEF Fetches, InWindow, Go, rowVars, mailVars, clockVars, TypeOK, Stages
  <1>4. CASE Persists(c)
    BY <1>4 DEF Persists, rowVars, clockVars, TypeOK
  <1>5. CASE SyncRaises(c)
    BY <1>5, GmailAssumption DEF SyncRaises, Go, rowVars, mailVars, TypeOK, Stages
  <1>6. CASE Stamps(c)
    <2>1. now \in 0..MaxTime  BY GmailAssumption DEF TypeOK
    <2>. QED  BY <1>6, <2>1 DEF Stamps, Go, rowVars, mailVars, clockVars, TypeOK, Stages
  <1>7. CASE SavesStamp(c)
    <2>1. identity' \in Row /\ fresh' \subseteq Calls /\ pc' \in [Calls -> Stages]
      <3>1. CASE Reads(c, TRUE, "stamping")
        BY <3>1, ReadsType DEF Stages
      <3>2. CASE Saves(c, [identity EXCEPT !.mode = "sync", !.last = time[c]], "idle")
        <4>1. time[c] \in 0..MaxTime  BY DEF TypeOK
        <4>. QED  BY <3>2, <4>1, SavesType, RowType DEF Stages
      <3>. QED  BY <1>7, <3>1, <3>2 DEF SavesStamp
    <2>2. time' \in [Calls -> 0..MaxTime]
      <3>1. time' = time \/ time' = [time EXCEPT ![c] = 0]
        BY <1>7 DEF SavesStamp
      <3>2. 0 \in 0..MaxTime  BY GmailAssumption
      <3>. QED  BY <3>1, <3>2 DEF TypeOK
    <2>. QED  BY <1>7, <2>1, <2>2 DEF SavesStamp, mailVars, clockVars, TypeOK
  <1>. QED  BY <1>1, <1>2, <1>3, <1>4, <1>5, <1>6, <1>7 DEF Inbound

LEMMA TypeStep == TypeOK /\ [Next]_vars => TypeOK'
  <1>. SUFFICES ASSUME TypeOK, [Next]_vars PROVE TypeOK'
    OBVIOUS
  <1>1. CASE LoopReads
    BY <1>1 DEF LoopReads, Go, rowVars, mailVars, clockVars, TypeOK, Row, Stages
  <1>2. CASE Surroundings
    <2>1. now \in 0..MaxTime  BY GmailAssumption DEF TypeOK
    <2>2. ASSUME NEW m \in Mails, Arrives(m) PROVE TypeOK'
      BY <2>1, <2>2 DEF Arrives, rowVars, syncVars, clockVars, TypeOK
    <2>3. ASSUME NEW m \in Mails, Ingests(m) PROVE TypeOK'
      BY <2>3 DEF Ingests, rowVars, syncVars, clockVars, TypeOK
    <2>4. CASE Tick
      BY <2>4, GmailAssumption DEF Tick, rowVars, syncVars, mailVars, TypeOK
    <2>5. CASE Restart
      BY <2>5, GmailAssumption DEF Restart, mailVars, TypeOK, Stages
    <2>. QED  BY <1>2, <2>2, <2>3, <2>4, <2>5 DEF Surroundings
  <1>3. CASE UNCHANGED vars
    BY <1>3 DEF vars, rowVars, syncVars, mailVars, clockVars, TypeOK
  <1>. QED
    BY <1>1, <1>2, <1>3, OwnerType, LinkType, VerificationType, InboundType DEF Next

LEMMA TypeInit == Init => TypeOK
  BY GmailAssumption DEF Init, TypeOK, Row, Statuses, Stages

\* The row, the calls and what they hold keep their types (every handler of the
\* identity's endpoints and the sync loop).
THEOREM TypeCorrect == Spec => []TypeOK
  <1>. QED  BY TypeInit, TypeStep, PTL DEF Spec

-----------------------------------------------------------------------------
(* The owner's word                                                         *)

\* The statuses a call may have read that is about to save at that stage.
StatusesFor(stage) ==
  IF stage = "asking" THEN AuthorizableFrom
  ELSE IF stage = "beginning" THEN VerifiableFrom
  ELSE IF stage = "failing" THEN FailsFrom
  ELSE IF stage = "expiring" THEN ExpiresFrom
  ELSE IF stage = "connecting" THEN {"verifying"}
  ELSE Statuses

\* What a call has read is so still, if nobody has saved since.
ReadInv == \A c \in fresh : identity.status \in StatusesFor(pc[c])

LEMMA ReadsKeepReads ==
  ASSUME TypeOK, ReadInv, NEW c \in Calls, NEW stage, NEW condition,
         Reads(c, condition, stage),
         condition => identity.status \in StatusesFor(stage)
  PROVE  ReadInv'
  <1>1. identity' = identity  BY DEF Reads
  <1>2. identity.status \in StatusesFor("idle")
    BY DEF StatusesFor, TypeOK, Row
  <1>3. ASSUME NEW d \in fresh' PROVE identity'.status \in StatusesFor(pc'[d])
    <2>1. CASE d = c
      <3>1. CASE condition
        BY <1>1, <2>1, <3>1 DEF Reads, Go, TypeOK
      <3>2. CASE ~condition
        BY <1>1, <1>2, <2>1, <3>2 DEF Reads, Go, TypeOK
      <3>. QED  BY <3>1, <3>2
    <2>2. CASE d # c
      <3>1. d \in fresh  BY <1>3, <2>2 DEF Reads
      <3>2. pc'[d] = pc[d]  BY <2>2, <3>1 DEF Reads, Go, TypeOK
      <3>. QED  BY <1>1, <3>1, <3>2 DEF ReadInv
    <2>. QED  BY <2>1, <2>2
  <1>. QED  BY <1>3 DEF ReadInv

LEMMA GoesKeepReads ==
  ASSUME TypeOK, ReadInv, NEW c \in Calls, NEW stage, Go(c, stage), UNCHANGED rowVars,
         StatusesFor(stage) = Statuses
  PROVE  ReadInv'
  <1>1. identity.status \in Statuses  BY DEF TypeOK, Row
  <1>2. ASSUME NEW d \in fresh PROVE identity.status \in StatusesFor(pc'[d])
    BY <1>1 DEF Go, TypeOK, ReadInv
  <1>. QED  BY <1>2 DEF ReadInv, rowVars

LEMMA SavesKeepReads ==
  ASSUME TypeOK, ReadInv, NEW c \in Calls, NEW stage, NEW row, Saves(c, row, stage)
  PROVE  ReadInv'
  <1>1. CASE c \in fresh
    BY <1>1 DEF Saves, Current, ReadInv
  <1>2. CASE c \notin fresh
    <2>1. StatusesFor("idle") = Statuses  BY DEF StatusesFor
    <2>2. Go(c, "idle") /\ UNCHANGED rowVars  BY <1>2 DEF Saves, Current
    <2>. QED  BY <2>1, <2>2, GoesKeepReads
  <1>. QED  BY <1>1, <1>2

LEMMA ReadInit == Init => ReadInv
  BY DEF Init, ReadInv

LEMMA ReadStep == TypeOK /\ ReadInv /\ [Next]_vars => ReadInv'
  <1>. SUFFICES ASSUME TypeOK, ReadInv, [Next]_vars PROVE ReadInv'
    OBVIOUS
  <1>0. \A stage \in {"idle", "link", "relink", "begin", "fail", "expire", "pin", "resubscribe",
                      "trigger", "subscribed", "fetch", "persist", "stamp", "configure"} :
          StatusesFor(stage) = Statuses
    BY DEF StatusesFor
  <1>1. CASE Owner
    BY <1>1 DEF Owner, Disables, Enables, Disconnects, Renames, OwnerSaves, ReadInv
  <1>2. ASSUME NEW h \in Handlers, Link(h) PROVE ReadInv'
    <2>1. CASE LinkReads(h) \/ LinkRefused(h)
      BY <1>0, <2>1, GoesKeepReads DEF LinkReads, LinkRefused
    <2>2. CASE AsksForAuthorization(h)
      BY <2>2, ReadsKeepReads, SavesKeepReads DEF AsksForAuthorization, StatusesFor
    <2>3. CASE StoresLink(h)
      <3>1. identity.status \in StatusesFor("storing")  BY DEF StatusesFor, TypeOK, Row
      <3>. QED  BY <2>3, <3>1, ReadsKeepReads, SavesKeepReads DEF StoresLink
    <2>. QED  BY <1>2, <2>1, <2>2, <2>3 DEF Link
  <1>3. ASSUME NEW h \in Handlers, Verification(h) PROVE ReadInv'
    <2>1. CASE CallbackReads(h) \/ VerifyReads(h) \/ LooksUp(h)
      BY <1>0, <2>1, GoesKeepReads DEF CallbackReads, VerifyReads, LooksUp
    <2>2. CASE BeginsVerification(h)
      BY <2>2, ReadsKeepReads, SavesKeepReads DEF BeginsVerification, StatusesFor
    <2>3. CASE VerificationFails(h)
      BY <2>3, ReadsKeepReads, SavesKeepReads DEF VerificationFails, StatusesFor
    <2>4. CASE Pins(h)
      <3>1. identity.status \in StatusesFor("pinning")  BY DEF StatusesFor, TypeOK, Row
      <3>. QED  BY <2>4, <3>1, ReadsKeepReads, SavesKeepReads DEF Pins
    <2>5. CASE Connects(h)
      BY <2>5, ReadsKeepReads, SavesKeepReads DEF Connects, StatusesFor
    <2>. QED  BY <1>3, <2>1, <2>2, <2>3, <2>4, <2>5 DEF Verification
  <1>4. ASSUME NEW c \in Calls, Inbound(c) PROVE ReadInv'
    <2>1. CASE Configures(c) \/ Subscribes(c) \/ FallsBack(c)
      BY <1>0, <2>1, GoesKeepReads DEF Configures, Subscribes, FallsBack
    <2>2. CASE SavesTrigger(c)
      <3>1. identity.status \in StatusesFor("subscribing")  BY DEF StatusesFor, TypeOK, Row
      <3>. QED  BY <2>2, <3>1, ReadsKeepReads, SavesKeepReads DEF SavesTrigger
    <2>3. CASE Fetches(c) \/ SyncRaises(c) \/ Stamps(c)
      BY <1>0, <2>3, GoesKeepReads DEF Fetches, SyncRaises, Stamps
    <2>4. CASE Persists(c)
      BY <2>4 DEF Persists, rowVars, ReadInv
    <2>5. CASE SavesStamp(c)
      <3>1. identity.status \in StatusesFor("stamping")  BY DEF StatusesFor, TypeOK, Row
      <3>. QED  BY <2>5, <3>1, ReadsKeepReads, SavesKeepReads DEF SavesStamp
    <2>. QED  BY <1>4, <2>1, <2>2, <2>3, <2>4, <2>5 DEF Inbound
  <1>5. CASE LoopReads
    BY <1>0, <1>5, GoesKeepReads DEF LoopReads
  <1>6. CASE Surroundings
    BY <1>6 DEF Surroundings, Arrives, Ingests, Tick, Restart, rowVars, ReadInv
  <1>7. CASE UNCHANGED vars
    BY <1>7 DEF vars, rowVars, ReadInv
  <1>. QED  BY <1>1, <1>2, <1>3, <1>4, <1>5, <1>6, <1>7 DEF Next

\* A paused or disconnected status is changed by the owner, or by the request for a
\* link he has made.
StatusStep ==
  identity.status \in {"disabled", "unconfigured"} /\ identity'.status # identity.status =>
    \/ UNCHANGED pc
    \/ identity.status = "unconfigured" /\ \E h \in Handlers : pc[h] = "asking" /\ pc'[h] = "relink"

LEMMA SaveChangesStatus ==
  ASSUME TypeOK, ReadInv, NEW c \in Calls, NEW row, NEW stage, Saves(c, row, stage),
         \/ row.status = identity.status
         \/ StatusesFor(pc[c]) \cap {"disabled", "unconfigured"} = {}
  PROVE  StatusStep
  <1>1. CASE c \in fresh
    BY <1>1 DEF Saves, Current, ReadInv, StatusStep
  <1>2. CASE c \notin fresh
    BY <1>2 DEF Saves, Current, rowVars, StatusStep
  <1>. QED  BY <1>1, <1>2

LEMMA StatusSteps == TypeOK /\ ReadInv /\ [Next]_vars => StatusStep
  <1>. SUFFICES ASSUME TypeOK, ReadInv, [Next]_vars PROVE StatusStep
    OBVIOUS
  <1>0. ASSUME identity'.status = identity.status PROVE StatusStep
    BY <1>0 DEF StatusStep
  <1>1. CASE Owner
    BY <1>1 DEF Owner, Disables, Enables, Disconnects, Renames, OwnerSaves, StatusStep
  <1>2. ASSUME NEW h \in Handlers, Link(h) PROVE StatusStep
    <2>1. CASE LinkReads(h) \/ LinkRefused(h)
      BY <1>0, <2>1 DEF LinkReads, LinkRefused, rowVars
    <2>2. CASE AsksForAuthorization(h)
      <3>1. CASE Reads(h, identity.status \in AuthorizableFrom, "asking")
        BY <1>0, <3>1 DEF Reads
      <3>2. CASE pc[h] = "asking" /\ Saves(h, To("authorization_pending"), "relink")
        <4>1. CASE h \in fresh
          <5>1. identity.status \in AuthorizableFrom
            BY <3>2, <4>1 DEF ReadInv, StatusesFor
          <5>2. pc'[h] = "relink"
            BY <3>2, <4>1 DEF Saves, Current, Go, TypeOK
          <5>. QED  BY <3>2, <5>1, <5>2 DEF StatusStep, AuthorizableFrom
        <4>2. CASE h \notin fresh
          BY <1>0, <3>2, <4>2 DEF Saves, Current, rowVars
        <4>. QED  BY <4>1, <4>2
      <3>. QED  BY <2>2, <3>1, <3>2 DEF AsksForAuthorization
    <2>3. CASE StoresLink(h)
      <3>1. [identity EXCEPT !.link = TRUE].status = identity.status
        BY DEF TypeOK, Row
      <3>. QED  BY <1>0, <2>3, <3>1, SaveChangesStatus DEF StoresLink, Reads
    <2>. QED  BY <1>2, <2>1, <2>2, <2>3 DEF Link
  <1>3. ASSUME NEW h \in Handlers, Verification(h) PROVE StatusStep
    <2>1. CASE CallbackReads(h) \/ VerifyReads(h) \/ LooksUp(h)
      BY <1>0, <2>1 DEF CallbackReads, VerifyReads, LooksUp, rowVars
    <2>2. CASE BeginsVerification(h)
      BY <1>0, <2>2, SaveChangesStatus
      DEF BeginsVerification, Reads, StatusesFor, VerifiableFrom
    <2>3. CASE VerificationFails(h)
      BY <1>0, <2>3, SaveChangesStatus
      DEF VerificationFails, Reads, StatusesFor, FailsFrom, ExpiresFrom
    <2>4. CASE Pins(h)
      <3>1. [identity EXCEPT !.pinned = TRUE, !.link = FALSE].status = identity.status
        BY DEF TypeOK, Row
      <3>. QED  BY <1>0, <2>4, <3>1, SaveChangesStatus DEF Pins, Reads
    <2>5. CASE Connects(h)
      BY <1>0, <2>5, SaveChangesStatus DEF Connects, Reads, StatusesFor
    <2>. QED  BY <1>3, <2>1, <2>2, <2>3, <2>4, <2>5 DEF Verification
  <1>4. ASSUME NEW c \in Calls, Inbound(c) PROVE StatusStep
    <2>1. CASE \/ Configures(c) \/ Subscribes(c) \/ FallsBack(c) \/ Fetches(c)
               \/ Persists(c) \/ SyncRaises(c) \/ Stamps(c)
      BY <1>0, <2>1
      DEF Configures, Subscribes, FallsBack, Fetches, Persists, SyncRaises, Stamps, rowVars
    <2>2. CASE SavesTrigger(c)
      <3>1. [identity EXCEPT !.mode = "trigger"].status = identity.status
        BY DEF TypeOK, Row
      <3>. QED  BY <1>0, <2>2, <3>1, SaveChangesStatus DEF SavesTrigger, Reads
    <2>3. CASE SavesStamp(c)
      <3>1. [identity EXCEPT !.mode = "sync", !.last = time[c]].status = identity.status
        BY DEF TypeOK, Row
      <3>. QED  BY <1>0, <2>3, <3>1, SaveChangesStatus DEF SavesStamp, Reads
    <2>. QED  BY <1>4, <2>1, <2>2, <2>3 DEF Inbound
  <1>5. CASE LoopReads \/ Surroundings \/ UNCHANGED vars
    BY <1>0, <1>5
    DEF LoopReads, Surroundings, Arrives, Ingests, Tick, Restart, vars, rowVars
  <1>. QED  BY <1>1, <1>2, <1>3, <1>4, <1>5 DEF Next

\* No verification or sync that is under way undoes a pause or a disconnection
\* (allowed_from in lifecycle.py, and the version in repository.py save).
THEOREM OwnersWord == Spec => OwnersWordStands
  <1>1. TypeOK /\ ReadInv /\ [Next]_vars => StatusStep  BY StatusSteps
  <1>2. Spec => [](TypeOK /\ ReadInv)
    BY TypeInit, TypeStep, ReadInit, ReadStep, PTL DEF Spec
  <1>3. [][StatusStep]_vars => OwnersWordStands
    BY PTL DEF OwnersWordStands, StatusStep
  <1>. QED  BY <1>1, <1>2, <1>3, PTL DEF Spec

-----------------------------------------------------------------------------
(* No mail is skipped                                                       *)

SyncStages == {"fetch", "persist", "stamp", "stamping"}

\* What a sync may rely on: at its fetch and when it saves, all is stored that is
\* older than the time it holds less the overlap; in between, all that came before
\* its fetch is stored or in its hands, and the overlap is not over yet.
CallInv(c) ==
  /\ time[c] <= now
  /\ pc[c] \notin SyncStages => time[c] = 0
  /\ pc[c] \in {"fetch", "stamp", "stamping"} => CoveredBelow(time[c] - Overlap)
  /\ pc[c] = "persist" =>
       /\ now <= time[c] + Overlap
       /\ \A m \in Mails :
            arrived[m] # 0 /\ arrived[m] < time[c] /\ arrived[m] >= now - Day
              => m \in stored \cup skipped \cup batch[c]

MailInv ==
  /\ \A m \in Mails : arrived[m] <= now
  /\ identity.last <= now
  /\ MailCovered
  /\ \A c \in Calls : CallInv(c)

\* Time passes, mail comes, and what is stored or skipped stays so.
Progress ==
  /\ now <= now'
  /\ \A m \in Mails : arrived'[m] = arrived[m] \/ (arrived[m] = 0 /\ arrived'[m] = now)
  /\ stored \subseteq stored'
  /\ skipped \subseteq skipped'

LEMMA NumberTypes ==
  ASSUME TypeOK
  PROVE  /\ now \in Nat /\ Overlap \in Nat /\ Overlap > 0 /\ Day \in Nat
         /\ identity.last \in Nat
         /\ \A c \in Calls : time[c] \in Nat
         /\ \A m \in Mails : arrived[m] \in Nat
  BY GmailAssumption DEF TypeOK, Row

\* What is covered stays covered.
LEMMA CoverageStays ==
  ASSUME TypeOK, TypeOK', Progress, NEW t \in Int, t <= now, CoveredBelow(t)
  PROVE  \A m \in Mails :
           arrived'[m] # 0 /\ arrived'[m] < t /\ arrived'[m] >= now' - Day
             => m \in stored' \cup skipped'
  <1>. SUFFICES ASSUME NEW m \in Mails,
                       arrived'[m] # 0, arrived'[m] < t, arrived'[m] >= now' - Day
                PROVE  m \in stored' \cup skipped'
    OBVIOUS
  <1>. now \in Nat /\ now' \in Nat /\ Day \in Nat /\ arrived[m] \in Nat
    BY GmailAssumption DEF TypeOK
  <1>1. arrived'[m] = arrived[m]  BY DEF Progress
  <1>2. arrived[m] >= now - Day  BY <1>1 DEF Progress
  <1>3. m \in stored \cup skipped  BY <1>1, <1>2 DEF CoveredBelow
  <1>. QED  BY <1>3 DEF Progress

\* A call that does nothing keeps what it relies on, unless time runs away from it.
LEMMA CallStays ==
  ASSUME TypeOK, TypeOK', MailInv, Progress, NEW c \in Calls,
         pc'[c] = pc[c], time'[c] = time[c], batch'[c] = batch[c],
         pc[c] = "persist" => now' <= time[c] + Overlap
  PROVE  CallInv(c)'
  <1>. USE NumberTypes
  <1>1. CallInv(c)  BY DEF MailInv
  <1>2. now' \in Nat  BY DEF TypeOK
  <1>3. time[c] <= now'  BY <1>1, <1>2 DEF CallInv, Progress
  <1>4. ASSUME pc[c] \in {"fetch", "stamp", "stamping"}
        PROVE  CoveredBelow(time[c] - Overlap)'
    <2>1. time[c] - Overlap \in Int /\ time[c] - Overlap <= now  BY <1>1 DEF CallInv
    <2>2. CoveredBelow(time[c] - Overlap)  BY <1>1, <1>4 DEF CallInv
    <2>. QED  BY <2>1, <2>2, CoverageStays DEF CoveredBelow
  <1>5. ASSUME pc[c] = "persist", NEW m \in Mails,
               arrived'[m] # 0, arrived'[m] < time[c], arrived'[m] >= now' - Day
        PROVE  m \in stored' \cup skipped' \cup batch[c]
    <2>1. arrived'[m] = arrived[m]  BY <1>1, <1>5 DEF CallInv, Progress
    <2>2. arrived[m] >= now - Day  BY <1>2, <1>5, <2>1 DEF Progress
    <2>. QED  BY <1>1, <1>5, <2>1, <2>2 DEF CallInv, Progress
  <1>. QED  BY <1>1, <1>3, <1>4, <1>5 DEF CallInv

\* The same for the row, when it keeps its time or takes the one of a sync that
\* was about to save it.
LEMMA RowStays ==
  ASSUME TypeOK, TypeOK', MailInv, Progress,
         \/ identity'.last = identity.last
         \/ \E c \in Calls : pc[c] = "stamping" /\ identity'.last = time[c]
  PROVE  /\ \A m \in Mails : arrived'[m] <= now'
         /\ identity'.last <= now'
         /\ MailCovered'
  <1>. USE NumberTypes
  <1>1. now' \in Nat  BY DEF TypeOK
  <1>2. ASSUME NEW m \in Mails PROVE arrived'[m] <= now'
    BY <1>1 DEF Progress, MailInv
  <1>3. PICK last \in Nat : identity'.last = last /\ last <= now /\ CoveredBelow(last - Overlap)
    BY DEF MailInv, MailCovered, CallInv
  <1>4. MailCovered'
    <2>1. last - Overlap \in Int /\ last - Overlap <= now  BY <1>3
    <2>. QED  BY <1>3, <2>1, CoverageStays DEF MailCovered, CoveredBelow
  <1>. QED  BY <1>1, <1>2, <1>3, <1>4 DEF Progress

LEMMA ProgressStep == TypeOK /\ [Next]_vars => Progress
  <1>. SUFFICES ASSUME TypeOK, [Next]_vars PROVE Progress
    OBVIOUS
  <1>. now \in Nat  BY DEF TypeOK
  <1>0. ASSUME UNCHANGED <<mailVars, now>> PROVE Progress
    BY <1>0 DEF mailVars, Progress
  <1>1. ASSUME Elsewhere PROVE Progress
    BY <1>0, <1>1 DEF Elsewhere, clockVars
  <1>2. CASE Owner
    BY <1>1, <1>2 DEF Owner, Disables, Enables, Disconnects, Renames, OwnerSaves
  <1>3. ASSUME NEW h \in Handlers, Link(h) \/ Verification(h) PROVE Progress
    BY <1>1, <1>3
    DEF Link, LinkReads, LinkRefused, AsksForAuthorization, StoresLink, Verification,
        CallbackReads, VerifyReads, BeginsVerification, LooksUp, VerificationFails, Pins,
        Connects
  <1>4. ASSUME NEW c \in Calls, Inbound(c) PROVE Progress
    <2>1. CASE Configures(c) \/ Subscribes(c) \/ FallsBack(c) \/ SavesTrigger(c)
      BY <1>1, <2>1 DEF Configures, Subscribes, FallsBack, SavesTrigger
    <2>2. CASE SyncRaises(c) \/ Stamps(c) \/ SavesStamp(c)
      BY <1>0, <2>2 DEF SyncRaises, Stamps, SavesStamp, clockVars
    <2>3. CASE Fetches(c)
      BY <2>3 DEF Fetches, Progress, clockVars
    <2>4. CASE Persists(c)
      BY <2>4 DEF Persists, Progress, clockVars
    <2>. QED  BY <1>4, <2>1, <2>2, <2>3, <2>4 DEF Inbound
  <1>5. CASE LoopReads
    BY <1>0, <1>5 DEF LoopReads, clockVars
  <1>6. CASE Surroundings
    <2>1. ASSUME NEW m \in Mails, Arrives(m) PROVE Progress
      BY <2>1 DEF Arrives, Progress, TypeOK, clockVars
    <2>2. ASSUME NEW m \in Mails, Ingests(m) PROVE Progress
      BY <2>2 DEF Ingests, Progress, clockVars
    <2>3. CASE Tick
      BY <2>3 DEF Tick, Progress, mailVars
    <2>4. CASE Restart
      BY <1>0, <2>4 DEF Restart
    <2>. QED  BY <1>6, <2>1, <2>2, <2>3, <2>4 DEF Surroundings
  <1>7. CASE UNCHANGED vars
    BY <1>0, <1>7 DEF vars, clockVars
  <1>. QED  BY <1>2, <1>3, <1>4, <1>5, <1>6, <1>7 DEF Next

\* The steps of a call outside a sync.
LEMMA OutsideSync ==
  ASSUME TypeOK, TypeOK', MailInv, Progress, NEW c \in Calls, NEW stage, Elsewhere,
         Go(c, stage), pc[c] \notin SyncStages,
         stage \notin {"persist", "stamp", "stamping"},
         identity'.last = identity.last
  PROVE  MailInv'
  <1>. USE NumberTypes
  <1>1. UNCHANGED <<time, batch, arrived, now>>
    BY DEF Elsewhere, syncVars, mailVars, clockVars
  <1>2. ASSUME NEW d \in Calls, d # c PROVE CallInv(d)'
    <2>1. pc'[d] = pc[d]  BY <1>2 DEF Go, TypeOK
    <2>2. pc[d] = "persist" => now' <= time[d] + Overlap  BY <1>1 DEF MailInv, CallInv
    <2>. QED  BY <1>1, <2>1, <2>2, CallStays
  <1>3. CallInv(c)'
    <2>1. time[c] = 0  BY DEF MailInv, CallInv
    <2>2. pc'[c] = stage  BY DEF Go, TypeOK
    <2>3. CoveredBelow(0 - Overlap)'  BY <1>1 DEF CoveredBelow
    <2>. QED  BY <1>1, <2>1, <2>2, <2>3 DEF CallInv
  <1>. QED  BY <1>2, <1>3, RowStays DEF MailInv

\* The others, when one call does something in its sync.
LEMMA OneSyncs ==
  ASSUME TypeOK, TypeOK', MailInv, Progress, NEW c \in Calls, NEW stage, Go(c, stage),
         \A d \in Calls \ {c} : time'[d] = time[d] /\ batch'[d] = batch[d],
         now' = now, CallInv(c)',
         \/ identity'.last = identity.last
         \/ pc[c] = "stamping" /\ identity'.last = time[c]
  PROVE  MailInv'
  <1>. USE NumberTypes
  <1>1. ASSUME NEW d \in Calls, d # c PROVE CallInv(d)'
    <2>1. pc'[d] = pc[d]  BY <1>1 DEF Go, TypeOK
    <2>2. pc[d] = "persist" => now' <= time[d] + Overlap  BY DEF MailInv, CallInv
    <2>. QED  BY <1>1, <2>1, <2>2, CallStays
  <1>2. \/ identity'.last = identity.last
        \/ \E d \in Calls : pc[d] = "stamping" /\ identity'.last = time[d]
    OBVIOUS
  <1>. QED  BY <1>1, <1>2, RowStays DEF MailInv

LEMMA MailInit == Init => MailInv
  <1>. SUFFICES ASSUME Init PROVE MailInv
    OBVIOUS
  <1>. USE GmailAssumption
  <1>1. MailCovered  BY DEF Init, MailCovered, CoveredBelow
  <1>2. ASSUME NEW c \in Calls PROVE CallInv(c)
    BY DEF Init, CallInv, SyncStages
  <1>. QED  BY <1>1, <1>2 DEF Init, MailInv

LEMMA FetchKeeps ==
  ASSUME TypeOK, TypeOK', MailInv, Progress, NEW c \in Calls, Fetches(c)
  PROVE  MailInv'
  <1>. USE NumberTypes
  <1>1. PICK answer \in Answers(InWindow(c)) :
          /\ batch' = [batch EXCEPT ![c] = answer]
          /\ skipped' = skipped \cup (InWindow(c) \ answer)
    BY DEF Fetches
  <1>2. pc'[c] = "persist" /\ time'[c] = now /\ batch'[c] = answer
    BY <1>1 DEF Fetches, Go, TypeOK
  <1>3. UNCHANGED <<identity, arrived, stored, now>>
    BY DEF Fetches, rowVars, clockVars
  <1>4. CoveredBelow(time[c] - Overlap)
    BY DEF Fetches, MailInv, CallInv
  <1>5. ASSUME NEW m \in Mails,
               arrived[m] # 0, arrived[m] < now, arrived[m] >= now - Day
        PROVE  m \in stored' \cup skipped' \cup batch'[c]
    <2>1. CASE m \in InWindow(c)
      BY <1>1, <1>2, <2>1
    <2>2. CASE m \notin InWindow(c)
      <3>1. arrived[m] < time[c] - Overlap
        BY <1>5, <2>2 DEF InWindow, WindowStart
      <3>. QED  BY <1>1, <1>3, <1>4, <1>5, <3>1 DEF CoveredBelow
    <2>. QED  BY <2>1, <2>2
  <1>6. CallInv(c)'
    BY <1>2, <1>3, <1>5 DEF CallInv, SyncStages
  <1>7. Go(c, "persist") /\ \A d \in Calls \ {c} : time'[d] = time[d] /\ batch'[d] = batch[d]
    BY <1>1 DEF Fetches, TypeOK
  <1>. QED  BY <1>3, <1>6, <1>7, OneSyncs

LEMMA PersistKeeps ==
  ASSUME TypeOK, TypeOK', MailInv, Progress, NEW c \in Calls, Persists(c)
  PROVE  MailInv'
  <1>. USE NumberTypes
  <1>1. PICK m \in batch[c] : /\ stored' = stored \cup {m}
                             /\ batch' = [batch EXCEPT ![c] = @ \ {m}]
    BY DEF Persists
  <1>2. UNCHANGED <<identity, pc, time, arrived, skipped, now>>
    BY DEF Persists, rowVars, clockVars
  <1>3. batch'[c] = batch[c] \ {m}  BY <1>1 DEF TypeOK
  <1>4. CallInv(c)  BY DEF MailInv
  <1>5. CallInv(c)'
    BY <1>1, <1>2, <1>3, <1>4 DEF Persists, CallInv, SyncStages
  <1>6. Go(c, "persist")
    BY <1>2 DEF Persists, Go, TypeOK
  <1>7. \A d \in Calls \ {c} : time'[d] = time[d] /\ batch'[d] = batch[d]
    BY <1>1, <1>2 DEF TypeOK
  <1>. QED  BY <1>2, <1>5, <1>6, <1>7, OneSyncs

LEMMA RaiseKeeps ==
  ASSUME TypeOK, TypeOK', MailInv, Progress, NEW c \in Calls, SyncRaises(c)
  PROVE  MailInv'
  <1>. USE NumberTypes
  <1>1. pc'[c] = "idle" /\ time'[c] = 0  BY DEF SyncRaises, Go, TypeOK
  <1>2. UNCHANGED <<identity, now>>  BY DEF SyncRaises, rowVars
  <1>3. CallInv(c)'  BY <1>1, <1>2 DEF CallInv
  <1>4. Go(c, "idle") /\ \A d \in Calls \ {c} : time'[d] = time[d] /\ batch'[d] = batch[d]
    BY DEF SyncRaises, TypeOK
  <1>. QED  BY <1>2, <1>3, <1>4, OneSyncs

LEMMA StampKeeps ==
  ASSUME TypeOK, TypeOK', MailInv, Progress, NEW c \in Calls, Stamps(c)
  PROVE  MailInv'
  <1>. USE NumberTypes
  <1>1. pc'[c] = "stamp" /\ time'[c] = now  BY DEF Stamps, Go, TypeOK
  <1>2. UNCHANGED <<identity, batch, arrived, stored, skipped, now>>
    BY DEF Stamps, rowVars, mailVars, clockVars
  <1>3. CallInv(c) /\ pc[c] = "persist" /\ batch[c] = {}  BY DEF MailInv, Stamps
  <1>4. CoveredBelow(now - Overlap)
    BY <1>3 DEF CallInv, CoveredBelow
  <1>5. CallInv(c)'
    BY <1>1, <1>2, <1>4 DEF CallInv, CoveredBelow, SyncStages
  <1>6. Go(c, "stamp") /\ \A d \in Calls \ {c} : time'[d] = time[d] /\ batch'[d] = batch[d]
    BY DEF Stamps, TypeOK
  <1>. QED  BY <1>2, <1>5, <1>6, OneSyncs

LEMMA SaveStampKeeps ==
  ASSUME TypeOK, TypeOK', MailInv, Progress, NEW c \in Calls, SavesStamp(c)
  PROVE  MailInv'
  <1>. USE NumberTypes
  <1>1. UNCHANGED <<batch, arrived, stored, skipped, now>>
    BY DEF SavesStamp, mailVars, clockVars
  <1>2. CASE pc[c] = "stamp" /\ Reads(c, TRUE, "stamping") /\ UNCHANGED time
    <2>1. Go(c, "stamping") /\ pc'[c] = "stamping" /\ identity' = identity
      BY <1>2 DEF Reads, Go, TypeOK
    <2>2. CallInv(c)'
      BY <1>1, <1>2, <2>1 DEF MailInv, CallInv, CoveredBelow, SyncStages
    <2>. QED  BY <1>1, <1>2, <2>1, <2>2, OneSyncs
  <1>3. CASE /\ pc[c] = "stamping"
             /\ Saves(c, [identity EXCEPT !.mode = "sync", !.last = time[c]], "idle")
             /\ time' = [time EXCEPT ![c] = 0]
    <2>1. Go(c, "idle") /\ pc'[c] = "idle" /\ time'[c] = 0
      BY <1>3 DEF Saves, Go, TypeOK
    <2>2. CallInv(c)'  BY <1>1, <2>1 DEF CallInv
    <2>3. [identity EXCEPT !.mode = "sync", !.last = time[c]].last = time[c]
      BY DEF TypeOK, Row
    <2>4. identity'.last = identity.last \/ identity'.last = time[c]
      BY <1>3, <2>3 DEF Saves, rowVars
    <2>5. \A d \in Calls \ {c} : time'[d] = time[d] /\ batch'[d] = batch[d]
      BY <1>1, <1>3 DEF TypeOK
    <2>. QED  BY <1>1, <1>3, <2>1, <2>2, <2>4, <2>5, OneSyncs
  <1>. QED  BY <1>2, <1>3 DEF SavesStamp

\* A transaction on the row that does not set its last sync.
LEMMA LastKept ==
  ASSUME TypeOK, NEW c \in Calls, NEW stage, NEW row, row.last = identity.last,
         Saves(c, row, stage)
  PROVE  /\ identity'.last = identity.last
         /\ Go(c, stage) \/ Go(c, "idle")
  BY DEF Saves, rowVars

LEMMA ReadsGo ==
  ASSUME NEW c \in Calls, NEW stage, NEW condition, Reads(c, condition, stage)
  PROVE  /\ identity'.last = identity.last
         /\ Go(c, stage) \/ Go(c, "idle")
  BY DEF Reads

LEMMA LifecycleKeeps ==
  ASSUME TypeOK, TypeOK', MailInv, Progress, NEW c \in Calls,
         Link(c) \/ Verification(c) \/ Configures(c) \/ Subscribes(c)
           \/ FallsBack(c) \/ SavesTrigger(c)
  PROVE  MailInv'
  <1>1. /\ \A status : To(status).last = identity.last
        /\ [identity EXCEPT !.link = TRUE].last = identity.last
        /\ [identity EXCEPT !.pinned = TRUE, !.link = FALSE].last = identity.last
        /\ [identity EXCEPT !.mode = "trigger"].last = identity.last
    BY DEF TypeOK, Row, To
  <1>2. CASE \/ LinkReads(c) \/ LinkRefused(c) \/ CallbackReads(c) \/ VerifyReads(c)
             \/ LooksUp(c) \/ Configures(c) \/ Subscribes(c) \/ FallsBack(c)
    BY <1>2, OutsideSync
    DEF LinkReads, LinkRefused, CallbackReads, VerifyReads, LooksUp, Configures,
        Subscribes, FallsBack, rowVars, SyncStages
  <1>3. CASE AsksForAuthorization(c) \/ StoresLink(c)
    BY <1>1, <1>3, LastKept, ReadsGo, OutsideSync
    DEF AsksForAuthorization, StoresLink, SyncStages
  <1>4. CASE BeginsVerification(c) \/ Connects(c)
    BY <1>1, <1>4, LastKept, ReadsGo, OutsideSync
    DEF BeginsVerification, Connects, SyncStages
  <1>5. CASE VerificationFails(c)
    BY <1>1, <1>5, LastKept, ReadsGo, OutsideSync DEF VerificationFails, SyncStages
  <1>6. CASE Pins(c) \/ SavesTrigger(c)
    BY <1>1, <1>6, LastKept, ReadsGo, OutsideSync DEF Pins, SavesTrigger, SyncStages
  <1>. QED  BY <1>2, <1>3, <1>4, <1>5, <1>6 DEF Link, Verification

\* The loop begins a sync with the time of the last one, before which all is stored.
LEMMA LoopKeeps ==
  ASSUME TypeOK, TypeOK', MailInv, Progress, LoopReads
  PROVE  MailInv'
  <1>. USE NumberTypes
  <1>1. UNCHANGED <<identity, batch, arrived, stored, skipped, now>>
    BY DEF LoopReads, rowVars, mailVars, clockVars
  <1>2. CASE identity.mode = "sync"
    <2>1. Go(Loop, "fetch") /\ pc'[Loop] = "fetch" /\ time'[Loop] = identity.last
      BY <1>2 DEF LoopReads, Go, TypeOK
    <2>2. CallInv(Loop)'
      BY <1>1, <2>1 DEF MailInv, MailCovered, CallInv, CoveredBelow, SyncStages
    <2>3. \A d \in Calls \ {Loop} : time'[d] = time[d] /\ batch'[d] = batch[d]
      BY <1>1, <1>2 DEF LoopReads, TypeOK
    <2>. QED  BY <1>1, <2>1, <2>2, <2>3, OneSyncs
  <1>3. CASE identity.mode # "sync"
    BY <1>1, <1>3, OutsideSync
    DEF LoopReads, Elsewhere, syncVars, mailVars, clockVars, SyncStages
  <1>. QED  BY <1>2, <1>3

LEMMA MailStep == TypeOK /\ TypeOK' /\ MailInv /\ [Next]_vars => MailInv'
  <1>. SUFFICES ASSUME TypeOK, TypeOK', MailInv, [Next]_vars PROVE MailInv'
    OBVIOUS
  <1>. USE NumberTypes
  <1>0. Progress  BY ProgressStep
  <1>1. ASSUME UNCHANGED <<pc, syncVars>>, identity'.last = identity.last,
               \A c \in Calls : pc[c] = "persist" => now' <= time[c] + Overlap
        PROVE  MailInv'
    <2>1. ASSUME NEW c \in Calls PROVE CallInv(c)'
      BY <1>0, <1>1, CallStays DEF syncVars
    <2>. QED  BY <1>0, <1>1, <2>1, RowStays DEF MailInv
  <1>2. \A c \in Calls : pc[c] = "persist" => now <= time[c] + Overlap
    BY DEF MailInv, CallInv
  <1>3. CASE Owner
    <2>1. identity'.last = identity.last
      BY <1>3
      DEF Owner, Disables, Enables, Disconnects, Renames, OwnerSaves, To, TypeOK, Row
    <2>2. UNCHANGED <<pc, syncVars, now>>
      BY <1>3
      DEF Owner, Disables, Enables, Disconnects, Renames, OwnerSaves, Elsewhere, clockVars
    <2>. QED  BY <1>1, <1>2, <2>1, <2>2
  <1>4. ASSUME NEW h \in Handlers, Link(h) \/ Verification(h) PROVE MailInv'
    BY <1>0, <1>4, LifecycleKeeps
  <1>5. ASSUME NEW c \in Calls, Inbound(c) PROVE MailInv'
    BY <1>0, <1>5, LifecycleKeeps, FetchKeeps, PersistKeeps, RaiseKeeps, StampKeeps,
       SaveStampKeeps
    DEF Inbound
  <1>6. CASE LoopReads
    BY <1>0, <1>6, LoopKeeps
  <1>7. CASE Surroundings
    <2>1. ASSUME NEW m \in Mails, Arrives(m) \/ Ingests(m) PROVE MailInv'
      BY <1>1, <1>2, <2>1 DEF Arrives, Ingests, rowVars, clockVars
    <2>2. CASE Tick
      BY <1>1, <2>2 DEF Tick, rowVars
    <2>3. CASE Restart
      <3>1. ASSUME NEW c \in Calls PROVE CallInv(c)'
        BY <2>3 DEF Restart, CallInv, SyncStages
      <3>. QED  BY <1>0, <2>3, <3>1, RowStays DEF Restart, MailInv
    <2>. QED  BY <1>7, <2>1, <2>2, <2>3 DEF Surroundings
  <1>8. CASE UNCHANGED vars
    BY <1>1, <1>2, <1>8 DEF vars, rowVars, clockVars
  <1>. QED  BY <1>3, <1>4, <1>5, <1>6, <1>7, <1>8 DEF Next

\* No sync skips mail of the last day, whatever failed before and whoever else syncs
\* (sync_once in gmail_sync.py, with the overlap of assistant_gmail_incremental_query).
THEOREM MailIsCovered == Spec => []MailCovered
  <1>1. Spec => [](TypeOK /\ MailInv)
    BY TypeInit, TypeStep, MailInit, MailStep, PTL DEF Spec
  <1>2. MailInv => MailCovered  BY DEF MailInv
  <1>. QED  BY <1>1, <1>2, PTL
=============================================================================
