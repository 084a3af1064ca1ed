------------------------- MODULE SendPipelineProofs -------------------------
(***************************************************************************)
(* The safety of SendPipeline, for any set of requests, channels,          *)
(* allowlist, number of records per request and number of stops.           *)
(*                                                                         *)
(* Three inductive invariants, each built on the one before:               *)
(*   Permitted  whatever a send can still come from was allowed;           *)
(*   Recorded   the records, drafts and notes agree with what was done;    *)
(*   OneWayOut  while nothing was stopped, a request has at most one       *)
(*              place it can leave from, and none after it left.           *)
(* Each has one lemma per driver, with one step per action.                *)
(***************************************************************************)
EXTENDS SendPipeline, TLAPS

USE ChannelAssumption, BoundsAssumption
    DEF vars, disk, config, drafts, records, memory, phases, box, mind, observers, faults,
        Recs, Drafts, Files, Tasks, Channels, LineChannels, AllChannels, Modes,
        Undecided, Terminal, Statuses, FinishedDraft

-----------------------------------------------------------------------------
(* Permission.                                                             *)

\* Drafts are email's, day-file lines are not, handoffs are whatsapp's; a handoff
\* in the outbox task's hands has not left, failed, or gone.
Apart ==
  /\ \A d \in Drafts : draft[d] # "absent" \/ dphase[d] # "rest" => Channel[d[1]] = "email"
  /\ \A r \in Reqs : lphase[r] # "rest" => Channel[r] # "email"
  /\ \A f \in outbox : Channel[f[1][1]] = "whatsapp"
  /\ boxSending \cap boxLeft = {}
  /\ boxSending \cap tried = {}

Permitted == TypeOK /\ Apart /\ PermissionTravels /\ NothingLeavesUngranted

USE DEF Permitted, TypeOK, Apart, PermissionTravels, NothingLeavesUngranted

LEMMA InitIsPermitted == Init => Permitted
  BY DEF Init

\* No step of a day-file driver sends, or makes it possible to send, what the owner did not allow.
LEMMA LineDriverIsPermitted ==
  ASSUME Permitted, NEW r \in Reqs, LineDriver(r) PROVE Permitted'
<1>1. CASE SendLine(r)
  BY <1>1 DEF SendLine, TakeLine, GrantIfAllowed, OwnerAllows, SentUnasked, Frozen
<1>2. CASE StageLine(r)
  BY <1>2 DEF StageLine, TakeLine, Stage
<1>3. CASE LineQueued(r)
  BY <1>3 DEF LineQueued, FinishLine
<1>4. CASE RefuseLine(r)
  BY <1>4 DEF RefuseLine, TakeLine, FinishLine
<1>5. CASE LineLeaves(r)
  BY <1>5 DEF LineLeaves
<1>6. CASE LineSent(r)
  BY <1>6 DEF LineSent, FinishLine
<1>7. CASE LineFails(r)
  BY <1>7 DEF LineFails, FinishLine
<1> HIDE DEF Permitted
<1> QED
  BY <1>1, <1>2, <1>3, <1>4, <1>5, <1>6, <1>7 DEF LineDriver

\* No step of the email driver sends, or makes it possible to send, what the owner did not allow.
LEMMA EmailDriverIsPermitted ==
  ASSUME Permitted, NEW d \in Drafts, EmailDriver(d) PROVE Permitted'
<1>1. CASE SendDraft(d)
  BY <1>1 DEF SendDraft, TakeDraft, GrantIfAllowed, OwnerAllows, SentUnasked, OpenDraftGate, ValidToken
<1>2. CASE StageDraft(d)
  BY <1>2 DEF StageDraft, TakeDraft, Stage
<1>3. CASE SaveDraft(d)
  BY <1>3 DEF SaveDraft, TakeDraft
<1>4. CASE RefuseDraft(d)
  BY <1>4 DEF RefuseDraft, TakeDraft, FinishDraft
<1>5. CASE DraftQueued(d)
  BY <1>5 DEF DraftQueued, FinishDraft
<1>6. CASE DraftLeaves(d)
  BY <1>6 DEF DraftLeaves
<1>7. CASE DraftSent(d)
  BY <1>7 DEF DraftSent, FinishDraft
<1>8. CASE DraftSaved(d)
  BY <1>8 DEF DraftSaved, FinishDraft
<1>9. CASE DraftFails(d)
  BY <1>9 DEF DraftFails, FinishDraft
<1>10. CASE DraftRetries(d)
  BY <1>10 DEF DraftRetries, FinishDraft
<1> HIDE DEF Permitted
<1> QED
  BY <1>1, <1>2, <1>3, <1>4, <1>5, <1>6, <1>7, <1>8, <1>9, <1>10 DEF EmailDriver

\* No step of the approvals driver sends, or makes it possible to send, what the owner did not allow.
LEMMA ApprovalsDriverIsPermitted ==
  ASSUME Permitted, NEW i \in Recs, ApprovalsDriver(i) PROVE Permitted'
<1>1. CASE Announce(i)
  BY <1>1 DEF Announce, TakeRecord
<1>2. CASE BeginReject(i)
  BY <1>2 DEF BeginReject, TakeRecord
<1>3. CASE TellRejected(i)
  BY <1>3 DEF TellRejected
<1>4. CASE EndReject(i)
  BY <1>4 DEF EndReject
<1>5. CASE RefuseRecord(i)
  BY <1>5 DEF RefuseRecord, TakeRecord, FinishRecord
<1>6. CASE DeliverInline(i)
  BY <1>6 DEF DeliverInline, TakeRecord
<1>7. CASE InlineLeaves(i)
  BY <1>7 DEF InlineLeaves
<1>8. CASE InlineSent(i)
  BY <1>8 DEF InlineSent, FinishRecord
<1>9. CASE InlineFails(i)
  BY <1>9 DEF InlineFails, FinishRecord
<1>10. CASE DeliverEmail(i)
  BY <1>10 DEF DeliverEmail, TakeRecord
<1>11. CASE DeliverWhatsapp(i)
  BY <1>11 DEF DeliverWhatsapp, TakeRecord
<1>12. CASE Dispatched(i)
  BY <1>12 DEF Dispatched, FinishRecord
<1> HIDE DEF Permitted
<1> QED
  BY <1>1, <1>2, <1>3, <1>4, <1>5, <1>6, <1>7, <1>8, <1>9, <1>10, <1>11, <1>12 DEF ApprovalsDriver

\* No step of the whatsapp outbox sends, or makes it possible to send, what the owner did not allow.
LEMMA OutboxTaskIsPermitted ==
  ASSUME Permitted, NEW f \in outbox, OutboxTask(f) PROVE Permitted'
<1>1. CASE DropHandoff(f)
  BY <1>1 DEF DropHandoff, TakeHandoff
<1>2. CASE UndeliverableHandoff(f)
  BY <1>2 DEF UndeliverableHandoff, TakeHandoff
<1>3. CASE SendHandoff(f)
  BY <1>3 DEF SendHandoff, TakeHandoff
<1>4. CASE HandoffLeaves(f)
  BY <1>4 DEF HandoffLeaves
<1>5. CASE HandoffSent(f)
  BY <1>5 DEF HandoffSent
<1>6. CASE HandoffFails(f)
  BY <1>6 DEF HandoffFails
<1> HIDE DEF Permitted
<1> QED
  BY <1>1, <1>2, <1>3, <1>4, <1>5, <1>6 DEF OutboxTask

\* No step of a PAI, of the owner, and no stop or death sends, or makes it possible to send, what the owner did not allow.
LEMMA EnvironmentIsPermitted ==
  ASSUME Permitted, Environment PROVE Permitted'
<1>1. ASSUME NEW r \in Reqs, Submit(r) PROVE Permitted'
  <2>1. CASE Channel[r] = "email"
    <3>1. draft' = [draft EXCEPT ![<<r, 0>>] = "new"] /\ line' = line
      BY <1>1, <2>1 DEF Submit
    <3> QED
      BY <1>1, <2>1, <3>1 DEF Submit
  <2>2. CASE Channel[r] # "email"
    <3>1. line' = [line EXCEPT ![r] = "written"] /\ draft' = draft
      BY <1>1, <2>2 DEF Submit
    <3> QED
      BY <1>1, <2>2, <3>1 DEF Submit
  <2> QED
    BY <2>1, <2>2
<1>2. ASSUME NEW c \in LineChannels, ProjectFreeze(c) PROVE Permitted'
  BY <1>2 DEF ProjectFreeze
<1>3. ASSUME NEW c \in Channels, NEW m \in Modes, SetMode(c, m) PROVE Permitted'
  BY <1>3 DEF SetMode
<1>4. ASSUME NEW i \in Recs, Decide(i, "approved") PROVE Permitted'
  BY <1>4 DEF Decide
<1>5. ASSUME NEW i \in Recs, Decide(i, "rejected") PROVE Permitted'
  BY <1>5 DEF Decide
<1>6. ASSUME NEW t \in Tasks, Stop(t) PROVE Permitted'
  BY <1>6 DEF Stop
<1>7. CASE KernelDies
  BY <1>7 DEF KernelDies
<1>8. ASSUME NEW c \in LineChannels, ChunkAborts(c) PROVE Permitted'
  BY <1>8 DEF ChunkAborts
<1> HIDE DEF Permitted
<1> QED
  BY <1>1, <1>2, <1>3, <1>4, <1>5, <1>6, <1>7, <1>8 DEF Environment

\* Nor does the start of a task, a saved cursor, a step in which nothing changes.
LEMMA StartIsPermitted ==
  ASSUME Permitted, NEW t \in Tasks, Start(t) PROVE Permitted'
  BY DEF Start

LEMMA SaveCursorIsPermitted ==
  ASSUME Permitted, NEW c \in LineChannels, SaveCursor(c) PROVE Permitted'
  BY DEF SaveCursor

LEMMA StutterIsPermitted ==
  ASSUME Permitted, UNCHANGED vars PROVE Permitted'
  BY DEF vars

HIDE DEF PermissionTravels, NothingLeavesUngranted

-----------------------------------------------------------------------------
(* Records, drafts and notes.                                              *)

\* A record is delivered while it is approved, and told about while rejected.
DeliveringIsApproved ==
  /\ \A i \in Recs : rphase[i] \in {"sending", "left", "dispatching"} => status[i] = "approved"
  /\ \A i \in Recs : rphase[i] \in {"rejecting", "told"} => status[i] = "rejected"

\* A send whose return the driver awaits may have happened; one it saw, has.
LeftIsCounted ==
  /\ \A i \in Recs : rphase[i] = "left" => sends[i[1]] > 0
  /\ \A d \in Drafts : dphase[d] = "left" => sends[d[1]] > 0

HasRecord(d) == \E i \in Recs : src[i] = d /\ status[i] # "none"

\* The record is staged before the draft is marked.
StagedHasRecord ==
  \A d \in Drafts : dphase[d] = "staged" \/ draft[d] = "pending_approval" => HasRecord(d)

\* A rejection is noted before it is told, and the note dies with the kernel only.
ToldIsCounted ==
  \A i \in Recs :
    /\ told[i] <= 1 + crashes
    /\ i \notin rejSeen \/ rphase[i] = "rejecting" => told[i] <= crashes
    /\ rphase[i] = "rejecting" => i \in rejSeen

Recorded == /\ DeliveringIsApproved /\ LeftIsCounted /\ SentMeansLeft
            /\ StagedHasRecord /\ ToldIsCounted

USE DEF Recorded, DeliveringIsApproved, LeftIsCounted, SentMeansLeft, StagedHasRecord,
        HasRecord, ToldIsCounted

LEMMA InitIsRecorded == Init => Recorded
  BY DEF Init

\* No step of a day-file driver records as sent what has not left, or leaves a draft without its record.
LEMMA LineDriverIsRecorded ==
  ASSUME Permitted, Permitted', Recorded, NEW r \in Reqs, LineDriver(r) PROVE Recorded'
<1>1. CASE SendLine(r)
  BY <1>1 DEF SendLine, TakeLine, GrantIfAllowed
<1>2. CASE StageLine(r)
  <2>1. PICK n \in 1..MaxCopies :
          /\ status[<<r, n>>] = "none"
          /\ status' = [status EXCEPT ![<<r, n>>] = "pending"]
          /\ src' = [src EXCEPT ![<<r, n>>] = <<r, 0>>]
    BY <1>2 DEF StageLine, Stage
  <2> DEFINE i == <<r, n>>
  <2>2. /\ i \in Recs /\ i[1] = r /\ status[i] = "none"
        /\ status' = [status EXCEPT ![i] = "pending"]
        /\ src' = [src EXCEPT ![i] = <<r, 0>>]
    BY <2>1
  <2> HIDE DEF i
  <2>3. DeliveringIsApproved'
    BY <1>2, <2>2 DEF StageLine, TakeLine
  <2>4. LeftIsCounted'
    BY <1>2, <2>2 DEF StageLine, TakeLine
  <2>5. SentMeansLeft'
    BY <1>2, <2>2 DEF StageLine, TakeLine
  <2>6. StagedHasRecord'
    BY <1>2, <2>2 DEF StageLine, TakeLine
  <2>7. ToldIsCounted'
    BY <1>2, <2>2 DEF StageLine, TakeLine
  <2> QED
    BY <2>3, <2>4, <2>5, <2>6, <2>7
<1>3. CASE LineQueued(r)
  BY <1>3 DEF LineQueued, FinishLine
<1>4. CASE RefuseLine(r)
  BY <1>4 DEF RefuseLine, TakeLine, FinishLine
<1>5. CASE LineLeaves(r)
  BY <1>5 DEF LineLeaves
<1>6. CASE LineSent(r)
  BY <1>6 DEF LineSent, FinishLine
<1>7. CASE LineFails(r)
  BY <1>7 DEF LineFails, FinishLine
<1> HIDE DEF Recorded
<1> QED
  BY <1>1, <1>2, <1>3, <1>4, <1>5, <1>6, <1>7 DEF LineDriver

\* No step of the email driver records as sent what has not left, or leaves a draft without its record.
LEMMA EmailDriverIsRecorded ==
  ASSUME Permitted, Permitted', Recorded, NEW d \in Drafts, EmailDriver(d) PROVE Recorded'
<1>1. CASE SendDraft(d)
  BY <1>1 DEF SendDraft, TakeDraft, GrantIfAllowed
<1>2. CASE StageDraft(d)
  <2>1. PICK n \in 1..MaxCopies :
          /\ status[<<d[1], n>>] = "none"
          /\ status' = [status EXCEPT ![<<d[1], n>>] = "pending"]
          /\ src' = [src EXCEPT ![<<d[1], n>>] = d]
    BY <1>2 DEF StageDraft, Stage
  <2> DEFINE i == <<d[1], n>>
  <2>2. /\ i \in Recs /\ i[1] = d[1] /\ status[i] = "none"
        /\ status' = [status EXCEPT ![i] = "pending"]
        /\ src' = [src EXCEPT ![i] = d]
    BY <2>1
  <2> HIDE DEF i
  <2>3. DeliveringIsApproved'
    BY <1>2, <2>2 DEF StageDraft, TakeDraft
  <2>4. LeftIsCounted'
    BY <1>2, <2>2 DEF StageDraft, TakeDraft
  <2>5. SentMeansLeft'
    BY <1>2, <2>2 DEF StageDraft, TakeDraft
  <2>6. StagedHasRecord'
    BY <1>2, <2>2 DEF StageDraft, TakeDraft
  <2>7. ToldIsCounted'
    BY <1>2, <2>2 DEF StageDraft, TakeDraft
  <2> QED
    BY <2>3, <2>4, <2>5, <2>6, <2>7
<1>3. CASE SaveDraft(d)
  BY <1>3 DEF SaveDraft, TakeDraft
<1>4. CASE RefuseDraft(d)
  BY <1>4 DEF RefuseDraft, TakeDraft, FinishDraft
<1>5. CASE DraftQueued(d)
  BY <1>5 DEF DraftQueued, FinishDraft
<1>6. CASE DraftLeaves(d)
  BY <1>6 DEF DraftLeaves
<1>7. CASE DraftSent(d)
  BY <1>7 DEF DraftSent, FinishDraft
<1>8. CASE DraftSaved(d)
  BY <1>8 DEF DraftSaved, FinishDraft
<1>9. CASE DraftFails(d)
  BY <1>9 DEF DraftFails, FinishDraft
<1>10. CASE DraftRetries(d)
  BY <1>10 DEF DraftRetries, FinishDraft
<1> HIDE DEF Recorded
<1> QED
  BY <1>1, <1>2, <1>3, <1>4, <1>5, <1>6, <1>7, <1>8, <1>9, <1>10 DEF EmailDriver

\* No step of the approvals driver records as sent what has not left, or leaves a draft without its record.
LEMMA ApprovalsDriverIsRecorded ==
  ASSUME Permitted, Permitted', Recorded, NEW i \in Recs, ApprovalsDriver(i) PROVE Recorded'
<1>1. CASE Announce(i)
  BY <1>1 DEF Announce, TakeRecord
<1>2. CASE BeginReject(i)
  BY <1>2 DEF BeginReject, TakeRecord
<1>3. CASE TellRejected(i)
  BY <1>3 DEF TellRejected
<1>4. CASE EndReject(i)
  BY <1>4 DEF EndReject
<1>5. CASE RefuseRecord(i)
  BY <1>5 DEF RefuseRecord, TakeRecord, FinishRecord
<1>6. CASE DeliverInline(i)
  BY <1>6 DEF DeliverInline, TakeRecord
<1>7. CASE InlineLeaves(i)
  BY <1>7 DEF InlineLeaves
<1>8. CASE InlineSent(i)
  BY <1>8 DEF InlineSent, FinishRecord
<1>9. CASE InlineFails(i)
  BY <1>9 DEF InlineFails, FinishRecord
<1>10. CASE DeliverEmail(i)
  BY <1>10 DEF DeliverEmail, TakeRecord
<1>11. CASE DeliverWhatsapp(i)
  BY <1>11 DEF DeliverWhatsapp, TakeRecord
<1>12. CASE Dispatched(i)
  BY <1>12 DEF Dispatched, FinishRecord
<1> HIDE DEF Recorded
<1> QED
  BY <1>1, <1>2, <1>3, <1>4, <1>5, <1>6, <1>7, <1>8, <1>9, <1>10, <1>11, <1>12 DEF ApprovalsDriver

\* No step of the whatsapp outbox records as sent what has not left, or leaves a draft without its record.
LEMMA OutboxTaskIsRecorded ==
  ASSUME Permitted, Permitted', Recorded, NEW f \in outbox, OutboxTask(f) PROVE Recorded'
<1>1. CASE DropHandoff(f)
  BY <1>1 DEF DropHandoff, TakeHandoff
<1>2. CASE UndeliverableHandoff(f)
  BY <1>2 DEF UndeliverableHandoff, TakeHandoff
<1>3. CASE SendHandoff(f)
  BY <1>3 DEF SendHandoff, TakeHandoff
<1>4. CASE HandoffLeaves(f)
  BY <1>4 DEF HandoffLeaves
<1>5. CASE HandoffSent(f)
  BY <1>5 DEF HandoffSent
<1>6. CASE HandoffFails(f)
  BY <1>6 DEF HandoffFails
<1> HIDE DEF Recorded
<1> QED
  BY <1>1, <1>2, <1>3, <1>4, <1>5, <1>6 DEF OutboxTask

\* No step of a PAI, of the owner, and no stop or death records as sent what has not left, or leaves a draft without its record.
LEMMA EnvironmentIsRecorded ==
  ASSUME Permitted, Permitted', Recorded, Environment PROVE Recorded'
<1>1. ASSUME NEW r \in Reqs, Submit(r) PROVE Recorded'
  <2>1. CASE Channel[r] = "email"
    <3>1. draft' = [draft EXCEPT ![<<r, 0>>] = "new"] /\ line' = line
      BY <1>1, <2>1 DEF Submit
    <3> QED
      BY <1>1, <2>1, <3>1 DEF Submit
  <2>2. CASE Channel[r] # "email"
    <3>1. line' = [line EXCEPT ![r] = "written"] /\ draft' = draft
      BY <1>1, <2>2 DEF Submit
    <3> QED
      BY <1>1, <2>2, <3>1 DEF Submit
  <2> QED
    BY <2>1, <2>2
<1>2. ASSUME NEW c \in LineChannels, ProjectFreeze(c) PROVE Recorded'
  BY <1>2 DEF ProjectFreeze
<1>3. ASSUME NEW c \in Channels, NEW m \in Modes, SetMode(c, m) PROVE Recorded'
  BY <1>3 DEF SetMode
<1>4. ASSUME NEW i \in Recs, Decide(i, "approved") PROVE Recorded'
  BY <1>4 DEF Decide
<1>5. ASSUME NEW i \in Recs, Decide(i, "rejected") PROVE Recorded'
  BY <1>5 DEF Decide
<1>6. ASSUME NEW t \in Tasks, Stop(t) PROVE Recorded'
  BY <1>6 DEF Stop
<1>7. CASE KernelDies
  BY <1>7 DEF KernelDies
<1>8. ASSUME NEW c \in LineChannels, ChunkAborts(c) PROVE Recorded'
  BY <1>8 DEF ChunkAborts
<1> HIDE DEF Recorded
<1> QED
  BY <1>1, <1>2, <1>3, <1>4, <1>5, <1>6, <1>7, <1>8 DEF Environment

\* Nor does the start of a task, a saved cursor, a step in which nothing changes.
LEMMA StartIsRecorded ==
  ASSUME Permitted, Permitted', Recorded, NEW t \in Tasks, Start(t) PROVE Recorded'
  BY DEF Start

LEMMA SaveCursorIsRecorded ==
  ASSUME Permitted, Permitted', Recorded, NEW c \in LineChannels, SaveCursor(c) PROVE Recorded'
  BY DEF SaveCursor

LEMMA StutterIsRecorded ==
  ASSUME Permitted, Permitted', Recorded, UNCHANGED vars PROVE Recorded'
  BY DEF vars

HIDE DEF LeftIsCounted, SentMeansLeft, StagedHasRecord, HasRecord, ToldIsCounted

-----------------------------------------------------------------------------
(* One way out.                                                            *)

\* The places a request can still leave from: its line, a draft, a record, a handoff.
LineActive(r) == \/ lphase[r] = "sending"
                 \/ lphase[r] = "rest" /\ Channel[r] # "email" /\ line[r] # "consumed"

DraftActive(d) ==
  \/ dphase[d] \in {"sending", "saving"}
  \/ dphase[d] = "rest" /\ draft[d] \in {"new", "pending_parent"}
  \/ dphase[d] = "rest" /\ draft[d] = "absent" /\ d[2] = 0 /\ Channel[d[1]] = "email"

RecordActive(i) == \/ rphase[i] = "sending"
                   \/ status[i] = "pending"
                   \/ status[i] = "approved" /\ rphase[i] = "rest"

HandoffActive(f) == f \in outbox /\ f \notin boxLeft /\ f \notin tried

Idle(r) ==
  /\ ~LineActive(r)
  /\ \A d \in Drafts : d[1] = r => ~DraftActive(d)
  /\ \A i \in Recs : i[1] = r => ~RecordActive(i)
  /\ \A f \in outbox : f[1][1] = r => ~HandoffActive(f)

LineAlone ==
  /\ \A i \in Recs : RecordActive(i) => ~LineActive(i[1])
  /\ \A f \in outbox : HandoffActive(f) => ~LineActive(f[1][1])

DraftAlone ==
  /\ \A d, e \in Drafts : d[1] = e[1] /\ DraftActive(d) /\ DraftActive(e) => d = e
  /\ \A d \in Drafts, i \in Recs : d[1] = i[1] /\ DraftActive(d) => ~RecordActive(i)

RecordAlone ==
  /\ \A i, j \in Recs : i[1] = j[1] /\ RecordActive(i) /\ RecordActive(j) => i = j
  /\ \A i \in Recs, f \in outbox : i[1] = f[1][1] /\ HandoffActive(f) => ~RecordActive(i)

HandoffAlone ==
  \A f, g \in outbox : f[1][1] = g[1][1] /\ HandoffActive(f) /\ HandoffActive(g) => f = g

SentIsIdle == \A r \in Reqs : sends[r] > 0 => Idle(r)

RejectedIsIdle == \A i \in Recs : status[i] = "rejected" => sends[i[1]] = 0 /\ Idle(i[1])

NoSecondSource == /\ LineAlone /\ DraftAlone /\ RecordAlone /\ HandoffAlone
                  /\ SentIsIdle /\ RejectedIsIdle

\* A stopped task may leave a request with several sources.
OneWayOut == stops = 0 => NoSecondSource

USE DEF OneWayOut, NoSecondSource, LineAlone, DraftAlone, RecordAlone, HandoffAlone,
        SentIsIdle, RejectedIsIdle, Idle, LineActive, DraftActive, RecordActive, HandoffActive

LEMMA InitIsOneWay == Init => OneWayOut
  BY DEF Init

\* No step of a day-file driver opens a second way out for a request while nothing was stopped.
LEMMA LineDriverIsOneWay ==
  ASSUME Permitted, Permitted', Recorded, OneWayOut, NEW r \in Reqs, LineDriver(r) PROVE OneWayOut'
<1>1. CASE SendLine(r)
  BY <1>1 DEF SendLine, TakeLine, GrantIfAllowed
<1>2. CASE StageLine(r)
  <2>1. PICK n \in 1..MaxCopies :
          /\ status[<<r, n>>] = "none"
          /\ status' = [status EXCEPT ![<<r, n>>] = "pending"]
          /\ src' = [src EXCEPT ![<<r, n>>] = <<r, 0>>]
    BY <1>2 DEF StageLine, Stage
  <2> DEFINE i == <<r, n>>
  <2>2. /\ i \in Recs /\ i[1] = r /\ status[i] = "none"
        /\ status' = [status EXCEPT ![i] = "pending"]
        /\ src' = [src EXCEPT ![i] = <<r, 0>>]
    BY <2>1
  <2> HIDE DEF i
  <2> SUFFICES ASSUME stops = 0 PROVE NoSecondSource'
    BY <1>2 DEF StageLine
  <2>3. LineAlone'
    BY <1>2, <2>2 DEF StageLine, TakeLine
  <2>4. DraftAlone'
    BY <1>2, <2>2 DEF StageLine, TakeLine
  <2>5. RecordAlone'
    BY <1>2, <2>2 DEF StageLine, TakeLine
  <2>6. HandoffAlone'
    BY <1>2, <2>2 DEF StageLine, TakeLine
  <2>7. SentIsIdle'
    BY <1>2, <2>2 DEF StageLine, TakeLine
  <2>8. RejectedIsIdle'
    BY <1>2, <2>2 DEF StageLine, TakeLine
  <2> QED
    BY <2>3, <2>4, <2>5, <2>6, <2>7, <2>8
<1>3. CASE LineQueued(r)
  BY <1>3 DEF LineQueued, FinishLine
<1>4. CASE RefuseLine(r)
  BY <1>4 DEF RefuseLine, TakeLine, FinishLine
<1>5. CASE LineLeaves(r)
  <2> SUFFICES ASSUME stops = 0 PROVE NoSecondSource'
    BY <1>5 DEF LineLeaves
  <2>1. LineAlone'
    BY <1>5 DEF LineLeaves
  <2>2. DraftAlone'
    BY <1>5 DEF LineLeaves
  <2>3. RecordAlone'
    BY <1>5 DEF LineLeaves
  <2>4. HandoffAlone'
    BY <1>5 DEF LineLeaves
  <2>5. SentIsIdle'
    BY <1>5 DEF LineLeaves
  <2>6. RejectedIsIdle'
    BY <1>5 DEF LineLeaves
  <2> QED
    BY <2>1, <2>2, <2>3, <2>4, <2>5, <2>6
<1>6. CASE LineSent(r)
  BY <1>6 DEF LineSent, FinishLine
<1>7. CASE LineFails(r)
  BY <1>7 DEF LineFails, FinishLine
<1> HIDE DEF OneWayOut
<1> QED
  BY <1>1, <1>2, <1>3, <1>4, <1>5, <1>6, <1>7 DEF LineDriver

\* No step of the email driver opens a second way out for a request while nothing was stopped.
LEMMA EmailDriverIsOneWay ==
  ASSUME Permitted, Permitted', Recorded, OneWayOut, NEW d \in Drafts, EmailDriver(d) PROVE OneWayOut'
<1>1. CASE SendDraft(d)
  BY <1>1 DEF SendDraft, TakeDraft, GrantIfAllowed
<1>2. CASE StageDraft(d)
  <2>1. PICK n \in 1..MaxCopies :
          /\ status[<<d[1], n>>] = "none"
          /\ status' = [status EXCEPT ![<<d[1], n>>] = "pending"]
          /\ src' = [src EXCEPT ![<<d[1], n>>] = d]
    BY <1>2 DEF StageDraft, Stage
  <2> DEFINE i == <<d[1], n>>
  <2>2. /\ i \in Recs /\ i[1] = d[1] /\ status[i] = "none"
        /\ status' = [status EXCEPT ![i] = "pending"]
        /\ src' = [src EXCEPT ![i] = d]
    BY <2>1
  <2> HIDE DEF i
  <2> SUFFICES ASSUME stops = 0 PROVE NoSecondSource'
    BY <1>2 DEF StageDraft
  <2>3. LineAlone'
    BY <1>2, <2>2 DEF StageDraft, TakeDraft
  <2>4. DraftAlone'
    BY <1>2, <2>2 DEF StageDraft, TakeDraft
  <2>5. RecordAlone'
    BY <1>2, <2>2 DEF StageDraft, TakeDraft
  <2>6. HandoffAlone'
    BY <1>2, <2>2 DEF StageDraft, TakeDraft
  <2>7. SentIsIdle'
    BY <1>2, <2>2 DEF StageDraft, TakeDraft
  <2>8. RejectedIsIdle'
    BY <1>2, <2>2 DEF StageDraft, TakeDraft
  <2> QED
    BY <2>3, <2>4, <2>5, <2>6, <2>7, <2>8
<1>3. CASE SaveDraft(d)
  BY <1>3 DEF SaveDraft, TakeDraft
<1>4. CASE RefuseDraft(d)
  BY <1>4 DEF RefuseDraft, TakeDraft, FinishDraft
<1>5. CASE DraftQueued(d)
  BY <1>5 DEF DraftQueued, FinishDraft
<1>6. CASE DraftLeaves(d)
  <2> SUFFICES ASSUME stops = 0 PROVE NoSecondSource'
    BY <1>6 DEF DraftLeaves
  <2>1. LineAlone'
    BY <1>6 DEF DraftLeaves
  <2>2. DraftAlone'
    BY <1>6 DEF DraftLeaves
  <2>3. RecordAlone'
    BY <1>6 DEF DraftLeaves
  <2>4. HandoffAlone'
    BY <1>6 DEF DraftLeaves
  <2>5. SentIsIdle'
    BY <1>6 DEF DraftLeaves
  <2>6. RejectedIsIdle'
    BY <1>6 DEF DraftLeaves
  <2> QED
    BY <2>1, <2>2, <2>3, <2>4, <2>5, <2>6
<1>7. CASE DraftSent(d)
  BY <1>7 DEF DraftSent, FinishDraft
<1>8. CASE DraftSaved(d)
  BY <1>8 DEF DraftSaved, FinishDraft
<1>9. CASE DraftFails(d)
  BY <1>9 DEF DraftFails, FinishDraft
<1>10. CASE DraftRetries(d)
  BY <1>10 DEF DraftRetries, FinishDraft
<1> HIDE DEF OneWayOut
<1> QED
  BY <1>1, <1>2, <1>3, <1>4, <1>5, <1>6, <1>7, <1>8, <1>9, <1>10 DEF EmailDriver

\* No step of the approvals driver opens a second way out for a request while nothing was stopped.
LEMMA ApprovalsDriverIsOneWay ==
  ASSUME Permitted, Permitted', Recorded, OneWayOut, NEW i \in Recs, ApprovalsDriver(i) PROVE OneWayOut'
<1>1. CASE Announce(i)
  BY <1>1 DEF Announce, TakeRecord
<1>2. CASE BeginReject(i)
  BY <1>2 DEF BeginReject, TakeRecord
<1>3. CASE TellRejected(i)
  BY <1>3 DEF TellRejected
<1>4. CASE EndReject(i)
  BY <1>4 DEF EndReject
<1>5. CASE RefuseRecord(i)
  BY <1>5 DEF RefuseRecord, TakeRecord, FinishRecord
<1>6. CASE DeliverInline(i)
  BY <1>6 DEF DeliverInline, TakeRecord
<1>7. CASE InlineLeaves(i)
  BY <1>7 DEF InlineLeaves
<1>8. CASE InlineSent(i)
  BY <1>8 DEF InlineSent, FinishRecord
<1>9. CASE InlineFails(i)
  BY <1>9 DEF InlineFails, FinishRecord
<1>10. CASE DeliverEmail(i)
  BY <1>10 DEF DeliverEmail, TakeRecord
<1>11. CASE DeliverWhatsapp(i)
  <2> SUFFICES ASSUME stops = 0 PROVE NoSecondSource'
    BY <1>11 DEF DeliverWhatsapp
  <2>1. LineAlone'
    BY <1>11 DEF DeliverWhatsapp, TakeRecord
  <2>2. DraftAlone'
    BY <1>11 DEF DeliverWhatsapp, TakeRecord
  <2>3. RecordAlone'
    BY <1>11 DEF DeliverWhatsapp, TakeRecord
  <2>4. HandoffAlone'
    <3> DEFINE h == <<i, token>>
    <3>1. /\ RecordActive(i) /\ outbox' = outbox \cup {h} /\ h[1] = i
          /\ UNCHANGED <<boxLeft, tried>>
      BY <1>11 DEF DeliverWhatsapp, TakeRecord
    <3> HIDE DEF h
    <3>2. \A g \in outbox : g[1][1] = i[1] => ~HandoffActive(g)
      BY <3>1
    <3>3. \A g \in outbox' : HandoffActive(g)' => g = h \/ HandoffActive(g)
      BY ONLY <3>1 DEF HandoffActive
    <3> QED
      BY <3>1, <3>2, <3>3
  <2>5. SentIsIdle'
    BY <1>11 DEF DeliverWhatsapp, TakeRecord
  <2>6. RejectedIsIdle'
    BY <1>11 DEF DeliverWhatsapp, TakeRecord
  <2> QED
    BY <2>1, <2>2, <2>3, <2>4, <2>5, <2>6
<1>12. CASE Dispatched(i)
  BY <1>12 DEF Dispatched, FinishRecord
<1> HIDE DEF OneWayOut
<1> QED
  BY <1>1, <1>2, <1>3, <1>4, <1>5, <1>6, <1>7, <1>8, <1>9, <1>10, <1>11, <1>12 DEF ApprovalsDriver

\* No step of the whatsapp outbox opens a second way out for a request while nothing was stopped.
LEMMA OutboxTaskIsOneWay ==
  ASSUME Permitted, Permitted', Recorded, OneWayOut, NEW f \in outbox, OutboxTask(f) PROVE OneWayOut'
<1>1. CASE DropHandoff(f)
  BY <1>1 DEF DropHandoff, TakeHandoff
<1>2. CASE UndeliverableHandoff(f)
  BY <1>2 DEF UndeliverableHandoff, TakeHandoff
<1>3. CASE SendHandoff(f)
  BY <1>3 DEF SendHandoff, TakeHandoff
<1>4. CASE HandoffLeaves(f)
  <2> SUFFICES ASSUME stops = 0 PROVE NoSecondSource'
    BY <1>4 DEF HandoffLeaves
  <2>1. LineAlone'
    BY <1>4 DEF HandoffLeaves
  <2>2. DraftAlone'
    BY <1>4 DEF HandoffLeaves
  <2>3. RecordAlone'
    BY <1>4 DEF HandoffLeaves
  <2>4. HandoffAlone'
    BY <1>4 DEF HandoffLeaves
  <2>5. SentIsIdle'
    BY <1>4 DEF HandoffLeaves
  <2>6. RejectedIsIdle'
    BY <1>4 DEF HandoffLeaves
  <2> QED
    BY <2>1, <2>2, <2>3, <2>4, <2>5, <2>6
<1>5. CASE HandoffSent(f)
  BY <1>5 DEF HandoffSent
<1>6. CASE HandoffFails(f)
  BY <1>6 DEF HandoffFails
<1> HIDE DEF OneWayOut
<1> QED
  BY <1>1, <1>2, <1>3, <1>4, <1>5, <1>6 DEF OutboxTask

\* No step of a PAI, of the owner, and no stop or death opens a second way out for a request while nothing was stopped.
LEMMA EnvironmentIsOneWay ==
  ASSUME Permitted, Permitted', Recorded, OneWayOut, Environment PROVE OneWayOut'
<1>1. ASSUME NEW r \in Reqs, Submit(r) PROVE OneWayOut'
  <2>1. CASE Channel[r] = "email"
    <3>1. /\ draft[<<r, 0>>] = "absent" /\ line' = line
          /\ draft' = [draft EXCEPT ![<<r, 0>>] = "new"]
      BY <1>1, <2>1 DEF Submit
    <3>2. ASSUME NEW d \in Drafts, DraftActive(d)' PROVE DraftActive(d)
      <4>1. CASE d = <<r, 0>>
        BY <1>1, <2>1, <3>1, <3>2, <4>1 DEF Submit
      <4>2. CASE d # <<r, 0>>
        BY <1>1, <3>1, <3>2, <4>2 DEF Submit
      <4> QED
        BY <4>1, <4>2
    <3>3. \A q \in Reqs : Idle(q) => Idle(q)'
      BY <1>1, <3>1, <3>2 DEF Submit
    <3> QED
      BY <1>1, <3>1, <3>2, <3>3 DEF Submit
  <2>2. CASE Channel[r] # "email"
    <3>1. line' = [line EXCEPT ![r] = "written"] /\ draft' = draft
      BY <1>1, <2>2 DEF Submit
    <3> QED
      BY <1>1, <2>2, <3>1 DEF Submit
  <2> QED
    BY <2>1, <2>2
<1>2. ASSUME NEW c \in LineChannels, ProjectFreeze(c) PROVE OneWayOut'
  BY <1>2 DEF ProjectFreeze
<1>3. ASSUME NEW c \in Channels, NEW m \in Modes, SetMode(c, m) PROVE OneWayOut'
  BY <1>3 DEF SetMode
<1>4. ASSUME NEW i \in Recs, Decide(i, "approved") PROVE OneWayOut'
  BY <1>4 DEF Decide
<1>5. ASSUME NEW i \in Recs, Decide(i, "rejected") PROVE OneWayOut'
  <2> SUFFICES ASSUME stops = 0 PROVE NoSecondSource'
    BY <1>5 DEF Decide
  <2>1. RecordActive(i) /\ sends[i[1]] = 0
    <3>1. RecordActive(i) /\ ~Idle(i[1])
      BY <1>5 DEF Decide
    <3>2. i[1] \in Reqs
      OBVIOUS
    <3>3. (sends[i[1]] > 0 => Idle(i[1])) /\ sends[i[1]] \in Nat
      BY <1>5, <3>2 DEF Decide
    <3> HIDE DEF Idle, RecordActive
    <3> QED
      BY <3>1, <3>3
  <2>2. /\ \A r \in Reqs : LineActive(r)' = LineActive(r)
        /\ \A d \in Drafts : DraftActive(d)' = DraftActive(d)
        /\ \A f \in outbox : HandoffActive(f)' = HandoffActive(f)
        /\ \A j \in Recs : RecordActive(j)' => RecordActive(j) /\ j # i
    BY <1>5 DEF Decide
  <2>3. Idle(i[1])'
    BY <1>5, <2>1, <2>2 DEF Decide
  <2>4. \A r \in Reqs : Idle(r) => Idle(r)'
    BY <1>5, <2>2 DEF Decide
  <2>5. RejectedIsIdle'
    BY <1>5, <2>1, <2>3, <2>4 DEF Decide
  <2>6. SentIsIdle'
    BY <1>5, <2>4 DEF Decide
  <2>7. LineAlone' /\ DraftAlone'
    BY <1>5, <2>2 DEF Decide
  <2>8. RecordAlone' /\ HandoffAlone'
    BY <1>5, <2>2 DEF Decide
  <2> QED
    BY <2>5, <2>6, <2>7, <2>8
<1>6. ASSUME NEW t \in Tasks, Stop(t) PROVE OneWayOut'
  BY <1>6 DEF Stop
<1>7. CASE KernelDies
  BY <1>7 DEF KernelDies
<1>8. ASSUME NEW c \in LineChannels, ChunkAborts(c) PROVE OneWayOut'
  BY <1>8 DEF ChunkAborts
<1> HIDE DEF OneWayOut
<1> QED
  BY <1>1, <1>2, <1>3, <1>4, <1>5, <1>6, <1>7, <1>8 DEF Environment

\* Nor does the start of a task, a saved cursor, a step in which nothing changes.
LEMMA StartIsOneWay ==
  ASSUME Permitted, Permitted', Recorded, OneWayOut, NEW t \in Tasks, Start(t) PROVE OneWayOut'
  BY DEF Start

LEMMA SaveCursorIsOneWay ==
  ASSUME Permitted, Permitted', Recorded, OneWayOut, NEW c \in LineChannels, SaveCursor(c) PROVE OneWayOut'
  BY SMTT(30) DEF SaveCursor

LEMMA StutterIsOneWay ==
  ASSUME Permitted, Permitted', Recorded, OneWayOut, UNCHANGED vars PROVE OneWayOut'
  BY DEF vars

HIDE DEF OneWayOut, NoSecondSource, LineAlone, DraftAlone, RecordAlone, HandoffAlone,
         RejectedIsIdle

-----------------------------------------------------------------------------
(* Safety of the specification.                                            *)

Safe == Permitted /\ Recorded /\ OneWayOut

HIDE DEF Permitted, Recorded

\* Every step of the system keeps the three invariants.
LEMMA NextKeepsSafe == ASSUME Safe, [Next]_vars PROVE Safe'
<1>1. CASE UNCHANGED vars
  BY <1>1, StutterIsPermitted, StutterIsRecorded, StutterIsOneWay DEF Safe
<1>2. CASE \E r \in Reqs : LineDriver(r)
  BY <1>2, LineDriverIsPermitted, LineDriverIsRecorded, LineDriverIsOneWay DEF Safe
<1>3. CASE \E d \in Drafts : EmailDriver(d)
  BY <1>3, EmailDriverIsPermitted, EmailDriverIsRecorded, EmailDriverIsOneWay DEF Safe
<1>4. CASE \E i \in Recs : ApprovalsDriver(i)
  BY <1>4, ApprovalsDriverIsPermitted, ApprovalsDriverIsRecorded, ApprovalsDriverIsOneWay DEF Safe
<1>5. CASE \E f \in outbox : OutboxTask(f)
  BY <1>5, OutboxTaskIsPermitted, OutboxTaskIsRecorded, OutboxTaskIsOneWay DEF Safe
<1>6. CASE \E t \in Tasks : Start(t)
  BY <1>6, StartIsPermitted, StartIsRecorded, StartIsOneWay DEF Safe
<1>7. CASE \E c \in LineChannels : SaveCursor(c)
  BY <1>7, SaveCursorIsPermitted, SaveCursorIsRecorded, SaveCursorIsOneWay DEF Safe
<1>8. CASE Environment
  BY <1>8, EnvironmentIsPermitted, EnvironmentIsRecorded, EnvironmentIsOneWay DEF Safe
<1> QED
  BY <1>1, <1>2, <1>3, <1>4, <1>5, <1>6, <1>7, <1>8 DEF Next, Drivers

\* The three invariants hold in every state the system reaches.
THEOREM SafeAlways == Spec => []Safe
<1>1. Init => Safe
  BY InitIsPermitted, InitIsRecorded, InitIsOneWay DEF Safe
<1>2. Safe /\ [Next]_vars => Safe'
  BY NextKeepsSafe
<1> QED
  BY <1>1, <1>2, PTL DEF Spec

\* Every variable keeps to its type: a handoff the outbox task holds is on disk.
THEOREM TypeCorrect == Spec => []TypeOK
  BY SafeAlways, PTL DEF Safe, Permitted

\* Nothing leaves the machine that the owner's mode, allowlist or decision did not
\* allow, with any number of stops, kernel deaths, records and token rotations.
THEOREM OwnerIsAsked == Spec => []NothingLeavesUngranted
  BY SafeAlways, PTL DEF Safe, Permitted

\* Whatever can still send a request (a line, a stamped draft, a record, a handoff)
\* was made from a decision that allowed it.
THEOREM PermissionIsKept == Spec => []PermissionTravels
  BY SafeAlways, PTL DEF Safe, Permitted

\* What a record or a draft reports as sent has left.
THEOREM SentHasLeft == Spec => []SentMeansLeft
  BY SafeAlways, PTL DEF Safe, Recorded

\* A draft that waits for approval has a record, wherever the kernel died.
THEOREM WaitingHasRecord == Spec => []WaitingDraftHasRecord
<1>1. Safe => WaitingDraftHasRecord
  BY DEF Safe, Recorded, StagedHasRecord, HasRecord, WaitingDraftHasRecord
<1> QED
  BY <1>1, SafeAlways, PTL

\* A rejection is told once in the life of a kernel, however often the task restarts.
THEOREM ToldOnce == Spec => []RejectionToldOnce
<1>1. Safe => RejectionToldOnce
  BY DEF Safe, Recorded, ToldIsCounted, RejectionToldOnce
<1> QED
  BY <1>1, SafeAlways, PTL

\* While nothing was stopped, a rejected request has not left.
THEOREM RejectedStays == Spec => []RejectedStaysHome
<1>1. Safe => RejectedStaysHome
  BY DEF Safe, OneWayOut, NoSecondSource, RejectedIsIdle, RejectedStaysHome
<1> QED
  BY <1>1, SafeAlways, PTL

-----------------------------------------------------------------------------
(* Action properties and refinement.                                       *)

OutcomesKept == \A i \in Recs : status[i] \in Terminal => status'[i] = status[i]

\* No step takes a record out of a terminal status.
LEMMA NextKeepsOutcomes == ASSUME Safe, [Next]_vars PROVE OutcomesKept
<1> USE DEF Safe, Permitted, TypeOK, Recorded, DeliveringIsApproved
<1>1. ASSUME NEW r \in Reqs, LineDriver(r) PROVE OutcomesKept
  <2>1. CASE SendLine(r)
    BY <2>1 DEF SendLine, TakeLine, GrantIfAllowed, OutcomesKept
  <2>2. CASE StageLine(r)
    <3>1. PICK n \in 1..MaxCopies : /\ status[<<r, n>>] = "none"
                                  /\ status' = [status EXCEPT ![<<r, n>>] = "pending"]
      BY <2>2 DEF StageLine, Stage
    <3> QED
      BY <3>1 DEF OutcomesKept
  <2>3. CASE LineQueued(r)
    BY <2>3 DEF LineQueued, FinishLine, OutcomesKept
  <2>4. CASE RefuseLine(r)
    BY <2>4 DEF RefuseLine, TakeLine, FinishLine, OutcomesKept
  <2>5. CASE LineLeaves(r)
    BY <2>5 DEF LineLeaves, OutcomesKept
  <2>6. CASE LineSent(r)
    BY <2>6 DEF LineSent, FinishLine, OutcomesKept
  <2>7. CASE LineFails(r)
    BY <2>7 DEF LineFails, FinishLine, OutcomesKept
  <2> QED
    BY <1>1, <2>1, <2>2, <2>3, <2>4, <2>5, <2>6, <2>7 DEF LineDriver
<1>2. ASSUME NEW d \in Drafts, EmailDriver(d) PROVE OutcomesKept
  <2>1. CASE SendDraft(d)
    BY <2>1 DEF SendDraft, TakeDraft, GrantIfAllowed, OutcomesKept
  <2>2. CASE StageDraft(d)
    <3>1. PICK n \in 1..MaxCopies : /\ status[<<d[1], n>>] = "none"
                                  /\ status' = [status EXCEPT ![<<d[1], n>>] = "pending"]
      BY <2>2 DEF StageDraft, Stage
    <3> QED
      BY <3>1 DEF OutcomesKept
  <2>3. CASE SaveDraft(d)
    BY <2>3 DEF SaveDraft, TakeDraft, OutcomesKept
  <2>4. CASE RefuseDraft(d)
    BY <2>4 DEF RefuseDraft, TakeDraft, FinishDraft, OutcomesKept
  <2>5. CASE DraftQueued(d)
    BY <2>5 DEF DraftQueued, FinishDraft, OutcomesKept
  <2>6. CASE DraftLeaves(d)
    BY <2>6 DEF DraftLeaves, OutcomesKept
  <2>7. CASE DraftSent(d)
    BY <2>7 DEF DraftSent, FinishDraft, OutcomesKept
  <2>8. CASE DraftSaved(d)
    BY <2>8 DEF DraftSaved, FinishDraft, OutcomesKept
  <2>9. CASE DraftFails(d)
    BY <2>9 DEF DraftFails, FinishDraft, OutcomesKept
  <2>10. CASE DraftRetries(d)
    BY <2>10 DEF DraftRetries, FinishDraft, OutcomesKept
  <2> QED
    BY <1>2, <2>1, <2>2, <2>3, <2>4, <2>5, <2>6, <2>7, <2>8, <2>9, <2>10 DEF EmailDriver
<1>3. ASSUME NEW i \in Recs, ApprovalsDriver(i) PROVE OutcomesKept
  <2>1. CASE Announce(i)
    BY <2>1 DEF Announce, TakeRecord, OutcomesKept
  <2>2. CASE BeginReject(i)
    BY <2>2 DEF BeginReject, TakeRecord, OutcomesKept
  <2>3. CASE TellRejected(i)
    BY <2>3 DEF TellRejected, OutcomesKept
  <2>4. CASE EndReject(i)
    BY <2>4 DEF EndReject, OutcomesKept
  <2>5. CASE RefuseRecord(i)
    BY <2>5 DEF RefuseRecord, TakeRecord, FinishRecord, OutcomesKept
  <2>6. CASE DeliverInline(i)
    BY <2>6 DEF DeliverInline, TakeRecord, OutcomesKept
  <2>7. CASE InlineLeaves(i)
    BY <2>7 DEF InlineLeaves, OutcomesKept
  <2>8. CASE InlineSent(i)
    BY <2>8 DEF InlineSent, FinishRecord, OutcomesKept
  <2>9. CASE InlineFails(i)
    BY <2>9 DEF InlineFails, FinishRecord, OutcomesKept
  <2>10. CASE DeliverEmail(i)
    BY <2>10 DEF DeliverEmail, TakeRecord, OutcomesKept
  <2>11. CASE DeliverWhatsapp(i)
    BY <2>11 DEF DeliverWhatsapp, TakeRecord, OutcomesKept
  <2>12. CASE Dispatched(i)
    BY <2>12 DEF Dispatched, FinishRecord, OutcomesKept
  <2> QED
    BY <1>3, <2>1, <2>2, <2>3, <2>4, <2>5, <2>6, <2>7, <2>8, <2>9, <2>10, <2>11, <2>12 DEF ApprovalsDriver
<1>4. ASSUME NEW f \in outbox, OutboxTask(f) PROVE OutcomesKept
  <2>1. CASE DropHandoff(f)
    BY <2>1 DEF DropHandoff, TakeHandoff, OutcomesKept
  <2>2. CASE UndeliverableHandoff(f)
    BY <2>2 DEF UndeliverableHandoff, TakeHandoff, OutcomesKept
  <2>3. CASE SendHandoff(f)
    BY <2>3 DEF SendHandoff, TakeHandoff, OutcomesKept
  <2>4. CASE HandoffLeaves(f)
    BY <2>4 DEF HandoffLeaves, OutcomesKept
  <2>5. CASE HandoffSent(f)
    BY <2>5 DEF HandoffSent, OutcomesKept
  <2>6. CASE HandoffFails(f)
    BY <2>6 DEF HandoffFails, OutcomesKept
  <2> QED
    BY <1>4, <2>1, <2>2, <2>3, <2>4, <2>5, <2>6 DEF OutboxTask
<1>5. ASSUME NEW t \in Tasks, Start(t) PROVE OutcomesKept
  BY <1>5 DEF Start, OutcomesKept
<1>6. ASSUME NEW c \in LineChannels, SaveCursor(c) PROVE OutcomesKept
  BY <1>6 DEF SaveCursor, OutcomesKept
<1>7. CASE Environment
  <2>1. ASSUME NEW r \in Reqs, Submit(r) PROVE OutcomesKept
    BY <2>1 DEF Submit, OutcomesKept
  <2>2. ASSUME NEW c \in LineChannels, ProjectFreeze(c) PROVE OutcomesKept
    BY <2>2 DEF ProjectFreeze, OutcomesKept
  <2>3. ASSUME NEW c \in Channels, NEW m \in Modes, SetMode(c, m) PROVE OutcomesKept
    BY <2>3 DEF SetMode, OutcomesKept
  <2>4. ASSUME NEW i \in Recs, Decide(i, "approved") PROVE OutcomesKept
    BY <2>4 DEF Decide, OutcomesKept
  <2>5. ASSUME NEW i \in Recs, Decide(i, "rejected") PROVE OutcomesKept
    BY <2>5 DEF Decide, OutcomesKept
  <2>6. ASSUME NEW t \in Tasks, Stop(t) PROVE OutcomesKept
    BY <2>6 DEF Stop, OutcomesKept
  <2>7. ASSUME NEW c \in LineChannels, ChunkAborts(c) PROVE OutcomesKept
    BY <2>7 DEF ChunkAborts, OutcomesKept
  <2>8. ASSUME KernelDies PROVE OutcomesKept
    BY <2>8 DEF KernelDies, OutcomesKept
  <2> QED
    BY <1>7, <2>1, <2>2, <2>3, <2>4, <2>5, <2>6, <2>7, <2>8 DEF Environment
<1>8. CASE UNCHANGED vars
  BY <1>8 DEF OutcomesKept
<1> QED
  BY <1>1, <1>2, <1>3, <1>4, <1>5, <1>6, <1>7, <1>8 DEF Next, Drivers

\* A record that was rejected, dispatched, sent or failed stays so, whatever is
\* stopped, and a delivery never overwrites a decision.
THEOREM OutcomesStay == Spec => OutcomeIsFinal
<1>1. Safe /\ [Next]_vars => [OutcomesKept]_vars
  BY NextKeepsOutcomes
<1> QED
  BY <1>1, SafeAlways, PTL DEF Spec, OutcomeIsFinal, OutcomesKept

\* The first state of the system is one of the owner's gate.
LEMMA InitIsGateInit == Init => Gate!GateInit
  BY DEF Init, Gate!GateInit

\* What a step of the system is to the owner's gate.
GateStep == [Gate!GateNext]_(Gate!gateVars)

USE DEF Gate!GateNext, Gate!gateVars, Gate!Grant, Gate!Send, Gate!Disturb

\* Every step of the system is a step of the owner's gate, or changes nothing of it.
LEMMA NextIsGateStep == ASSUME Safe, [Next]_vars PROVE GateStep
<1> USE DEF Safe, Permitted, TypeOK, Apart
<1>1. ASSUME NEW r \in Reqs, LineDriver(r) PROVE GateStep
  <2>1. CASE SendLine(r)
    BY <2>1 DEF SendLine, TakeLine, GrantIfAllowed, GateStep
  <2>2. CASE StageLine(r)
    BY <2>2 DEF StageLine, TakeLine, Stage, GateStep
  <2>3. CASE LineQueued(r)
    BY <2>3 DEF LineQueued, FinishLine, GateStep
  <2>4. CASE RefuseLine(r)
    BY <2>4 DEF RefuseLine, TakeLine, FinishLine, GateStep
  <2>5. CASE LineLeaves(r)
    <3>1. r \in Reqs /\ r \in granted
      BY <2>5 DEF LineLeaves, PermissionTravels
    <3>2. ~Idle(r)
      BY <2>5 DEF LineLeaves, Idle, LineActive
    <3>3. stops = 0 => sends[r] = 0
      BY <3>1, <3>2 DEF OneWayOut, NoSecondSource, SentIsIdle
    <3>4. Gate!Send(r)
      BY <2>5, <3>1, <3>3 DEF LineLeaves
    <3> HIDE DEF Gate!Send
    <3> QED
      BY <3>1, <3>4 DEF GateStep
  <2>6. CASE LineSent(r)
    BY <2>6 DEF LineSent, FinishLine, GateStep
  <2>7. CASE LineFails(r)
    BY <2>7 DEF LineFails, FinishLine, GateStep
  <2> QED
    BY <1>1, <2>1, <2>2, <2>3, <2>4, <2>5, <2>6, <2>7 DEF LineDriver
<1>2. ASSUME NEW d \in Drafts, EmailDriver(d) PROVE GateStep
  <2>1. CASE SendDraft(d)
    BY <2>1 DEF SendDraft, TakeDraft, GrantIfAllowed, GateStep
  <2>2. CASE StageDraft(d)
    BY <2>2 DEF StageDraft, TakeDraft, Stage, GateStep
  <2>3. CASE SaveDraft(d)
    BY <2>3 DEF SaveDraft, TakeDraft, GateStep
  <2>4. CASE RefuseDraft(d)
    BY <2>4 DEF RefuseDraft, TakeDraft, FinishDraft, GateStep
  <2>5. CASE DraftQueued(d)
    BY <2>5 DEF DraftQueued, FinishDraft, GateStep
  <2>6. CASE DraftLeaves(d)
    <3>1. d[1] \in Reqs /\ d[1] \in granted
      BY <2>6 DEF DraftLeaves, PermissionTravels
    <3>2. ~Idle(d[1])
      BY <2>6 DEF DraftLeaves, Idle, DraftActive
    <3>3. stops = 0 => sends[d[1]] = 0
      BY <3>1, <3>2 DEF OneWayOut, NoSecondSource, SentIsIdle
    <3>4. Gate!Send(d[1])
      BY <2>6, <3>1, <3>3 DEF DraftLeaves
    <3> HIDE DEF Gate!Send
    <3> QED
      BY <3>1, <3>4 DEF GateStep
  <2>7. CASE DraftSent(d)
    BY <2>7 DEF DraftSent, FinishDraft, GateStep
  <2>8. CASE DraftSaved(d)
    BY <2>8 DEF DraftSaved, FinishDraft, GateStep
  <2>9. CASE DraftFails(d)
    BY <2>9 DEF DraftFails, FinishDraft, GateStep
  <2>10. CASE DraftRetries(d)
    BY <2>10 DEF DraftRetries, FinishDraft, GateStep
  <2> QED
    BY <1>2, <2>1, <2>2, <2>3, <2>4, <2>5, <2>6, <2>7, <2>8, <2>9, <2>10 DEF EmailDriver
<1>3. ASSUME NEW i \in Recs, ApprovalsDriver(i) PROVE GateStep
  <2>1. CASE Announce(i)
    BY <2>1 DEF Announce, TakeRecord, GateStep
  <2>2. CASE BeginReject(i)
    BY <2>2 DEF BeginReject, TakeRecord, GateStep
  <2>3. CASE TellRejected(i)
    BY <2>3 DEF TellRejected, GateStep
  <2>4. CASE EndReject(i)
    BY <2>4 DEF EndReject, GateStep
  <2>5. CASE RefuseRecord(i)
    BY <2>5 DEF RefuseRecord, TakeRecord, FinishRecord, GateStep
  <2>6. CASE DeliverInline(i)
    BY <2>6 DEF DeliverInline, TakeRecord, GateStep
  <2>7. CASE InlineLeaves(i)
    <3>1. i[1] \in Reqs /\ i[1] \in granted
      BY <2>7 DEF InlineLeaves, PermissionTravels
    <3>2. ~Idle(i[1])
      BY <2>7 DEF InlineLeaves, Idle, RecordActive
    <3>3. stops = 0 => sends[i[1]] = 0
      BY <3>1, <3>2 DEF OneWayOut, NoSecondSource, SentIsIdle
    <3>4. Gate!Send(i[1])
      BY <2>7, <3>1, <3>3 DEF InlineLeaves
    <3> HIDE DEF Gate!Send
    <3> QED
      BY <3>1, <3>4 DEF GateStep
  <2>8. CASE InlineSent(i)
    BY <2>8 DEF InlineSent, FinishRecord, GateStep
  <2>9. CASE InlineFails(i)
    BY <2>9 DEF InlineFails, FinishRecord, GateStep
  <2>10. CASE DeliverEmail(i)
    BY <2>10 DEF DeliverEmail, TakeRecord, GateStep
  <2>11. CASE DeliverWhatsapp(i)
    BY <2>11 DEF DeliverWhatsapp, TakeRecord, GateStep
  <2>12. CASE Dispatched(i)
    BY <2>12 DEF Dispatched, FinishRecord, GateStep
  <2> QED
    BY <1>3, <2>1, <2>2, <2>3, <2>4, <2>5, <2>6, <2>7, <2>8, <2>9, <2>10, <2>11, <2>12 DEF ApprovalsDriver
<1>4. ASSUME NEW f \in outbox, OutboxTask(f) PROVE GateStep
  <2>1. CASE DropHandoff(f)
    BY <2>1 DEF DropHandoff, TakeHandoff, GateStep
  <2>2. CASE UndeliverableHandoff(f)
    BY <2>2 DEF UndeliverableHandoff, TakeHandoff, GateStep
  <2>3. CASE SendHandoff(f)
    BY <2>3 DEF SendHandoff, TakeHandoff, GateStep
  <2>4. CASE HandoffLeaves(f)
    <3>1. f[1][1] \in Reqs /\ f[1][1] \in granted
      BY <2>4 DEF HandoffLeaves, PermissionTravels
    <3>2. ~Idle(f[1][1])
      BY <2>4 DEF HandoffLeaves, Idle, HandoffActive
    <3>3. stops = 0 => sends[f[1][1]] = 0
      BY <3>1, <3>2 DEF OneWayOut, NoSecondSource, SentIsIdle
    <3>4. Gate!Send(f[1][1])
      BY <2>4, <3>1, <3>3 DEF HandoffLeaves
    <3> HIDE DEF Gate!Send
    <3> QED
      BY <3>1, <3>4 DEF GateStep
  <2>5. CASE HandoffSent(f)
    BY <2>5 DEF HandoffSent, GateStep
  <2>6. CASE HandoffFails(f)
    BY <2>6 DEF HandoffFails, GateStep
  <2> QED
    BY <1>4, <2>1, <2>2, <2>3, <2>4, <2>5, <2>6 DEF OutboxTask
<1>5. ASSUME NEW t \in Tasks, Start(t) PROVE GateStep
  BY <1>5 DEF Start, GateStep
<1>6. ASSUME NEW c \in LineChannels, SaveCursor(c) PROVE GateStep
  BY <1>6 DEF SaveCursor, GateStep
<1>7. CASE Environment
  <2>1. ASSUME NEW r \in Reqs, Submit(r) PROVE GateStep
    BY <2>1 DEF Submit, GateStep
  <2>2. ASSUME NEW c \in LineChannels, ProjectFreeze(c) PROVE GateStep
    BY <2>2 DEF ProjectFreeze, GateStep
  <2>3. ASSUME NEW c \in Channels, NEW m \in Modes, SetMode(c, m) PROVE GateStep
    BY <2>3 DEF SetMode, GateStep
  <2>4. ASSUME NEW i \in Recs, Decide(i, "approved") PROVE GateStep
    BY <2>4 DEF Decide, GateStep
  <2>5. ASSUME NEW i \in Recs, Decide(i, "rejected") PROVE GateStep
    BY <2>5 DEF Decide, GateStep
  <2>6. ASSUME NEW t \in Tasks, Stop(t) PROVE GateStep
    BY <2>6 DEF Stop, GateStep
  <2>7. ASSUME NEW c \in LineChannels, ChunkAborts(c) PROVE GateStep
    BY <2>7 DEF ChunkAborts, GateStep
  <2>8. ASSUME KernelDies PROVE GateStep
    BY <2>8 DEF KernelDies, GateStep
  <2> QED
    BY <1>7, <2>1, <2>2, <2>3, <2>4, <2>5, <2>6, <2>7, <2>8 DEF Environment
<1>8. CASE UNCHANGED vars
  BY <1>8 DEF GateStep
<1> HIDE DEF GateStep
<1> QED
  BY <1>1, <1>2, <1>3, <1>4, <1>5, <1>6, <1>7, <1>8 DEF Next, Drivers

\* The drivers, their files, tokens and restarts implement the owner's gate: nothing
\* leaves without leave, and nothing leaves twice unless a task was stopped.
THEOREM GateIsImplemented == Spec => ImplementsOwnerGate
<1>1. Init => Gate!GateInit
  BY InitIsGateInit
<1>2. Safe /\ [Next]_vars => [Gate!GateNext]_(Gate!gateVars)
  BY NextIsGateStep DEF GateStep
<1> QED
  BY <1>1, <1>2, SafeAlways, PTL DEF Spec, ImplementsOwnerGate, Gate!GateSpec

=============================================================================
