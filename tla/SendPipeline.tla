---------------------------- MODULE SendPipeline ----------------------------
(***************************************************************************)
(* Every outbound send of the registry: a PAI writes a bare line in a      *)
(* day-file (imessage, slack, whatsapp) or a draft yaml (email); the       *)
(* channel's outbound driver sends it, refuses it, or stages an approval   *)
(* record; the owner decides in the web console; the approvals driver      *)
(* delivers an approved record inline (imessage, slack) or hands it over   *)
(* with its grant token (a send-draft for email, an outbox file for        *)
(* whatsapp).                                                              *)
(*                                                                         *)
(* The drivers are asyncio tasks of one kernel process: between two awaits *)
(* a task runs alone, so the steps of a synchronous section are separate   *)
(* actions only because the kernel may die between two of its writes, and  *)
(* LoopFree keeps the other tasks out meanwhile.  The owner, the PAIs and  *)
(* the outside world interleave everywhere.                                *)
(***************************************************************************)
EXTENDS Naturals

CONSTANTS Reqs,        \* the sends the PAIs ask for
          Channel,     \* the channel of each
          Allowlisted, \* those whose recipients the owner's allowlist covers
          MaxCopies,   \* bound: approval records staged for one request
          MaxStops     \* bound: driver stops, kernel deaths, chunks given up

AllChannels  == {"imessage", "slack", "whatsapp", "email"}
Inline       == {"imessage", "slack"}    \* approvals delivers these itself
LossyAnswers == {"slack", "whatsapp"}    \* a send may leave and report failure

ASSUME ChannelAssumption == Channel \in [Reqs -> AllChannels]
ASSUME BoundsAssumption  == MaxCopies \in Nat /\ MaxStops \in Nat

Channels     == {Channel[r] : r \in Reqs}    \* the installed channels
LineChannels == Channels \ {"email"}         \* those that tail day-files

Recs   == Reqs \X (1..MaxCopies)    \* <<r, n>>: the n-th record staged for r
Drafts == Reqs \X (0..MaxCopies)    \* <<r, 0>>: the PAI's draft of r;
                                    \* <<r, n>>: approved-<id>.yaml of record <<r, n>>
Files  == Recs \X Nat               \* <<i, t>>: the handoff of record i with token t
Tasks  == Channels \cup {"approvals"}
Modes  == {"no", "ask", "yes"}

Undecided == {"pending"}
Terminal  == {"rejected", "dispatched", "sent", "failed"}
Statuses  == {"none", "approved"} \cup Undecided \cup Terminal

FinishedDraft == {"drafted", "sent", "failed", "pending_approval"}

VARIABLES
  mode, freeze,   \* per channel: capability mode in config.yaml; is the freeze file there?
  line,           \* per request: its day-file line, against the saved cursor
  draft,          \* per draft yaml: its draft_state ("absent": no file, "new": none set)
  stamp,          \* per draft yaml: its approved_token, 0 if it has none
  status,         \* per record: its status ("none": not staged yet)
  src,            \* per record: the draft its source_ref names (email)
  notified,       \* the records with a notified_at
  outbox,         \* the handoff files in sys/drivers/whatsapp/outbox
  token           \* the contents of grant.token, 0 if there is none

config  == <<mode, freeze>>
drafts  == <<draft, stamp>>
records == <<status, src, notified>>
disk    == <<config, line, drafts, records, outbox, token>>

VARIABLES
  up,             \* the driver tasks that run
  lphase, dphase, rphase,  \* where a driver stands in its work on a line, draft, record
  boxSending, boxLeft,     \* the handoff the outbox task is sending; has it left?
  tried,          \* the handoffs that failed since the task started
  memToken,       \* the approvals driver's _TOKEN
  announced, rejSeen       \* its _announced and _rejected_notified

phases == <<lphase, dphase, rphase>>
box    == <<boxSending, boxLeft, tried>>
mind   == <<memToken, announced, rejSeen>>
memory == <<up, phases, box, mind>>

VARIABLES         \* observers: nothing in the program reads them
  granted,        \* the requests the owner has allowed
  sends,          \* how often each request has left the machine
  told,           \* how often the PAI was told of a record's rejection
  refused,        \* the approved records whose handoff had no recipient
  stops, crashes  \* stops, deaths and given-up chunks; kernel deaths alone

faults    == <<stops, crashes>>
observers == <<granted, sends, told, refused, faults>>

vars == <<disk, memory, observers>>

Init ==
  /\ mode \in [Channels -> Modes]
  /\ freeze = [c \in LineChannels |-> mode[c] # "yes"]
  /\ line   = [r \in Reqs |-> "absent"]
  /\ draft  = [d \in Drafts |-> "absent"]
  /\ stamp  = [d \in Drafts |-> 0]
  /\ status = [i \in Recs |-> "none"]
  /\ src    = [i \in Recs |-> <<i[1], 0>>]
  /\ notified = {} /\ outbox = {} /\ token = 0
  /\ up = {}
  /\ lphase = [r \in Reqs |-> "rest"]
  /\ dphase = [d \in Drafts |-> "rest"]
  /\ rphase = [i \in Recs |-> "rest"]
  /\ boxSending = {} /\ boxLeft = {} /\ tried = {}
  /\ memToken = 0 /\ announced = {} /\ rejSeen = {}
  /\ granted = {}
  /\ sends = [r \in Reqs |-> 0]
  /\ told  = [i \in Recs |-> 0]
  /\ refused = {} /\ stops = 0 /\ crashes = 0

\* No task is inside a synchronous section.
LoopFree ==
  /\ \A r \in Reqs : lphase[r] # "staged"
  /\ \A d \in Drafts : dphase[d] # "staged"
  /\ \A i \in Recs : rphase[i] \notin {"dispatching", "rejecting", "told"}

-----------------------------------------------------------------------------
(* The PAIs and the owner.                                                 *)

Submit(r) ==
  /\ IF Channel[r] = "email"
       THEN /\ draft[<<r, 0>>] = "absent"
            /\ draft' = [draft EXCEPT ![<<r, 0>>] = "new"]
            /\ UNCHANGED line
       ELSE /\ line[r] = "absent"
            /\ line' = [line EXCEPT ![r] = "written"]
            /\ UNCHANGED draft
  /\ UNCHANGED <<config, stamp, records, outbox, token, memory, observers>>

SetMode(c, m) ==
  /\ mode' = [mode EXCEPT ![c] = m]
  /\ UNCHANGED <<freeze, line, drafts, records, outbox, token, memory, observers>>

\* The kernel projects the mode onto the freeze file, some time later.
ProjectFreeze(c) ==
  /\ freeze' = [freeze EXCEPT ![c] = mode[c] # "yes"]
  /\ UNCHANGED <<mode, line, drafts, records, outbox, token, memory, observers>>

Decide(i, verdict) ==
  /\ status[i] \in Undecided
  /\ status' = [status EXCEPT ![i] = verdict]
  /\ granted' = IF verdict = "approved" THEN granted \cup {i[1]} ELSE granted
  /\ UNCHANGED <<config, line, drafts, src, notified, outbox, token, memory,
                 sends, told, refused, faults>>

\* slack has no allowlist.
SentUnasked(r) == Channel[r] # "slack" /\ r \in Allowlisted

\* The owner's standing leave, as config.yaml has it when the driver looks.
OwnerAllows(r) == \/ mode[Channel[r]] = "yes"
                  \/ mode[Channel[r]] = "ask" /\ SentUnasked(r)

GrantIfAllowed(r) == granted' = IF OwnerAllows(r) THEN granted \cup {r} ELSE granted

-----------------------------------------------------------------------------
(* Staging: the n-th record of request r, written on behalf of draft d     *)
(* (the lines of the other channels have no source_ref).                   *)

Stage(r, d) ==
  \E n \in 1..MaxCopies :
    /\ status[<<r, n>>] = "none"
    /\ \A m \in 1..(n - 1) : status[<<r, m>>] # "none"
    /\ status' = [status EXCEPT ![<<r, n>>] = "pending"]
    /\ src' = [src EXCEPT ![<<r, n>>] = d]

-----------------------------------------------------------------------------
(* The day-file drivers: imessage-out, slack-out, whatsapp-out.            *)

Frozen(c) == mode[c] # "yes" \/ freeze[c]

\* The channel's tailer, which hands over one line at a time, hands over r's.
TakeLine(r) ==
  /\ Channel[r] \in LineChannels \cap up
  /\ LoopFree
  /\ line[r] = "written"
  /\ lphase[r] = "rest"
  /\ \A s \in Reqs : Channel[s] = Channel[r] => lphase[s] \in {"rest", "done"}

SendLine(r) ==
  /\ TakeLine(r)
  /\ \/ ~Frozen(Channel[r])
     \/ mode[Channel[r]] = "ask" /\ SentUnasked(r)
  /\ lphase' = [lphase EXCEPT ![r] = "sending"]
  /\ GrantIfAllowed(r)
  /\ UNCHANGED <<disk, up, dphase, rphase, box, mind, sends, told, refused, faults>>

StageLine(r) ==
  /\ TakeLine(r)
  /\ mode[Channel[r]] = "ask" /\ ~SentUnasked(r)
  /\ Stage(r, <<r, 0>>)
  /\ lphase' = [lphase EXCEPT ![r] = "staged"]
  /\ UNCHANGED <<config, line, drafts, notified, outbox, token, up, dphase, rphase, box, mind,
                 observers>>

\* on_line is done with the line; the cursor still stands before its chunk.
FinishLine(r) ==
  /\ lphase' = [lphase EXCEPT ![r] = "done"]
  /\ UNCHANGED <<disk, up, dphase, rphase, box, mind, observers>>

MutLineQueued(r) ==                                \* the line is handed over once more
  /\ lphase[r] = "staged"
  /\ lphase' = [lphase EXCEPT ![r] = "rest"]
  /\ UNCHANGED <<disk, up, dphase, rphase, box, mind, observers>>

LineQueued(r) == lphase[r] = "staged" /\ FinishLine(r)

RefuseLine(r) ==
  /\ TakeLine(r)
  /\ Frozen(Channel[r]) /\ mode[Channel[r]] # "ask"
  /\ FinishLine(r)

LineLeaves(r) ==
  /\ lphase[r] = "sending"
  /\ lphase' = [lphase EXCEPT ![r] = "left"]
  /\ sends' = [sends EXCEPT ![r] = @ + 1]
  /\ UNCHANGED <<disk, up, dphase, rphase, box, mind, granted, told, refused, faults>>

LineSent(r) == lphase[r] = "left" /\ LoopFree /\ FinishLine(r)

LineFails(r) ==
  /\ \/ lphase[r] = "sending"
     \/ lphase[r] = "left" /\ Channel[r] \in LossyAnswers
  /\ LoopFree
  /\ FinishLine(r)

\* The chunk is through: the cursor moves past all of its lines.
SaveCursor(c) ==
  LET done == {r \in Reqs : Channel[r] = c /\ lphase[r] = "done"}
  IN  /\ done # {}
      /\ \A r \in Reqs : Channel[r] = c => lphase[r] \in {"rest", "done"}
      /\ line' = [r \in Reqs |-> IF r \in done THEN "consumed" ELSE line[r]]
      /\ lphase' = [r \in Reqs |-> IF r \in done THEN "rest" ELSE lphase[r]]
      /\ UNCHANGED <<config, drafts, records, outbox, token, up, dphase, rphase, box, mind,
                     observers>>

LineDriver(r) == \/ SendLine(r) \/ StageLine(r) \/ LineQueued(r) \/ RefuseLine(r)
                 \/ LineLeaves(r) \/ LineSent(r) \/ LineFails(r)

-----------------------------------------------------------------------------
(* The email driver: drafts that say `action: send`.                       *)

ValidToken(t) == t # 0 /\ t = token

TakeDraft(d) ==
  /\ "email" \in up
  /\ LoopFree
  /\ draft[d] \notin FinishedDraft \cup {"absent"}
  /\ \A e \in Drafts : dphase[e] = "rest"

\* The gate lets the draft through by mode or allowlist, without a token.
MutOpenDraftGate(d) == mode["email"] # "no"        \* `ask` sends without asking

OpenDraftGate(d) == \/ mode["email"] = "yes"
                    \/ mode["email"] = "ask" /\ d[1] \in Allowlisted

SendDraft(d) ==
  /\ TakeDraft(d)
  /\ ValidToken(stamp[d]) \/ OpenDraftGate(d)
  /\ dphase' = [dphase EXCEPT ![d] = "sending"]
  /\ GrantIfAllowed(d[1])
  /\ UNCHANGED <<disk, up, lphase, rphase, box, mind, sends, told, refused, faults>>

MutStageDraft(d) ==                                \* marks the draft before staging it
  /\ TakeDraft(d)
  /\ ~ValidToken(stamp[d]) /\ mode["email"] = "ask" /\ ~OpenDraftGate(d)
  /\ draft' = [draft EXCEPT ![d] = "pending_approval"]
  /\ UNCHANGED <<config, line, stamp, records, outbox, token, memory, observers>>

StageDraft(d) ==
  /\ TakeDraft(d)
  /\ ~ValidToken(stamp[d]) /\ mode["email"] = "ask" /\ ~OpenDraftGate(d)
  /\ Stage(d[1], d)
  /\ dphase' = [dphase EXCEPT ![d] = "staged"]
  /\ UNCHANGED <<config, line, drafts, notified, outbox, token, up, lphase, rphase, box, mind,
                 observers>>

\* Sends are off: osascript saves it in Mail's Drafts instead.
SaveDraft(d) ==
  /\ TakeDraft(d)
  /\ ~ValidToken(stamp[d]) /\ mode["email"] = "no"
  /\ dphase' = [dphase EXCEPT ![d] = "saving"]
  /\ UNCHANGED <<disk, up, lphase, rphase, box, mind, observers>>

\* The driver writes the draft back, with a state that ends its work on it.
FinishDraft(d, state) ==
  /\ draft' = [draft EXCEPT ![d] = state]
  /\ dphase' = [dphase EXCEPT ![d] = "rest"]
  /\ UNCHANGED <<config, line, stamp, records, outbox, token, up, lphase, rphase, box, mind,
                 observers>>

DraftQueued(d) == dphase[d] = "staged" /\ FinishDraft(d, "pending_approval")

DraftLeaves(d) ==
  /\ dphase[d] = "sending"
  /\ dphase' = [dphase EXCEPT ![d] = "left"]
  /\ sends' = [sends EXCEPT ![d[1]] = @ + 1]
  /\ UNCHANGED <<disk, up, lphase, rphase, box, mind, granted, told, refused, faults>>

MutDraftSent(d)  == dphase[d] \in {"sending", "left"} /\ LoopFree /\ FinishDraft(d, "sent")
MutDraftSent2(d) == dphase[d] = "left" /\ LoopFree /\ FinishDraft(d, "new")

DraftSent(d)  == dphase[d] = "left" /\ LoopFree /\ FinishDraft(d, "sent")
DraftSaved(d) == dphase[d] = "saving" /\ LoopFree /\ FinishDraft(d, "drafted")
DraftFails(d) == dphase[d] \in {"sending", "saving"} /\ LoopFree /\ FinishDraft(d, "failed")

\* A reply whose parent Mail has not synced is tried again (the count is left out).
DraftRetries(d) ==
  dphase[d] \in {"sending", "saving"} /\ LoopFree /\ FinishDraft(d, "pending_parent")

\* No usable `from:`.
RefuseDraft(d) == TakeDraft(d) /\ FinishDraft(d, "failed")

EmailDriver(d) ==
  \/ SendDraft(d) \/ StageDraft(d) \/ SaveDraft(d) \/ RefuseDraft(d) \/ DraftQueued(d)
  \/ DraftLeaves(d) \/ DraftSent(d) \/ DraftSaved(d) \/ DraftFails(d) \/ DraftRetries(d)

-----------------------------------------------------------------------------
(* The approvals driver.  Its watch and its boot scan both make it look    *)
(* again at every record that still asks something of it.                  *)

TakeRecord(i) ==
  /\ "approvals" \in up
  /\ LoopFree
  /\ \A j \in Recs : rphase[j] = "rest"

Announce(i) ==
  /\ TakeRecord(i)
  /\ status[i] \in Undecided /\ i \notin announced
  /\ announced' = announced \cup {i}
  /\ UNCHANGED <<disk, up, phases, box, memToken, rejSeen, observers>>

MutBeginReject(i) ==                               \* forgets _rejected_notified
  /\ TakeRecord(i)
  /\ status[i] = "rejected" /\ i \notin notified
  /\ rphase' = [rphase EXCEPT ![i] = "rejecting"]
  /\ UNCHANGED <<disk, up, lphase, dphase, box, mind, observers>>

BeginReject(i) ==
  /\ TakeRecord(i)
  /\ status[i] = "rejected" /\ i \notin notified \cup rejSeen
  /\ rejSeen' = rejSeen \cup {i}
  /\ rphase' = [rphase EXCEPT ![i] = "rejecting"]
  /\ UNCHANGED <<disk, up, lphase, dphase, box, memToken, announced, observers>>


\* The PAI hears of it; an email's draft, if it is still there, is marked failed.
TellRejected(i) ==
  /\ rphase[i] = "rejecting"
  /\ rphase' = [rphase EXCEPT ![i] = "told"]
  /\ told' = [told EXCEPT ![i] = @ + 1]
  /\ draft' = IF draft[src[i]] = "absent" THEN draft
              ELSE [draft EXCEPT ![src[i]] = "failed"]
  /\ UNCHANGED <<config, line, stamp, records, outbox, token, up, lphase, dphase, box, mind,
                 granted, sends, refused, faults>>

EndReject(i) ==
  /\ rphase[i] = "told"
  /\ rphase' = [rphase EXCEPT ![i] = "rest"]
  /\ notified' = notified \cup {i}
  /\ UNCHANGED <<config, line, drafts, status, src, outbox, token, up, lphase, dphase, box,
                 mind, observers>>

\* An outcome is dumped into the record; nothing of it is left in flight.
FinishRecord(i, outcome) ==
  /\ status' = [status EXCEPT ![i] = outcome]
  /\ rphase' = [rphase EXCEPT ![i] = "rest"]
  /\ UNCHANGED <<config, line, drafts, src, notified, outbox, token, up, lphase, dphase, box,
                 mind, observers>>

\* _fail before any delivery: no recipient, no text, no thread, no channel driver.
RefuseRecord(i) ==
  /\ TakeRecord(i)
  /\ status[i] = "approved"
  /\ FinishRecord(i, "failed")

MutDeliverInline(i) ==                             \* retries what failed
  /\ TakeRecord(i)
  /\ status[i] \in {"approved", "failed"} /\ Channel[i[1]] \in Inline
  /\ rphase' = [rphase EXCEPT ![i] = "sending"]
  /\ UNCHANGED <<disk, up, lphase, dphase, box, mind, observers>>

DeliverInline(i) ==
  /\ TakeRecord(i)
  /\ status[i] = "approved" /\ Channel[i[1]] \in Inline
  /\ rphase' = [rphase EXCEPT ![i] = "sending"]
  /\ UNCHANGED <<disk, up, lphase, dphase, box, mind, observers>>

InlineLeaves(i) ==
  /\ rphase[i] = "sending"
  /\ rphase' = [rphase EXCEPT ![i] = "left"]
  /\ sends' = [sends EXCEPT ![i[1]] = @ + 1]
  /\ UNCHANGED <<disk, up, lphase, dphase, box, mind, granted, told, refused, faults>>

MutInlineSent(i) == rphase[i] = "left" /\ LoopFree /\ FinishRecord(i, "approved")

InlineSent(i) == rphase[i] = "left" /\ LoopFree /\ FinishRecord(i, "sent")

MutInlineFails(i) ==                               \* swallows the failure
  /\ rphase[i] = "sending" /\ LoopFree
  /\ FinishRecord(i, status[i])

InlineFails(i) ==
  /\ \/ rphase[i] = "sending"
     \/ rphase[i] = "left" /\ Channel[i[1]] \in LossyAnswers
  /\ LoopFree
  /\ FinishRecord(i, "failed")

\* approved-<id>.yaml replaces whatever stood there; it carries _TOKEN.
DeliverEmail(i) ==
  /\ TakeRecord(i)
  /\ status[i] = "approved" /\ Channel[i[1]] = "email"
  /\ draft' = [draft EXCEPT ![i] = "new"]
  /\ stamp' = [stamp EXCEPT ![i] = memToken]
  /\ rphase' = [rphase EXCEPT ![i] = "dispatching"]
  /\ UNCHANGED <<config, line, records, outbox, token, up, lphase, dphase, box, mind,
                 observers>>

\* The handoff carries the token read back from grant.token.
MutDeliverWhatsapp(i) ==                           \* does not wait for the owner
  /\ TakeRecord(i)
  /\ status[i] \in {"pending", "approved"} /\ Channel[i[1]] = "whatsapp"
  /\ outbox' = outbox \cup {<<i, token>>}
  /\ rphase' = [rphase EXCEPT ![i] = "dispatching"]
  /\ UNCHANGED <<config, line, drafts, records, token, up, lphase, dphase, box, mind,
                 observers>>

DeliverWhatsapp(i) ==
  /\ TakeRecord(i)
  /\ status[i] = "approved" /\ Channel[i[1]] = "whatsapp"
  /\ outbox' = outbox \cup {<<i, token>>}
  /\ rphase' = [rphase EXCEPT ![i] = "dispatching"]
  /\ UNCHANGED <<config, line, drafts, records, token, up, lphase, dphase, box, mind,
                 observers>>

Dispatched(i) == rphase[i] = "dispatching" /\ FinishRecord(i, "dispatched")

ApprovalsDriver(i) ==
  \/ Announce(i) \/ BeginReject(i) \/ TellRejected(i) \/ EndReject(i) \/ RefuseRecord(i)
  \/ DeliverInline(i) \/ InlineLeaves(i) \/ InlineSent(i) \/ InlineFails(i)
  \/ DeliverEmail(i) \/ DeliverWhatsapp(i) \/ Dispatched(i)

-----------------------------------------------------------------------------
(* The whatsapp outbox: the whatsapp task delivers the handoffs.  A file   *)
(* whose send failed stays and is looked at again when the task restarts.  *)

TakeHandoff(f) ==
  /\ "whatsapp" \in up
  /\ LoopFree
  /\ boxSending = {} /\ boxLeft = {}
  /\ f \in outbox \ tried

\* A bad token: the file is deleted and nobody is told.
DropHandoff(f) ==
  /\ TakeHandoff(f)
  /\ ~ValidToken(f[2])
  /\ outbox' = outbox \ {f}
  /\ UNCHANGED <<config, line, drafts, records, token, memory, observers>>

\* No recipient can be resolved: noted, the PAI told, the file deleted.
UndeliverableHandoff(f) ==
  /\ TakeHandoff(f)
  /\ ValidToken(f[2])
  /\ outbox' = outbox \ {f}
  /\ refused' = refused \cup {f[1]}
  /\ UNCHANGED <<config, line, drafts, records, token, memory, granted, sends, told, faults>>

SendHandoff(f) ==
  /\ TakeHandoff(f)
  /\ ValidToken(f[2])
  /\ boxSending' = {f}
  /\ UNCHANGED <<disk, up, phases, boxLeft, tried, mind, observers>>

HandoffLeaves(f) ==
  /\ f \in boxSending
  /\ boxSending' = boxSending \ {f}
  /\ boxLeft' = boxLeft \cup {f}
  /\ sends' = [sends EXCEPT ![f[1][1]] = @ + 1]
  /\ UNCHANGED <<disk, up, phases, tried, mind, granted, told, refused, faults>>

HandoffSent(f) ==
  /\ f \in boxLeft /\ LoopFree
  /\ boxLeft' = boxLeft \ {f}
  /\ outbox' = outbox \ {f}
  /\ UNCHANGED <<config, line, drafts, records, token, up, phases, boxSending, tried, mind,
                 observers>>

\* The bridge reports a failure, or does not answer in time.
HandoffFails(f) ==
  /\ f \in boxSending \cup boxLeft /\ LoopFree
  /\ boxSending' = boxSending \ {f}
  /\ boxLeft' = boxLeft \ {f}
  /\ tried' = tried \cup {f}
  /\ UNCHANGED <<disk, up, phases, mind, observers>>

OutboxTask(f) == \/ DropHandoff(f) \/ UndeliverableHandoff(f) \/ SendHandoff(f)
                 \/ HandoffLeaves(f) \/ HandoffSent(f) \/ HandoffFails(f)

-----------------------------------------------------------------------------
(* Tasks start, stop (paictl, or an exception that escapes) and die with   *)
(* the kernel.  What a task had in flight is forgotten; the module globals *)
(* _announced and _rejected_notified outlive the task, not the kernel.     *)

Start(t) ==
  /\ t \notin up
  /\ LoopFree
  /\ up' = up \cup {t}
  /\ IF t = "approvals" THEN token' = token + 1 /\ memToken' = token + 1
                        ELSE UNCHANGED <<token, memToken>>
  /\ UNCHANGED <<config, line, drafts, records, outbox, phases, box, announced, rejSeen,
                 observers>>

Stop(t) ==
  /\ t \in up /\ stops < MaxStops
  /\ stops' = stops + 1
  /\ up' = up \ {t}
  /\ lphase' = [r \in Reqs |-> IF Channel[r] = t THEN "rest" ELSE lphase[r]]
  /\ dphase' = [d \in Drafts |-> IF t = "email" THEN "rest" ELSE dphase[d]]
  /\ rphase' = [i \in Recs |-> IF t = "approvals" THEN "rest" ELSE rphase[i]]
  /\ IF t = "whatsapp" THEN boxSending' = {} /\ boxLeft' = {} /\ tried' = {}
                       ELSE UNCHANGED box
  /\ UNCHANGED <<disk, mind, granted, sends, told, refused, crashes>>

\* An exception escapes on_line: the chunk is given up, its lines will come again.
ChunkAborts(c) ==
  /\ stops < MaxStops
  /\ \E r \in Reqs : Channel[r] = c /\ lphase[r] # "rest"
  /\ stops' = stops + 1
  /\ lphase' = [r \in Reqs |-> IF Channel[r] = c THEN "rest" ELSE lphase[r]]
  /\ UNCHANGED <<disk, up, dphase, rphase, box, mind, granted, sends, told, refused, crashes>>

KernelDies ==
  /\ up # {} /\ stops < MaxStops
  /\ stops' = stops + 1 /\ crashes' = crashes + 1
  /\ up' = {}
  /\ lphase' = [r \in Reqs |-> "rest"]
  /\ dphase' = [d \in Drafts |-> "rest"]
  /\ rphase' = [i \in Recs |-> "rest"]
  /\ boxSending' = {} /\ boxLeft' = {} /\ tried' = {}
  /\ announced' = {} /\ rejSeen' = {}
  /\ memToken' = 0
  /\ UNCHANGED <<disk, granted, sends, told, refused>>

-----------------------------------------------------------------------------
Drivers == \/ \E r \in Reqs : LineDriver(r)
           \/ \E c \in LineChannels : SaveCursor(c)
           \/ \E d \in Drafts : EmailDriver(d)
           \/ \E i \in Recs : ApprovalsDriver(i)
           \/ \E f \in outbox : OutboxTask(f)

Environment == \/ \E r \in Reqs : Submit(r)
               \/ \E c \in LineChannels : ProjectFreeze(c)
               \/ \E c \in Channels, m \in Modes : SetMode(c, m)
               \/ \E i \in Recs : Decide(i, "approved") \/ Decide(i, "rejected")
               \/ \E t \in Tasks : Stop(t)
               \/ \E c \in LineChannels : ChunkAborts(c)
               \/ KernelDies

Next == Drivers \/ (\E t \in Tasks : Start(t)) \/ Environment

Spec == Init /\ [][Next]_vars

-----------------------------------------------------------------------------
(* Properties.                                                             *)

\* Every variable holds what the drivers may read back.
TypeOK ==
  /\ mode \in [Channels -> Modes] /\ freeze \in [LineChannels -> BOOLEAN]
  /\ line \in [Reqs -> {"absent", "written", "consumed"}]
  /\ draft \in [Drafts -> {"absent", "new", "pending_parent"} \cup FinishedDraft]
  /\ stamp \in [Drafts -> Nat]
  /\ status \in [Recs -> Statuses] /\ src \in [Recs -> Drafts] /\ notified \subseteq Recs
  /\ outbox \subseteq Files /\ token \in Nat /\ memToken \in Nat
  /\ up \subseteq Tasks
  /\ lphase \in [Reqs -> {"rest", "sending", "left", "staged", "done"}]
  /\ dphase \in [Drafts -> {"rest", "sending", "left", "staged", "saving"}]
  /\ rphase \in [Recs -> {"rest", "sending", "left", "dispatching", "rejecting", "told"}]
  /\ boxSending \subseteq outbox /\ boxLeft \subseteq outbox /\ tried \subseteq Files
  /\ announced \subseteq Recs /\ rejSeen \subseteq Recs
  /\ granted \subseteq Reqs /\ sends \in [Reqs -> Nat] /\ told \in [Recs -> Nat]
  /\ refused \subseteq Recs /\ stops \in Nat /\ crashes \in Nat

\* Nothing leaves the machine unless the owner's mode, allowlist or decision
\* allowed that very request, whatever is stopped, lost or replayed on the way.
NothingLeavesUngranted == \A r \in Reqs : sends[r] > 0 => r \in granted

\* Why: wherever a send can still come from (a line or draft being sent, a draft
\* stamped with the token, a record past the decision, a handoff), it is allowed.
PermissionTravels ==
  /\ \A r \in Reqs : lphase[r] \in {"sending", "left"} => r \in granted
  /\ \A d \in Drafts : dphase[d] \in {"sending", "left"} \/ stamp[d] # 0 => d[1] \in granted
  /\ \A i \in Recs : \/ status[i] \in {"approved", "dispatched", "sent"}
                     \/ rphase[i] \in {"sending", "left", "dispatching"}
                     => i[1] \in granted
  /\ \A f \in outbox : f[1][1] \in granted

\* A request the owner rejected has not left, nor will it while nothing is
\* stopped: a line or a draft is staged for approval or sent, never both.
RejectedStaysHome ==
  stops = 0 => \A i \in Recs : status[i] = "rejected" => sends[i[1]] = 0

\* What the registry reports as sent has left.
SentMeansLeft ==
  /\ \A i \in Recs : status[i] = "sent" => sends[i[1]] > 0
  /\ \A d \in Drafts : draft[d] = "sent" => sends[d[1]] > 0

\* A draft that waits for the owner has a record the owner can decide, or decided.
WaitingDraftHasRecord ==
  \A d \in Drafts : draft[d] = "pending_approval" =>
    \E i \in Recs : src[i] = d /\ status[i] # "none"

\* A rejection is told at most once in the life of a kernel: task restarts
\* are covered by _rejected_notified, kernel restarts by notified_at.
RejectionToldOnce == \A i \in Recs : told[i] <= 1 + crashes

\* A record that reached an outcome keeps it.
OutcomeIsFinal ==
  [][\A i \in Recs : status[i] \in Terminal => status'[i] = status[i]]_vars

\* The drivers' promise to the owner, stated without any of their mechanism.
Gate == INSTANCE OwnerGate WITH disturbed <- (stops > 0)
ImplementsOwnerGate == Gate!GateSpec

-----------------------------------------------------------------------------
(* Fairness: the event loop does not idle while a task can run, and a send *)
(* that was started returns.  The drivers' work is finite, so no fairness  *)
(* between them is needed.  Owner, PAIs, starts, stops and deaths owe      *)
(* nothing: no code restarts a driver that failed.                         *)

FairSpec == Spec /\ WF_vars(Drivers)

\* While the approvals driver runs, no approved record waits forever: again and
\* again there is none without an outcome (the owner decides finitely often).
ApprovedIsConcluded ==
  []<>("approvals" \notin up \/ \A i \in Recs : status[i] # "approved")


-----------------------------------------------------------------------------
(* What the repository says and the code does not keep (README, findings). *)


\* A draft whose processing is finished is never offered for processing again.
FinishedDraftStays ==
  [][\A d \in Drafts : draft[d] \in FinishedDraft => draft'[d] # "new"]_vars
=============================================================================
