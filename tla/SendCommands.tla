---------------------------- MODULE SendCommands ----------------------------
(***************************************************************************)
(* The commands with which a PAI sends.  write-imessage and write-whatsapp *)
(* append a bare line to the thread's day-file and scan what is appended   *)
(* after it for the driver's verdict; write-email drops a draft and reads  *)
(* its draft_state; send-message emits an event per target and waits for   *)
(* the kernel's ack.  The drivers (SendPipeline) and the kernel are here   *)
(* as far as a command can see them.                                       *)
(***************************************************************************)
EXTENDS Integers, Sequences, FiniteSets

CONSTANTS Calls,          \* the invocations of send commands
          CallTexts,      \* what may be said
          TextOf,         \* what each sends; for email, the name of its draft
          Pids,           \* the pids that --to may name
          Sender,         \* $PAI_PID
          MaxSendMishaps  \* bound: kernel deaths, lines from elsewhere, lost notes, torn acks

ASSUME SendAssumption ==
  IsFiniteSet(Calls) /\ TextOf \in [Calls -> CallTexts] /\ MaxSendMishaps \in Nat

VARIABLES
  kind,       \* the command this behaviour is about
  call,       \* per invocation: where it stands, its mark in a file, what it reports
  threadMeta, \* meta.yaml of the thread
  day,        \* the lines of the thread's day-file
  handed,     \* how many of them the driver is through with
  handing,    \* what it does with the next
  queued,     \* the texts of approval records
  drafts,     \* the files of the drafts directory
  mail,       \* the draft the email driver has read, and its path
  peer,       \* per message to a pid: its event, or the file of ACKS_DIR
  gone,       \* observer: the texts, invocations and <<invocation, pid>> that have left
  sendMishaps

threadFile == <<threadMeta, day, handed, handing, queued>>
mailFiles  == <<drafts, mail>>
sendVars   == <<kind, call, threadFile, mailFiles, peer, gone, sendMishaps>>

DayKinds == {"imessage", "whatsapp"}
NoFile   == [of |-> "none", state |-> "absent"]
NoMail   == [of |-> "none", path |-> <<>>]
Paths    == CallTexts \X (1..Cardinality(Calls))   \* <<n, 1>> is n.yaml, <<n, i>> is n-i.yaml
NotCalled == [at |-> "absent", mark |-> 0, to |-> <<>>, reports |-> <<>>]
Mishap   == sendMishaps < MaxSendMishaps /\ sendMishaps' = sendMishaps + 1

SendInit ==
  /\ kind \in DayKinds \cup {"email", "peer"}
  /\ call = [c \in Calls |-> NotCalled]
  /\ threadMeta \in {"absent", "bare", "addressed", "foreign"}
  /\ kind \in {"email", "peer"} => threadMeta = "absent"
  /\ day = <<>> /\ handed = 0 /\ handing = "none" /\ queued = {}
  /\ drafts = [p \in Paths |-> NoFile] /\ mail = NoMail
  /\ peer = [m \in Calls \X Pids |-> "absent"] /\ gone = {} /\ sendMishaps = 0

-----------------------------------------------------------------------------
(* write-imessage and write-whatsapp.                                      *)

\* _ensure_thread: a thread of another channel is refused, and a new one needs a handle,
\* which the people memory or the slug itself may give.
EnsureThread(known) ==
  /\ threadMeta # "foreign" /\ (threadMeta = "absent" => known)
  /\ threadMeta' = IF threadMeta = "absent" THEN "addressed" ELSE threadMeta

\* That of whatsapp completes the bare meta.yaml inbound writes, and refuses without a handle.
EnsureWhatsapp(known) ==
  /\ threadMeta # "foreign" /\ (threadMeta = "addressed" \/ known)
  /\ threadMeta' = "addressed"

\* The bare line is appended, and the offset after it noted.
WriteLine(c) ==
  /\ kind \in DayKinds /\ call[c].at = "absent"
  /\ \E known \in BOOLEAN : IF kind = "imessage" THEN EnsureThread(known) ELSE EnsureWhatsapp(known)
  /\ day' = Append(day, <<"bare", TextOf[c]>>)
  /\ call' = [call EXCEPT ![c] = [@ EXCEPT !.at = "waiting", !.mark = Len(day) + 1]]
  /\ UNCHANGED <<kind, handed, handing, queued, mailFiles, peer, gone, sendMishaps>>

\* Any canonical record counts.
MutClassify(l, text) ==
  CASE l[1] = "me"     -> "sent"
    [] l[1] = "queued" -> "pending_approval"
    [] l[1] = "frozen" -> "send_blocked"
    [] l[1] = "failed" -> "failed"
    [] OTHER           -> "none"

\* The canonical record of this very text; of the notes, any.
Classify(l, text) ==
  CASE l = <<"me", text>> -> "sent"
    [] l[1] = "queued"    -> "pending_approval"
    [] l[1] = "frozen"    -> "send_blocked"
    [] l[1] = "failed"    -> "failed"
    [] OTHER              -> "none"

Told(c, what, at) == [call[c] EXCEPT !.at = at, !.reports = Append(@, what)]
Report(c, what) == call' = [call EXCEPT ![c] = Told(c, what, "ended")]

\* The first verdict below the offset.
PollVerdict(c) ==
  /\ kind \in DayKinds /\ call[c].at = "waiting"
  /\ \E i \in call[c].mark + 1 .. Len(day) :
       /\ Classify(day[i], TextOf[c]) # "none"
       /\ \A j \in call[c].mark + 1 .. i - 1 : Classify(day[j], TextOf[c]) = "none"
       /\ Report(c, Classify(day[i], TextOf[c]))
  /\ UNCHANGED <<kind, threadFile, mailFiles, peer, gone, sendMishaps>>

-----------------------------------------------------------------------------
(* The day-file's driver, which takes the lines in turn, and who else      *)
(* appends to it.                                                          *)

\* The bare lines in turn; log entries are skipped.
IsBare(i) == i \in handed + 1 .. Len(day) /\ day[i][1] = "bare"
NextLine(i) == IsBare(i) /\ \A j \in 1..(i - 1) : ~IsBare(j)
Note(k) == day' = Append(day, <<k, "none">>)

\* Under `ask` a record is staged, under `no` nothing is; the note may fail to be written.
WithholdLine(k) ==
  /\ handing = "none"
  /\ \E i \in 1..Len(day) :
       /\ NextLine(i) /\ handed' = i
       /\ queued' = IF k = "queued" THEN queued \cup {day[i][2]} ELSE queued
  /\ (Note(k) /\ UNCHANGED sendMishaps) \/ (Mishap /\ UNCHANGED day)
  /\ UNCHANGED <<kind, call, threadMeta, handing, mailFiles, peer, gone>>

BeginLine ==
  /\ handing = "none" /\ \E i \in 1..Len(day) : NextLine(i)
  /\ handing' = "out"
  /\ UNCHANGED <<kind, call, threadMeta, day, handed, queued, mailFiles, peer, gone, sendMishaps>>

LineDeparts ==
  /\ handing = "out" /\ threadMeta = "addressed"
  /\ \E i \in 1..Len(day) : NextLine(i) /\ gone' = gone \cup {day[i][2]}
  /\ handing' = "left"
  /\ UNCHANGED <<kind, call, threadMeta, day, handed, queued, mailFiles, peer, sendMishaps>>

\* The canonical record, or the note of a failure.
EndLine ==
  /\ handing # "none" /\ handing' = "none"
  /\ \E i \in 1..Len(day) :
       /\ NextLine(i) /\ handed' = i
       /\ day' = Append(day, IF handing = "left" THEN <<"me", day[i][2]>> ELSE <<"failed", "none">>)
  /\ UNCHANGED <<kind, call, threadMeta, queued, mailFiles, peer, gone, sendMishaps>>

\* The kernel dies: the line is handed over again.
LoseLine ==
  /\ handing # "none" /\ Mishap /\ handing' = "none"
  /\ UNCHANGED <<kind, call, threadMeta, day, handed, queued, mailFiles, peer, gone>>

\* The approvals driver delivers a record, into the day-file of the day it does so.
DeliverQueued(t) ==
  /\ t \in queued /\ queued' = queued \ {t}
  /\ gone' = gone \cup {t}
  /\ day' = Append(day, <<"me", t>>) \/ UNCHANGED day
  /\ UNCHANGED <<kind, call, threadMeta, handed, handing, mailFiles, peer, sendMishaps>>

\* A message arrives, or the owner sends that text with another device.
OtherLine(t) ==
  /\ kind \in DayKinds /\ Mishap
  /\ \/ day' = Append(day, <<"other", "none">>) /\ UNCHANGED gone
     \/ day' = Append(day, <<"me", t>>) /\ gone' = gone \cup {t}
  /\ UNCHANGED <<kind, call, threadMeta, handed, handing, queued, mailFiles, peer>>

-----------------------------------------------------------------------------
(* write-email.                                                            *)

Path(c) == <<TextOf[c], call[c].mark>>

\* _unique_path: the first name that is not taken.
ChoosePath(c) ==
  /\ kind = "email" /\ call[c].at = "absent"
  /\ \E i \in 1..Cardinality(Calls) :
       /\ drafts[<<TextOf[c], i>>] = NoFile
       /\ \A j \in 1..(i - 1) : drafts[<<TextOf[c], j>>] # NoFile
       /\ call' = [call EXCEPT ![c] = [@ EXCEPT !.at = "named", !.mark = i]]
  /\ UNCHANGED <<kind, threadFile, mailFiles, peer, gone, sendMishaps>>

\* _atomic_dump replaces what stands at that name by now.
DumpDraft(c) ==
  /\ kind = "email" /\ call[c].at = "named"
  /\ drafts' = [drafts EXCEPT ![Path(c)] = [of |-> c, state |-> "new"]]
  /\ call' = [call EXCEPT ![c].at = "waiting"]
  /\ UNCHANGED <<kind, threadFile, mail, peer, gone, sendMishaps>>

FinalStates == {"drafted", "sent", "failed", "pending_approval"}

\* _wait_for_terminal, and the exit code.
PollDraft(c) ==
  /\ kind = "email" /\ call[c].at = "waiting" /\ drafts[Path(c)].state \in FinalStates
  /\ Report(c, drafts[Path(c)].state)
  /\ UNCHANGED <<kind, threadFile, mailFiles, peer, gone, sendMishaps>>

\* The email driver reads a draft, and writes back what it read with the state it came to.
ReadDraft(p) ==
  /\ mail = NoMail /\ drafts[p].state = "new"
  /\ mail' = [of |-> drafts[p].of, path |-> p]
  /\ UNCHANGED <<kind, call, threadFile, drafts, peer, gone, sendMishaps>>

WriteDraft(state) ==
  /\ mail # NoMail /\ mail' = NoMail
  /\ drafts' = [drafts EXCEPT ![mail.path] = [of |-> mail.of, state |-> state]]
  /\ gone' = IF state = "sent" THEN gone \cup {mail.of} ELSE gone
  /\ UNCHANGED <<kind, call, threadFile, peer, sendMishaps>>

-----------------------------------------------------------------------------
(* send-message.                                                           *)

Named(pids) == {pids[i] : i \in DOMAIN pids}

\* _resolve_targets: each pid once, in the order of their first mention, and not the sender.
ResolveTargets(tokens, pids) ==
  /\ Named(pids) = Named(tokens) \ {Sender}
  /\ \A i, j \in DOMAIN pids : i < j =>
       \E k \in DOMAIN tokens : tokens[k] = pids[i] /\ \A n \in 1..k : tokens[n] # pids[j]

\* The first event; without a target that is left it is an error.
SendMessage(c, tokens, pids) ==
  /\ ResolveTargets(tokens, pids)
  /\ kind = "peer" /\ call[c].at = "absent" /\ pids # <<>>
  /\ call' = [call EXCEPT ![c] = [@ EXCEPT !.at = "waiting", !.to = pids]]
  /\ peer' = [peer EXCEPT ![<<c, pids[1]>>] = "emitted"]
  /\ UNCHANGED <<kind, threadFile, mailFiles, gone, sendMishaps>>

Message(c, i) == <<c, call[c].to[i]>>

\* The target is reported, its message left as it is by now, and the next event emitted.
ReportTarget(c, what, left) ==
  LET i    == Len(call[c].reports) + 1
      last == i = Len(call[c].to)
  IN  /\ call' = [call EXCEPT ![c] = Told(c, what, IF last THEN "ended" ELSE "waiting")]
      /\ peer' = [m \in Calls \X Pids |->
                    IF m = Message(c, i) THEN left
                    ELSE IF ~last /\ m = Message(c, i + 1) THEN "emitted" ELSE peer[m]]

\* _wait_for_ack reads the file and deletes it; one that cannot be read counts as none.
TakeAck(c) ==
  LET m == Message(c, Len(call[c].reports) + 1)
  IN  /\ kind = "peer" /\ call[c].at = "waiting" /\ peer[m] \in {"delivered", "dropped"}
      /\ \/ ReportTarget(c, peer[m], "taken") /\ UNCHANGED sendMishaps
         \/ ReportTarget(c, "queued", "taken") /\ Mishap
      /\ UNCHANGED <<kind, threadFile, mailFiles, gone>>

\* The kernel delivers a message, or knows no such pid.
KernelAnswers(m, what) ==
  /\ peer[m] = "emitted" /\ peer' = [peer EXCEPT ![m] = what]
  /\ gone' = IF what = "delivered" THEN gone \cup {m} ELSE gone
  /\ UNCHANGED <<kind, call, threadFile, mailFiles, sendMishaps>>

-----------------------------------------------------------------------------
\* The time for an answer is over, with --wait 0 at once.
GiveUp(c) ==
  /\ call[c].at = "waiting"
  /\ IF kind = "peer" THEN LET m == Message(c, Len(call[c].reports) + 1) IN ReportTarget(c, "queued", peer[m])
                       ELSE Report(c, "pending") /\ UNCHANGED peer
  /\ UNCHANGED <<kind, threadFile, mailFiles, gone, sendMishaps>>

SendNext ==
  \/ \E c \in Calls :
       \/ WriteLine(c) \/ PollVerdict(c) \/ ChoosePath(c) \/ DumpDraft(c) \/ PollDraft(c)
       \/ \E tokens \in Pids \X Pids, n \in 1..2 : \E pids \in [1..n -> Pids] : SendMessage(c, tokens, pids)
       \/ TakeAck(c) \/ GiveUp(c)
  \/ \E m \in Calls \X Pids : KernelAnswers(m, "delivered") \/ KernelAnswers(m, "dropped")
  \/ WithholdLine("queued") \/ WithholdLine("frozen")
  \/ BeginLine \/ LineDeparts \/ EndLine \/ LoseLine
  \/ \E t \in CallTexts : DeliverQueued(t) \/ OtherLine(t)
  \/ (\E p \in Paths : ReadDraft(p)) \/ \E state \in FinalStates : WriteDraft(state)

SendSpec == SendInit /\ [][SendNext]_sendVars

-----------------------------------------------------------------------------
Reports(c, what, i) == Len(call[c].reports) >= i /\ call[c].reports[i] = what

\* What a send command reports as done is done: the text it reports as sent has left, the
\* draft it reports as sent is its own unless another took the same name meanwhile, and the
\* message it reports as delivered was (_classify, _wait_for_terminal, _wait_for_ack).
ReportsAreTrue ==
  \A c \in Calls :
    /\ kind \in DayKinds /\ Reports(c, "sent", 1) => TextOf[c] \in gone
    /\ kind = "email" /\ Reports(c, "sent", 1) =>
         c \in gone \/ \E d \in Calls \ {c} : call[d].at # "absent" /\ Path(d) = Path(c)
    /\ \A i \in 1..Len(call[c].to) : Reports(c, "delivered", i) => Message(c, i) \in gone
=============================================================================
