--------------------------- MODULE WhatsappBridge ---------------------------
(***************************************************************************)
(* The whatsapp driver's child process: a Node bridge that owns the socket,*)
(* a supervisor that starts it, reads its stdout and restarts it with a    *)
(* backoff, the client that correlates sends with their answers, and the   *)
(* pairing command, which runs a bridge of its own.                        *)
(*                                                                         *)
(* What is in the pipe of an exited bridge can still be read; what a       *)
(* bridge writes that nobody reads is lost.  History messages are filed at *)
(* once and announced together when the bridge was quiet for 3 seconds.    *)
(***************************************************************************)
EXTENDS Integers, Sequences, FiniteSets

CONSTANTS Texts,         \* messages, delivered live or in a history sync
          Sends,         \* the ids of the sends, 1..n
          MaxBridges,    \* bound: bridges the supervisor starts
          MaxLongLines,  \* bound: lines above the 64 KiB limit of the reader
          MaxStops       \* bound: stops of the driver and deaths of the kernel

ASSUME BridgeAssumption ==
  Sends \subseteq Nat /\ MaxBridges \in Nat /\ MaxLongLines \in Nat /\ MaxStops \in Nat

VARIABLES
  supervisor,      \* "off", "starting", "reading", "filed" (before the event), "backoff"
  reading,         \* the bridge whose stdout is read, also client.stdin; 0 for None
  bridge,          \* per bridge: "none", "connecting", "open", "exited"
  auth,            \* does sys/drivers/whatsapp/auth hold credentials?
  pairing,         \* does whatsapp-pair run its bridge?
  pipe, stdin,     \* the lines on the stdout that is read; the sends no bridge took yet
  issued, pending, \* _seq; the sends whose future waits
  answer,          \* per send: "none", "ok", "failed", "rejected"
  buffer, quiet,   \* per bridge: backlog_messages; does its flush task sleep?
  \* observers
  dayFiled, announced, forgotten,   \* messages filed, announced, cut off by a death
  sentOn, departed,                 \* the bridge a send went to; the sends delivered
  longLines, driverStops

bridgeVars == <<supervisor, reading, bridge, auth, pairing, pipe, stdin, issued, pending,
                answer, buffer, quiet, dayFiled, announced, forgotten, sentOn, departed,
                longLines, driverStops>>

Bridges == 1..MaxBridges
Live    == {b \in Bridges : bridge[b] \in {"connecting", "open"}}

BridgeInit ==
  /\ supervisor = "off" /\ reading = 0 /\ bridge = [b \in Bridges |-> "none"]
  /\ auth \in BOOLEAN /\ pairing = FALSE
  /\ pipe = <<>> /\ stdin = {}
  /\ issued = 0 /\ pending = {} /\ answer = [s \in Sends |-> "none"]
  /\ buffer = [b \in Bridges |-> {}] /\ quiet = [b \in Bridges |-> FALSE]
  /\ dayFiled = {} /\ announced = {} /\ forgotten = {}
  /\ sentOn = [s \in Sends |-> 0] /\ departed = {}
  /\ longLines = 0 /\ driverStops = 0

messages == <<dayFiled, announced, forgotten>>
sending  == <<issued, pending, answer, sentOn, departed>>
history  == <<buffer, quiet>>
bounds   == <<longLines, driverStops>>
Emit(b, line) == pipe' = IF b = reading THEN Append(pipe, line) ELSE pipe
NextIs(type)  == supervisor = "reading" /\ pipe # <<>> /\ Head(pipe)[1] = type

-----------------------------------------------------------------------------
(* The supervisor.                                                         *)

\* _reap_stale_bridges kills whatever runs bridge.js, the bridge of a pairing included.
ReapStaleBridges ==
  /\ supervisor = "off"
  /\ supervisor' = "starting"
  /\ bridge' = [b \in Bridges |-> IF b \in Live THEN "exited" ELSE bridge[b]]
  /\ pairing' = FALSE
  /\ UNCHANGED <<reading, auth, pipe, stdin, sending, history, messages, bounds>>

LaunchBridge ==
  /\ supervisor \in {"starting", "backoff"}
  /\ \E b \in Bridges :
       /\ bridge[b] = "none" /\ \A c \in 1..(b - 1) : bridge[c] # "none"
       /\ bridge' = [bridge EXCEPT ![b] = "connecting"]
       /\ reading' = b
  /\ supervisor' = "reading"
  /\ UNCHANGED <<auth, pairing, pipe, stdin, sending, history, messages, bounds>>

MutRejectAll ==                                    \* the futures are left to their timeouts
  /\ reading' = 0 /\ pipe' = <<>>
  /\ UNCHANGED sending

\* The finally clause: client.stdin = None, reject_all.
RejectAll ==
  /\ reading' = 0 /\ pipe' = <<>>
  /\ pending' = {}
  /\ answer' = [s \in Sends |-> IF s \in pending THEN "rejected" ELSE answer[s]]
  /\ UNCHANGED <<issued, sentOn, departed>>

MutFlushAtEof ==                                   \* only cancels the flush task
  /\ quiet' = [quiet EXCEPT ![reading] = FALSE]
  /\ UNCHANGED <<announced, buffer>>

\* The history that is still buffered is announced before the reader returns.
FlushAtEof ==
  /\ announced' = announced \cup buffer[reading]
  /\ buffer' = [buffer EXCEPT ![reading] = {}]
  /\ quiet' = [quiet EXCEPT ![reading] = FALSE]

ReadEof ==
  /\ supervisor = "reading" /\ bridge[reading] = "exited" /\ pipe = <<>>
  /\ FlushAtEof /\ RejectAll
  /\ supervisor' = "backoff"
  /\ UNCHANGED <<bridge, auth, pairing, stdin, dayFiled, forgotten, bounds>>

\* readline raises; the process is not ended, and its flush task goes on.
ReadError ==
  /\ NextIs("long")
  /\ RejectAll
  /\ supervisor' = "backoff"
  /\ UNCHANGED <<bridge, auth, pairing, stdin, history, messages, bounds>>

\* The line goes to the day-file of the contact, or of the bare number.
FileMessage(m) == dayFiled' = dayFiled \cup {m}

ReadMessage ==
  /\ NextIs("message")
  /\ LET m == Head(pipe)[2] IN
       /\ FileMessage(m)
       /\ IF Head(pipe)[3]
          THEN /\ buffer' = [buffer EXCEPT ![reading] = @ \cup {m}]
               /\ quiet' = [quiet EXCEPT ![reading] = TRUE]
               /\ pipe' = Tail(pipe)
               /\ UNCHANGED supervisor
          ELSE supervisor' = "filed" /\ UNCHANGED <<pipe, history>>
  /\ UNCHANGED <<reading, bridge, auth, pairing, stdin, sending, announced, forgotten, bounds>>

EmitMessage ==
  /\ supervisor = "filed"
  /\ announced' = announced \cup {Head(pipe)[2]}
  /\ pipe' = Tail(pipe)
  /\ supervisor' = "reading"
  /\ UNCHANGED <<reading, bridge, auth, pairing, stdin, sending, history, dayFiled, forgotten,
                 bounds>>

MutResolve(s, ok) ==                               \* answers taken to come in send order
  LET first == {t \in pending : \A u \in pending : t <= u} IN
  /\ pending' = pending \ first
  /\ answer' = [t \in Sends |-> IF t \in first THEN IF ok THEN "ok" ELSE "failed" ELSE answer[t]]

\* resolve: an answer nobody waits for any more is dropped.
Resolve(s, ok) ==
  /\ pending' = pending \ {s}
  /\ answer' = IF s \in pending THEN [answer EXCEPT ![s] = IF ok THEN "ok" ELSE "failed"]
               ELSE answer

ReadResult ==
  /\ NextIs("result")
  /\ Resolve(Head(pipe)[2], Head(pipe)[3])
  /\ pipe' = Tail(pipe)
  /\ UNCHANGED <<supervisor, reading, bridge, auth, pairing, stdin, issued, sentOn, departed,
                 history, messages, bounds>>

\* _flush_after_quiesce: no message came for HISTORY_QUIESCE_SECONDS.
FlushAfterQuiesce(b) ==
  /\ quiet[b] /\ supervisor # "filed"
  /\ quiet' = [quiet EXCEPT ![b] = FALSE]
  /\ announced' = announced \cup buffer[b]
  /\ buffer' = [buffer EXCEPT ![b] = {}]
  /\ UNCHANGED <<supervisor, reading, bridge, auth, pairing, pipe, stdin, sending, dayFiled,
                 forgotten, bounds>>

\* The task is cancelled: the bridge is terminated, what is left in its pipe is lost.
StopDriver ==
  /\ supervisor \in {"reading", "backoff"} /\ driverStops < MaxStops
  /\ driverStops' = driverStops + 1
  /\ bridge' = [b \in Bridges |-> IF b = reading THEN "exited" ELSE bridge[b]]
  /\ RejectAll
  /\ supervisor' = "off"
  /\ UNCHANGED <<auth, pairing, stdin, history, messages, longLines>>

\* The kernel dies; a bridge it started may well live on.
KernelDiesOnBridge ==
  /\ supervisor # "off" /\ driverStops < MaxStops
  /\ driverStops' = driverStops + 1
  /\ forgotten' = forgotten \cup (dayFiled \ announced)
  /\ buffer' = [b \in Bridges |-> {}] /\ quiet' = [b \in Bridges |-> FALSE]
  /\ reading' = 0 /\ pipe' = <<>> /\ pending' = {}
  /\ UNCHANGED <<issued, answer, sentOn, departed>>
  /\ supervisor' = "off"
  /\ UNCHANGED <<bridge, auth, pairing, stdin, dayFiled, announced, longLines>>

-----------------------------------------------------------------------------
(* The client, called by the outbound tailer in the same process.          *)

IssueSend ==
  /\ reading # 0 /\ supervisor = "reading" /\ issued + 1 \in Sends
  /\ issued' = issued + 1
  /\ IF bridge[reading] = "exited"                  \* "bridge write failed"
     THEN answer' = [answer EXCEPT ![issued + 1] = "failed"] /\ UNCHANGED <<pending, stdin,
                                                                            sentOn>>
     ELSE /\ pending' = pending \cup {issued + 1}
          /\ stdin' = stdin \cup {issued + 1}
          /\ sentOn' = [sentOn EXCEPT ![issued + 1] = reading]
          /\ UNCHANGED answer
  /\ UNCHANGED <<supervisor, reading, bridge, auth, pairing, pipe, departed, history, messages,
                 bounds>>

SendTimesOut(s) ==
  /\ s \in pending /\ supervisor # "filed"
  /\ pending' = pending \ {s}
  /\ answer' = [answer EXCEPT ![s] = "failed"]
  /\ UNCHANGED <<supervisor, reading, bridge, auth, pairing, pipe, stdin, issued, sentOn, departed,
                 history, messages, bounds>>

-----------------------------------------------------------------------------
(* bridge.js.  Without credentials it asks for a pairing and never opens.  *)

Connect(b) ==
  /\ bridge[b] = "connecting" /\ auth
  /\ bridge' = [bridge EXCEPT ![b] = "open"]
  /\ UNCHANGED <<supervisor, reading, auth, pairing, pipe, stdin, sending, history, messages,
                 bounds>>

\* Unlinked on the phone: credentials wiped.  Any other close: exit, for the supervisor.
Close(b, loggedOut) ==
  /\ bridge[b] = "open"
  /\ bridge' = [bridge EXCEPT ![b] = "exited"]
  /\ auth' = (auth /\ ~loggedOut)
  /\ UNCHANGED <<supervisor, reading, pairing, pipe, stdin, sending, history, messages, bounds>>

\* messages.upsert and messaging-history.set, on the bridge that is read.
Receive(b, m, hist) ==
  /\ bridge[b] = "open"
  /\ b = reading /\ m \notin dayFiled /\ \A i \in 1..Len(pipe) : pipe[i][2] # m
  /\ Emit(b, <<"message", m, hist>>)
  /\ UNCHANGED <<supervisor, reading, bridge, auth, pairing, stdin, sending, history, messages,
                 bounds>>

ReceiveLong(b) ==
  /\ bridge[b] = "open" /\ b = reading /\ longLines < MaxLongLines
  /\ longLines' = longLines + 1
  /\ Emit(b, <<"long", 0>>)
  /\ UNCHANGED <<supervisor, reading, bridge, auth, pairing, stdin, sending, history, messages,
                 driverStops>>

\* handleSend: sends run side by side, each is answered once.
HandleSend(b, s) ==
  /\ b \in Live /\ s \in stdin /\ sentOn[s] = b
  /\ stdin' = stdin \ {s}
  /\ \E ok \in {FALSE, bridge[b] = "open"} :
       /\ departed' = IF ok THEN departed \cup {s} ELSE departed
       /\ Emit(b, <<"result", s, ok>>)
  /\ UNCHANGED <<supervisor, reading, bridge, auth, pairing, issued, pending, answer, sentOn,
                 history, messages, bounds>>

-----------------------------------------------------------------------------
(* whatsapp-pair refuses while the driver runs, and when already paired    *)
(* unless --force is given, which wipes the credentials.                   *)

BeginPairing ==
  /\ supervisor = "off" /\ ~pairing
  /\ pairing' = TRUE /\ auth' = FALSE
  /\ UNCHANGED <<supervisor, reading, bridge, pipe, stdin, sending, history, messages, bounds>>

ScanCode ==
  /\ pairing
  /\ pairing' = FALSE /\ auth' = TRUE
  /\ UNCHANGED <<supervisor, reading, bridge, pipe, stdin, sending, history, messages, bounds>>

BridgeNext ==
  \/ ReapStaleBridges \/ LaunchBridge \/ ReadEof \/ ReadError \/ ReadMessage \/ EmitMessage
  \/ ReadResult \/ StopDriver \/ KernelDiesOnBridge \/ IssueSend
  \/ \E b \in Bridges : FlushAfterQuiesce(b) \/ Connect(b) \/ ReceiveLong(b)
  \/ \E b \in Bridges, loggedOut \in BOOLEAN : Close(b, loggedOut)
  \/ \E b \in Bridges, m \in Texts, hist \in BOOLEAN : Receive(b, m, hist)
  \/ \E b \in Bridges, s \in Sends : HandleSend(b, s)
  \/ \E s \in Sends : SendTimesOut(s)
  \/ BeginPairing \/ ScanCode

BridgeSpec == BridgeInit /\ [][BridgeNext]_bridgeVars

\* Tasks of a running event loop go on; a kernel that died owes nothing.
BridgeTasks ==
  \/ ReadEof \/ ReadError \/ ReadMessage \/ EmitMessage \/ ReadResult
  \/ \E b \in Bridges : FlushAfterQuiesce(b)

-----------------------------------------------------------------------------
\* No send waits on a bridge that is not read any more: it fails fast instead of
\* hanging until its timeout.  (BridgeClient's docstring; _run_bridge's finally.)
PendingIsRead == \A s \in pending : sentOn[s] = reading /\ reading # 0

\* A send is reported as delivered only if that very send was, although answers come in
\* any order and bridges come and go.  (BridgeClient.resolve, bridge.js handleSend.)
OkMeansDeparted == \A s \in Sends : answer[s] = "ok" => s \in departed

\* Every message in a day-file is announced, unless the kernel died in between: a live one
\* at once, a history message when the bridge is quiet or gone, whatever ends its reader.
\* (_flush_after_quiesce and the safety net at EOF in _read_bridge_stdout.)
FiledIsAnnounced ==
  \A m \in Texts : (m \in dayFiled) ~> (m \in announced \cup forgotten)
=============================================================================
