----------------------------- MODULE Notetaker ------------------------------
(***************************************************************************)
(* Call recording (drivers/notetaker): the recorder task takes command     *)
(* files, starts and stops a capture in a worker thread and hands a        *)
(* finished session to a transcription, a task of its own in the kernel's  *)
(* event loop.  A worker outlives a recorder that is cancelled; nothing    *)
(* outlives the kernel but the files, which the next start goes through.   *)
(***************************************************************************)
EXTENDS Naturals, Sequences

CONSTANTS MaxCalls,            \* bound on sessions
          MaxCommandFiles,     \* bound on command files
          MaxRecorderFaults    \* bound on cancellations, kernel deaths and lost commands

Calls      == 1..MaxCalls
CommandIds == 1..MaxCommandFiles
NoCall     == 0
NoWork     == [at |-> "none", call |-> NoCall]

VARIABLES orders,           \* the command directory: none, empty, start, stop, gone
          paths,            \* q: paths the recorder is to read
          recorder,         \* down (with the kernel), stopped, ready, starting, stopping
          session,          \* the session that records
          work,             \* the worker the recorder waits for, and one it left behind
          callStatus,       \* the status file of each session
          meta,             \* the sessions with a meta.yaml
          capturing,        \* the sessions whose tap runs
          callMarker,       \* the recording marker is there
          frozen,           \* capture.freeze is there
          cloud,            \* the sessions to be transcribed by the provider
          scribe,           \* transcriptions: none, running, mixed, text, written
          announced, told,  \* sessions with a recording_started; with a transcript_ or start_failed
          astray,           \* sessions nobody has in hand any more
          recorderFaults

callVars  == <<orders, paths, recorder, session, work, callStatus, meta, capturing, callMarker,
               frozen, cloud, scribe, announced, told, astray, recorderFaults>>
inbox     == <<orders, paths>>
disk      == <<callStatus, meta, callMarker, cloud>>
tellings  == <<announced, told, astray>>

CallInit ==
  /\ orders = [i \in CommandIds |-> "none"] /\ paths = <<>>
  /\ recorder = "down" /\ session = NoCall /\ work = <<NoWork, NoWork>>
  /\ callStatus = [c \in Calls |-> "none"] /\ meta = {} /\ capturing = {} /\ callMarker = FALSE
  /\ cloud = {} /\ frozen \in BOOLEAN /\ scribe = [c \in Calls |-> "none"]
  /\ announced = {} /\ told = {} /\ astray = {} /\ recorderFaults = 0

RecorderFault == recorderFaults < MaxRecorderFaults /\ recorderFaults' = recorderFaults + 1
Listening     == recorder \in {"ready", "starting", "stopping"}

-----------------------------------------------------------------------------
\* A command file appears whole, by a rename or in one write; or it is created first, and
\* the recorder is told then.
DropCommand(i, action) ==
  /\ orders[i] = "none" /\ (\A j \in CommandIds : j < i => orders[j] # "none")
  /\ orders' = [orders EXCEPT ![i] = action]
  /\ paths' = IF Listening THEN Append(paths, i) ELSE paths
  /\ IF action = "empty" THEN RecorderFault ELSE UNCHANGED recorderFaults
  /\ UNCHANGED <<recorder, session, work, disk, capturing, frozen, scribe, tellings>>

\* What is written to a file that was consumed meanwhile is lost.
FillCommand(i, action) ==
  /\ orders[i] = "empty" /\ orders' = [orders EXCEPT ![i] = action]
  /\ UNCHANGED <<paths, recorder, session, work, disk, capturing, frozen, scribe, tellings,
                 recorderFaults>>

\* The kernel projects the capability onto the freeze file.
ProjectFreezeFile ==
  /\ frozen' = ~frozen
  /\ UNCHANGED <<inbox, recorder, session, work, disk, capturing, scribe, tellings,
                 recorderFaults>>

-----------------------------------------------------------------------------
\* Nothing is recovered.
MutInterrupted == {}

\* _recover_interrupted: sessions left in recording.
Interrupted == {c \in Calls : callStatus[c] = "recording"}

\* run: no marker; what was interrupted is transcribed if it has a meta.yaml; the commands
\* that came meanwhile, in order.
StartRecorder ==
  /\ recorder \in {"down", "stopped"}
  /\ recorder' = "ready" /\ callMarker' = FALSE /\ session' = NoCall
  /\ callStatus' = [c \in Calls |-> IF c \in Interrupted THEN "interrupted" ELSE callStatus[c]]
  /\ scribe' = [c \in Calls |-> IF c \in Interrupted \cap meta THEN "running" ELSE scribe[c]]
  /\ paths' = SelectSeq([i \in CommandIds |-> i], LAMBDA i : orders[i] \in {"empty", "start", "stop"})
  /\ UNCHANGED <<orders, work, meta, cloud, capturing, frozen, tellings, recorderFaults>>

\* The first path of the queue is consumed, whatever it holds.
Order(action) ==
  /\ recorder = "ready" /\ paths # <<>>
  /\ orders[Head(paths)] = action
  /\ orders' = [orders EXCEPT ![Head(paths)] = "gone"] /\ paths' = Tail(paths)

\* No command, a start while the capability is off or a session records, a stop of nothing.
RefuseCommand ==
  /\ \/ Order("empty") \/ Order("gone")
     \/ Order("start") /\ (frozen \/ session # NoCall)
     \/ Order("stop") /\ session = NoCall
  /\ UNCHANGED <<recorder, session, work, disk, capturing, frozen, scribe, tellings,
                 recorderFaults>>

\* Session and its start, in a worker: first the directory and its status.
StartCommand ==
  /\ Order("start") /\ ~frozen /\ session = NoCall
  /\ \E c \in Calls :
       /\ callStatus[c] = "none" /\ \A d \in Calls : d < c => callStatus[d] # "none"
       /\ callStatus' = [callStatus EXCEPT ![c] = "recording"]
       /\ work' = [work EXCEPT ![1] = [at |-> "tap", call |-> c]]
       /\ cloud' \in {cloud, cloud \cup {c}}
  /\ recorder' = "starting"
  /\ UNCHANGED <<session, meta, capturing, callMarker, frozen, scribe, tellings, recorderFaults>>

StopCommand ==
  /\ Order("stop") /\ session # NoCall
  /\ work' = [work EXCEPT ![1] = [at |-> "stop", call |-> session]]
  /\ recorder' = "stopping" /\ session' = NoCall
  /\ UNCHANGED <<disk, capturing, frozen, scribe, tellings, recorderFaults>>

-----------------------------------------------------------------------------
WorkTo(w, place) == work' = [work EXCEPT ![w].at = place]

\* TapCapture.start, and MicCapture.start, which may fail on its own.
StartTap(w) ==
  /\ work[w].at = "tap" /\ WorkTo(w, "announce")
  /\ capturing' = capturing \cup {work[w].call}
  /\ UNCHANGED <<inbox, recorder, session, disk, frozen, scribe, tellings, recorderFaults>>

\* No permission, or no device: what was opened is torn down.
TapFails(w) ==
  /\ work[w].at = "tap" /\ WorkTo(w, "refused")
  /\ UNCHANGED <<inbox, recorder, session, disk, capturing, frozen, scribe, tellings,
                 recorderFaults>>

\* meta.yaml, the marker, recording_started.
AnnounceCall(w) ==
  /\ work[w].at = "announce" /\ WorkTo(w, "started")
  /\ meta' = meta \cup {work[w].call} /\ callMarker' = TRUE
  /\ announced' = announced \cup {work[w].call}
  /\ UNCHANGED <<inbox, recorder, session, callStatus, cloud, capturing, frozen, scribe, told,
                 astray, recorderFaults>>

\* stop_capture: tap and mic, the end in meta.yaml, the marker.
StopCapture(w) ==
  /\ work[w].at = "stop" /\ WorkTo(w, "stopped")
  /\ capturing' = capturing \ {work[w].call} /\ callMarker' = FALSE
  /\ UNCHANGED <<inbox, recorder, session, callStatus, meta, cloud, frozen, scribe, tellings,
                 recorderFaults>>

\* The recorder goes on with the worker's result.
CallStarted ==
  /\ recorder = "starting" /\ work[1].at = "started"
  /\ recorder' = "ready" /\ session' = work[1].call /\ work' = [work EXCEPT ![1] = NoWork]
  /\ UNCHANGED <<inbox, disk, capturing, frozen, scribe, tellings, recorderFaults>>

CallRefused ==
  /\ recorder = "starting" /\ work[1].at = "refused"
  /\ recorder' = "ready" /\ callMarker' = FALSE
  /\ callStatus' = [callStatus EXCEPT ![work[1].call] = "failed"]
  /\ told' = told \cup {work[1].call} /\ work' = [work EXCEPT ![1] = NoWork]
  /\ UNCHANGED <<inbox, session, meta, cloud, capturing, frozen, scribe, announced, astray,
                 recorderFaults>>

CallStopped ==
  /\ recorder = "stopping" /\ work[1].at = "stopped"
  /\ recorder' = "ready"
  /\ callStatus' = [callStatus EXCEPT ![work[1].call] = "transcribing"]
  /\ scribe' = [scribe EXCEPT ![work[1].call] = "running"]
  /\ work' = [work EXCEPT ![1] = NoWork]
  /\ UNCHANGED <<inbox, session, meta, cloud, capturing, callMarker, frozen, tellings,
                 recorderFaults>>

-----------------------------------------------------------------------------
\* In a thread: finalize_wav mixes the streams that have data.
MixStreams(c) ==
  /\ scribe[c] = "running" /\ scribe' = [scribe EXCEPT ![c] = "mixed"]
  /\ UNCHANGED <<inbox, recorder, session, work, disk, capturing, frozen, tellings,
                 recorderFaults>>

\* transcribe_local, with whisper.
TranscribeLocal(c) ==
  /\ c \notin cloud /\ scribe[c] = "mixed" /\ scribe' = [scribe EXCEPT ![c] = "text"]
  /\ UNCHANGED <<inbox, recorder, session, work, disk, capturing, frozen, tellings,
                 recorderFaults>>

\* transcribe_cloud: the provider gets the audio, whole or in chunks.
TranscribeCloud(c) ==
  /\ c \in cloud /\ scribe[c] = "mixed" /\ scribe' = [scribe EXCEPT ![c] = "text"]
  /\ UNCHANGED <<inbox, recorder, session, work, disk, capturing, frozen, tellings,
                 recorderFaults>>

\* transcript.json; then the audio is deleted.
WriteTranscript(c) ==
  /\ scribe[c] = "text" /\ scribe' = [scribe EXCEPT ![c] = "written"]
  /\ UNCHANGED <<inbox, recorder, session, work, disk, capturing, frozen, tellings,
                 recorderFaults>>

\* transcript_ready; or transcript_failed after any of these steps, and the audio is kept.
TellCall(c) ==
  /\ scribe[c] # "none"
  /\ callStatus' = [callStatus EXCEPT ![c] = IF scribe[c] = "written" THEN "done" ELSE "failed"]
  /\ told' = told \cup {c} /\ scribe' = [scribe EXCEPT ![c] = "none"]
  /\ UNCHANGED <<inbox, recorder, session, work, meta, cloud, capturing, callMarker, frozen,
                 announced, astray, recorderFaults>>

-----------------------------------------------------------------------------
\* The recorder is cancelled.  A session that records is finalised and left to the next
\* start; a worker at work goes on, and what it starts is nobody's.
CancelRecorder ==
  /\ Listening /\ work[2].at \notin {"tap", "announce", "stop"} /\ RecorderFault
  /\ recorder' = "stopped" /\ paths' = <<>> /\ session' = NoCall
  /\ capturing' = capturing \ {session} /\ callMarker' = (callMarker /\ session = NoCall)
  /\ callStatus' = [c \in Calls |-> IF c = session THEN "recording" ELSE callStatus[c]]
  /\ work' = <<NoWork, work[1]>>
  /\ astray' = IF recorder = "starting" THEN astray \cup {work[1].call} ELSE astray
  /\ UNCHANGED <<orders, meta, cloud, frozen, scribe, announced, told>>

\* A transcription that dies with the kernel is not begun again.
KernelDiesOnRecorder ==
  /\ recorder # "down" /\ RecorderFault
  /\ recorder' = "down" /\ paths' = <<>> /\ session' = NoCall
  /\ work' = <<NoWork, NoWork>> /\ capturing' = {}
  /\ astray' = astray \cup {c \in Calls : scribe[c] # "none"}
  /\ scribe' = [c \in Calls |-> "none"]
  /\ UNCHANGED <<orders, disk, frozen, announced, told>>

CallTasks ==
  \/ RefuseCommand \/ StartCommand \/ StopCommand \/ CallStarted \/ CallRefused \/ CallStopped
  \/ \E w \in 1..2 : StartTap(w) \/ TapFails(w) \/ AnnounceCall(w) \/ StopCapture(w)
  \/ \E c \in Calls : MixStreams(c) \/ TranscribeLocal(c) \/ TranscribeCloud(c) \/ WriteTranscript(c)
                        \/ TellCall(c)

BootRecorder == recorder = "down" /\ StartRecorder

CallNext ==
  \/ \E i \in CommandIds : \/ \E action \in {"empty", "start", "stop"} : DropCommand(i, action)
                           \/ \E action \in {"start", "stop"} : FillCommand(i, action)
  \/ ProjectFreezeFile \/ StartRecorder \/ CallTasks \/ CancelRecorder \/ KernelDiesOnRecorder

CallSpec == CallInit /\ [][CallNext]_callVars

-----------------------------------------------------------------------------
\* A call that was recorded, and whose capture has ended, is told of, with its transcript or with
\* the failure, unless nobody has it in hand: its transcription died with the kernel, or the
\* recorder was cancelled while it started the session.  While the recorder is stopped nothing is
\* promised (run, _recover_interrupted, _transcribe_and_emit; events.yaml: "a recorded call is
\* never silently dropped").
CallIsTold ==
  \A c \in Calls : (c \in announced \ capturing) ~> (c \in told \cup astray \/ recorder = "stopped")
=============================================================================
