------------------------------- MODULE Cowork -------------------------------
(***************************************************************************)
(* Cowork mode (drivers/cowork): the window driver supervises a sidecar    *)
(* process that reports window activations and samples the pasteboard, the *)
(* file driver takes batches from a stream of file events.  The kernel     *)
(* freezes and unfreezes each facet at any time.                           *)
(***************************************************************************)
EXTENDS Integers, Sequences

CONSTANTS MaxCopies,          \* bound on copies
          Files,              \* files that may change
          MaxFlips,           \* bound on freezes and unfreezes
          MaxCoworkFaults     \* bound on cancellations, failures and deaths

Facets     == {"window", "clipboard", "files"}
Sampling   == {"window", "clipboard"}     \* the facets that need the sidecar
Unseeded   == -1
FatalLine  == -1      \* lines of the sidecar; a clipboard line is the changeCount it reports
WindowLine == 0

VARIABLES freeze,      \* the facets that are off
          supervisor,  \* off, top, paused, reading, ending, fatal, backoff, gone
          sidecar,     \* none, up
          pipe,        \* what the sidecar printed and the supervisor has not read
          seen,        \* the changeCount the sidecar saw last
          flipped,     \* the supervisor's queue of freeze flips holds something
          copies,      \* the changeCount of the pasteboard
          unseen,      \* copies made while no sidecar ran
          clipLog,     \* copies in the log
          fileDriver,  \* off, idle, asking (for the source of a new file), gone
          stream,      \* the stream of file events is up
          events,      \* batches on their way to the file driver
          taken,       \* what is left of the batch it took
          fileLog,     \* files in the log
          flips, coworkFaults

coworkVars == <<freeze, supervisor, sidecar, pipe, seen, flipped, copies, unseen, clipLog,
                fileDriver, stream, events, taken, fileLog, flips, coworkFaults>>
windowSide == <<supervisor, sidecar, pipe, seen, flipped>>
clips      == <<copies, unseen, clipLog>>
fileSide   == <<fileDriver, stream, events, taken, fileLog>>

CoworkInit ==
  /\ freeze \in SUBSET Facets
  /\ supervisor = "off" /\ sidecar = "none" /\ pipe = <<>> /\ seen = Unseeded /\ flipped = FALSE
  /\ copies = 0 /\ unseen = {} /\ clipLog = {}
  /\ fileDriver = "off" /\ stream = FALSE /\ events = <<>> /\ taken = <<>> /\ fileLog = {}
  /\ flips = 0 /\ coworkFaults = 0

CoworkFault == coworkFaults < MaxCoworkFaults /\ coworkFaults' = coworkFaults + 1
Enabled(facet) == facet \notin freeze

-----------------------------------------------------------------------------
\* The kernel projects a capability; the observer of the state directory tells the supervisor.
FlipFreeze(facet) ==
  /\ flips < MaxFlips /\ flips' = flips + 1
  /\ freeze' = IF Enabled(facet) THEN freeze \cup {facet} ELSE freeze \ {facet}
  /\ flipped' = (supervisor \notin {"off", "gone"})
  /\ UNCHANGED <<supervisor, sidecar, pipe, seen, clips, fileSide, coworkFaults>>

Copy ==
  /\ copies < MaxCopies /\ copies' = copies + 1
  /\ unseen' = IF sidecar = "none" THEN unseen \cup {copies'} ELSE unseen
  /\ UNCHANGED <<freeze, windowSide, clipLog, fileSide, flips, coworkFaults>>

\* A sidecar that has sampled nothing yet counts from zero.
MutSampled == IF copies > 0 /\ seen # copies THEN <<copies>> ELSE <<>>

\* _sample_clipboard: the first sample only seeds the count.
Sampled == IF seen # Unseeded /\ seen # copies THEN <<copies>> ELSE <<>>

\* _on_activate: a window line, and a clipboard line if the count moved.
AppActivated ==
  /\ sidecar = "up" /\ Len(pipe) < 2
  /\ pipe' = pipe \o <<WindowLine>> \o Sampled /\ seen' = copies
  /\ UNCHANGED <<freeze, supervisor, sidecar, flipped, clips, fileSide, flips, coworkFaults>>

-----------------------------------------------------------------------------
\* Only while both facets are on.
MutNeeded == Enabled("window") /\ Enabled("clipboard")

\* _sidecar_needed.
SidecarNeeded == Enabled("window") \/ Enabled("clipboard")

\* run of both drivers; the stream of file events starts in a thread of its own.
StartCowork ==
  /\ supervisor = "off" /\ supervisor' = "top" /\ flipped' = FALSE
  /\ fileDriver' = "idle" /\ stream' = TRUE /\ taken' = <<>> /\ events' = <<>>
  /\ UNCHANGED <<freeze, sidecar, pipe, seen, clips, fileLog, flips, coworkFaults>>

\* The top of the loop of run: both facets off, and it waits for a flip; or a sidecar.
Pause ==
  /\ supervisor = "top" /\ ~SidecarNeeded /\ supervisor' = "paused"
  /\ UNCHANGED <<freeze, sidecar, pipe, seen, flipped, clips, fileSide, flips, coworkFaults>>

Resume ==
  /\ supervisor = "paused" /\ flipped /\ flipped' = FALSE
  /\ supervisor' = IF SidecarNeeded THEN "top" ELSE "paused"
  /\ UNCHANGED <<freeze, sidecar, pipe, seen, clips, fileSide, flips, coworkFaults>>

SpawnSidecar ==
  /\ supervisor = "top" /\ SidecarNeeded /\ supervisor' = "reading"
  /\ sidecar' = "up" /\ pipe' = <<>> /\ seen' = Unseeded
  /\ UNCHANGED <<freeze, flipped, clips, fileSide, flips, coworkFaults>>

\* main, without the accessibility permission or its library.
SidecarRefuses ==
  /\ sidecar = "up" /\ seen = Unseeded /\ pipe = <<>> /\ CoworkFault
  /\ pipe' = <<FatalLine>> /\ sidecar' = "none"
  /\ UNCHANGED <<freeze, supervisor, seen, flipped, clips, fileSide, flips>>

SidecarDies ==
  /\ sidecar = "up" /\ CoworkFault /\ sidecar' = "none"
  /\ UNCHANGED <<freeze, supervisor, pipe, seen, flipped, clips, fileSide, flips>>

SeeFlip ==
  /\ supervisor = "reading" /\ flipped /\ flipped' = FALSE
  /\ supervisor' = IF SidecarNeeded THEN "reading" ELSE "ending"
  /\ UNCHANGED <<freeze, sidecar, pipe, seen, clips, fileSide, flips, coworkFaults>>

\* _handle_line: each line against its own facet.
HandleLine ==
  /\ supervisor = "reading" /\ pipe # <<>> /\ pipe' = Tail(pipe)
  /\ supervisor' = IF Head(pipe) = FatalLine THEN "fatal" ELSE "reading"
  /\ clipLog' = IF Head(pipe) \in {FatalLine, WindowLine} \/ ~Enabled("clipboard")
                THEN clipLog ELSE clipLog \cup {Head(pipe)}
  /\ UNCHANGED <<freeze, sidecar, seen, flipped, copies, unseen, fileSide, flips, coworkFaults>>

\* A copy too long for the reader of the pipe (64 KiB, the default): the driver fails.
OverlongLine ==
  /\ supervisor = "reading" /\ pipe # <<>> /\ Head(pipe) > WindowLine /\ CoworkFault
  /\ supervisor' = "fatal" /\ pipe' = Tail(pipe)
  /\ UNCHANGED <<freeze, sidecar, seen, flipped, clips, fileSide, flips>>

SidecarExited ==
  /\ supervisor = "reading" /\ sidecar = "none" /\ pipe = <<>> /\ supervisor' = "ending"
  /\ UNCHANGED <<freeze, sidecar, pipe, seen, flipped, clips, fileSide, flips, coworkFaults>>

\* The sidecar is terminated; a fatal line ends the driver, a sidecar that is needed still is
\* started again after a while.
EndSidecar ==
  /\ supervisor \in {"ending", "fatal"} /\ sidecar' = "none" /\ pipe' = <<>>
  /\ supervisor' = IF supervisor = "fatal" THEN "gone" ELSE IF SidecarNeeded THEN "backoff" ELSE "top"
  /\ UNCHANGED <<freeze, seen, flipped, clips, fileSide, flips, coworkFaults>>

EndBackoff ==
  /\ supervisor = "backoff" /\ supervisor' = "top"
  /\ UNCHANGED <<freeze, sidecar, pipe, seen, flipped, clips, fileSide, flips, coworkFaults>>

-----------------------------------------------------------------------------
\* _StreamWatcher: a stream that does not start says so.
StreamFails ==
  /\ stream /\ events = <<>> /\ fileLog = {} /\ CoworkFault
  /\ stream' = FALSE /\ events' = <<<<>>>>
  /\ UNCHANGED <<freeze, windowSide, clips, fileDriver, taken, fileLog, flips>>

\* _StreamWatcher: a batch of the changes that pass the denylist.
DeliverBatch(batch) ==
  /\ stream /\ events = <<>> /\ events' = <<batch>>
  /\ UNCHANGED <<freeze, windowSide, clips, fileDriver, stream, taken, fileLog, flips,
                 coworkFaults>>

\* The batch is dropped if the facet is off; a stream that failed ends the driver.
TakeBatch ==
  /\ fileDriver = "idle" /\ taken = <<>> /\ events # <<>> /\ events' = Tail(events)
  /\ taken' = IF Enabled("files") THEN Head(events) ELSE <<>>
  /\ fileDriver' = IF stream THEN "idle" ELSE "gone"
  /\ UNCHANGED <<freeze, windowSide, clips, stream, fileLog, flips, coworkFaults>>

\* A created or renamed file's source is asked for in a thread.
AskSource ==
  /\ fileDriver = "idle" /\ taken # <<>> /\ fileDriver' = "asking"
  /\ UNCHANGED <<freeze, windowSide, clips, stream, events, taken, fileLog, flips, coworkFaults>>

LogFile ==
  /\ fileDriver \in {"idle", "asking"} /\ taken # <<>> /\ fileDriver' = "idle"
  /\ taken' = Tail(taken) /\ fileLog' = fileLog \cup {Head(taken)}
  /\ UNCHANGED <<freeze, windowSide, clips, stream, events, flips, coworkFaults>>

-----------------------------------------------------------------------------
\* Both drivers are cancelled, or the kernel dies; a sidecar it leaves prints to nobody.
StopCowork ==
  /\ supervisor # "off" /\ CoworkFault
  /\ supervisor' = "off" /\ sidecar' = "none" /\ pipe' = <<>> /\ flipped' = FALSE
  /\ fileDriver' = "off" /\ stream' = FALSE /\ events' = <<>> /\ taken' = <<>>
  /\ UNCHANGED <<freeze, seen, clips, fileLog, flips>>

CoworkTasks ==
  \/ Pause \/ Resume \/ SpawnSidecar \/ SeeFlip \/ HandleLine \/ SidecarExited \/ EndSidecar
  \/ EndBackoff

FileTasks == TakeBatch \/ LogFile

CoworkNext ==
  \/ \E facet \in Facets : FlipFreeze(facet)
  \/ Copy \/ AppActivated \/ StartCowork \/ CoworkTasks \/ SidecarRefuses \/ SidecarDies
  \/ OverlongLine \/ StreamFails \/ (\E f \in Files : DeliverBatch(<<f>>)) \/ FileTasks \/ AskSource
  \/ StopCowork

CoworkSpec == CoworkInit /\ [][CoworkNext]_coworkVars

-----------------------------------------------------------------------------
\* A copy made while no sidecar ran, because both facets were off or the last one had died, is
\* never in the log, however often sidecars come and go and facets are switched
\* (_sample_clipboard: "a copy made before this process started is never retroactively logged").
NothingRetroactive == clipLog \cap unseen = {}

\* While the window driver runs and one of its facets is on, it has a sidecar again and again:
\* no flip is missed between the look at the freeze files and the wait for the next flip
\* (run, _start_freeze_watch: "a freeze removed -> sidecar restarts on the watchdog event").
CaptureComesBack ==
  freeze \cap Sampling # Sampling ~>
    (sidecar = "up" \/ Sampling \subseteq freeze \/ supervisor \in {"off", "gone"})
=============================================================================
