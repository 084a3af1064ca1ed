-------------------------------- MODULE Voice --------------------------------
(***************************************************************************)
(* The voice driver, frame of audio by frame: a wake word, or speech       *)
(* within the window the console arms after a spoken reply, opens a turn;  *)
(* silence or the cap ends it; worker threads transcribe, several turns at *)
(* a time, and the outcome is told.                                        *)
(***************************************************************************)
EXTENDS Integers

CONSTANTS OnsetFrames,     \* voiced frames in a row that open a follow-up turn
          SilenceFrames,   \* silent frames in a row that end a turn
          CapFrames,       \* MAX_UTTERANCE_S
          CooldownFrames,  \* WAKE_COOLDOWN_S
          MaxTurns,        \* bound: turns opened
          MaxArms,         \* bound: windows the console arms
          MaxVoiceFaults   \* bound: cancellations, failed writes, odd whisper errors, deaths

FrameKinds == {"quiet", "speech", "wake"}
TurnStates == {"none", "capturing", "transcribing", "echoed",    \* and for good:
               "told", "noise", "dropped", "failed", "lost"}
TurnIds    == 1..MaxTurns

VARIABLES
  listener,   \* "down", "listening", "capturing"
  window,     \* the follow-up file holds a deadline in the future
  heard,      \* listening: the detector's voiced frames in a row
  still,      \* capturing: silent frames in a row
  elapsed,    \* capturing: frames since the turn was opened
  cooldown,   \* frames until a new turn may open
  turn,       \* what became of each turn
  \* observers
  opened, arms, voiceFaults

voiceVars == <<listener, window, heard, still, elapsed, cooldown, turn, opened, arms, voiceFaults>>

VoiceInit ==
  /\ listener = "down" /\ window = FALSE /\ heard = 0 /\ still = 0 /\ elapsed = 0
  /\ cooldown = 0 /\ turn = [c \in TurnIds |-> "none"]
  /\ opened = 0 /\ arms = 0 /\ voiceFaults = 0

VoiceFault == voiceFaults < MaxVoiceFaults /\ voiceFaults' = voiceFaults + 1

-----------------------------------------------------------------------------
\* The console, when the reply was read out; and the deadline passing.
ArmWindow ==
  /\ arms < MaxArms /\ arms' = arms + 1 /\ window' = TRUE
  /\ UNCHANGED <<listener, heard, still, elapsed, cooldown, turn, opened, voiceFaults>>

WindowPasses ==
  /\ window /\ window' = FALSE
  /\ UNCHANGED <<listener, heard, still, elapsed, cooldown, turn, opened, arms, voiceFaults>>

\* The wake model, the detectors and the microphone are opened anew.
StartVoice ==
  /\ listener = "down" /\ listener' = "listening"
  /\ heard' = 0 /\ still' = 0 /\ elapsed' = 0 /\ cooldown' = 0
  /\ UNCHANGED <<window, turn, opened, arms, voiceFaults>>

-----------------------------------------------------------------------------
\* The consecutive voiced, or silent, frames after one of kind k.
Voiced(k) == IF k = "quiet" THEN 0 ELSE heard + 1
Silent(k) == IF k = "quiet" THEN still + 1 ELSE 0

\* The turn is announced as "listening" at once.
Open ==
  /\ opened < MaxTurns /\ opened' = opened + 1
  /\ turn' = [turn EXCEPT ![opened + 1] = "capturing"]
  /\ listener' = "capturing" /\ still' = 0 /\ elapsed' = 0

\* Frames of the cooldown go by unheard, and so do those that open nothing.
PassFrame(k) ==
  /\ listener = "listening"
  /\ IF cooldown > 0 THEN cooldown' = cooldown - 1 /\ heard' = heard
     ELSE /\ k # "wake" /\ cooldown' = 0
          /\ IF window THEN Voiced(k) < OnsetFrames /\ heard' = Voiced(k)
                       ELSE heard' = 0
  /\ UNCHANGED <<listener, window, still, elapsed, turn, opened, arms, voiceFaults>>

\* Speech goes on within the window: the file is used up, then the turn opened.
OpenFollowup(k) ==
  /\ listener = "listening" /\ cooldown = 0 /\ window /\ Voiced(k) >= OnsetFrames
  /\ Open /\ window' = FALSE /\ heard' = 0
  /\ UNCHANGED <<cooldown, arms, voiceFaults>>

\* The wake word, within the window or not; a window stays armed.
OpenByWake ==
  /\ listener = "listening" /\ cooldown = 0
  /\ window => Voiced("wake") < OnsetFrames
  /\ Open /\ heard' = IF window THEN Voiced("wake") ELSE 0
  /\ UNCHANGED <<window, cooldown, arms, voiceFaults>>

TurnIsOver(k) == Silent(k) >= SilenceFrames \/ elapsed + 1 >= CapFrames

\* Mutant: the cap counts from the last speech.
MutCaptureFrame(k) ==
  /\ listener = "capturing" /\ ~TurnIsOver(k)
  /\ still' = Silent(k) /\ elapsed' = IF k = "quiet" THEN elapsed + 1 ELSE 0
  /\ UNCHANGED <<listener, window, heard, cooldown, turn, opened, arms, voiceFaults>>

CaptureFrame(k) ==
  /\ listener = "capturing" /\ ~TurnIsOver(k)
  /\ still' = Silent(k) /\ elapsed' = elapsed + 1
  /\ UNCHANGED <<listener, window, heard, cooldown, turn, opened, arms, voiceFaults>>

\* A turn too short or too soft is dropped; any other is saved and handed to a thread.
EndTurn(k) ==
  /\ listener = "capturing" /\ TurnIsOver(k)
  /\ \E s \in {"dropped", "transcribing"} : turn' = [turn EXCEPT ![opened] = s]
  /\ listener' = "listening" /\ cooldown' = CooldownFrames
  /\ heard' = 0 /\ still' = 0 /\ elapsed' = 0
  /\ UNCHANGED <<window, opened, arms, voiceFaults>>

HearFrame ==
  \/ \E k \in FrameKinds : PassFrame(k) \/ OpenFollowup(k) \/ CaptureFrame(k) \/ EndTurn(k)
  \/ OpenByWake

-----------------------------------------------------------------------------
Become(c, from, to) ==
  /\ turn[c] = from /\ turn' = [turn EXCEPT ![c] = to]
  /\ UNCHANGED <<listener, window, heard, still, elapsed, cooldown, opened, arms>>

\* whisper.cpp ends: words, which go to the owner's day-file first; no words; or an error it
\* reports, which is told as a failure.
EchoBubble(c)    == Become(c, "transcribing", "echoed") /\ UNCHANGED voiceFaults
DropNoise(c)     == Become(c, "transcribing", "noise") /\ UNCHANGED voiceFaults
TellFailure(c)   == Become(c, "transcribing", "failed") /\ UNCHANGED voiceFaults
EmitUtterance(c) == Become(c, "echoed", "told") /\ UNCHANGED voiceFaults

\* An error of another class ends the task unseen.
TranscriberRaises(c) == VoiceFault /\ Become(c, "transcribing", "lost")

Transcribe ==
  \E c \in TurnIds : EchoBubble(c) \/ DropNoise(c) \/ TellFailure(c) \/ EmitUtterance(c)

\* What a stop takes with it: the turn being captured.
Uncaptured == [c \in TurnIds |-> IF turn[c] = "capturing" THEN "lost" ELSE turn[c]]

\* Cancelled, or failed (saving a turn, say, and told so); tasks that transcribe go on.
StopVoice ==
  /\ VoiceFault /\ listener # "down" /\ listener' = "down" /\ turn' = Uncaptured
  /\ UNCHANGED <<window, heard, still, elapsed, cooldown, opened, arms>>

\* The kernel dies: every turn under way is lost.
KernelDiesOnVoice ==
  /\ VoiceFault /\ listener' = "down"
  /\ turn' = [c \in TurnIds |-> IF turn[c] \in {"transcribing", "echoed"} THEN "lost"
                                ELSE Uncaptured[c]]
  /\ UNCHANGED <<window, heard, still, elapsed, cooldown, opened, arms>>

VoiceNext ==
  \/ ArmWindow \/ WindowPasses \/ StartVoice \/ HearFrame \/ Transcribe
  \/ \E c \in TurnIds : TranscriberRaises(c)
  \/ StopVoice \/ KernelDiesOnVoice

VoiceSpec == VoiceInit /\ [][VoiceNext]_voiceVars

-----------------------------------------------------------------------------
(* Properties.                                                             *)

\* Whoever spoke up gets an outcome, however noisy the room: a turn announced as "listening"
\* ends, told, dropped or failed, also beside a later one; at worst a fault loses it.
TurnIsSettled ==
  \A c \in TurnIds :
    turn[c] = "capturing" ~> turn[c] \in {"told", "noise", "dropped", "failed", "lost"}
=============================================================================
