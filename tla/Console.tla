------------------------------ MODULE Console -------------------------------
(***************************************************************************)
(* pai start (bin/pai/pai.py): one process serves the web console, starts  *)
(* a kernel in a process group of its own and ends it on the way out.  An  *)
(* update makes the console replace its own image; the kernel's pid rides  *)
(* the environment, and the fresh image starts another kernel, which gives *)
(* way if the lock of the kernels is held.                                 *)
(***************************************************************************)
EXTENDS Naturals

CONSTANTS MaxKernels,         \* bound on kernels started
          MaxKernelFaults     \* bound on kernels that die

Pids  == 1..MaxKernels
NoPid == 0

VARIABLES console,       \* down, starting (fresh, or on its own image), serving, ending, adopted
                         \* (it ends what it adopted)
          child,         \* the kernel it started
          adopted,       \* the pid it was handed
          handed,        \* the pid in the environment
          kernelAt,      \* each kernel: none, starting, running, wedged, gone
          lock,          \* who holds run/kernel.pid
          restartAsked,  \* a kernel:restart event waits
          forsaken,      \* kernels an image forgot, having another, or refused with
          kernelFaults

consoleVars == <<console, child, adopted, handed, kernelAt, lock, restartAsked, forsaken,
                 kernelFaults>>
holding     == <<child, adopted, handed>>

ConsoleInit ==
  /\ console = "down" /\ child = NoPid /\ adopted = NoPid /\ handed = NoPid
  /\ kernelAt = [p \in Pids |-> "none"] /\ lock = NoPid
  /\ restartAsked = FALSE /\ forsaken = {} /\ kernelFaults = 0

Up(p) == p # NoPid /\ kernelAt[p] \in {"starting", "running", "wedged"}

-----------------------------------------------------------------------------
\* A kernel takes the lock, or finds it held and ends.
TakeLock(p) ==
  /\ kernelAt[p] = "starting" /\ lock = NoPid
  /\ lock' = p /\ kernelAt' = [kernelAt EXCEPT ![p] = "running"]
  /\ UNCHANGED <<console, holding, restartAsked, forsaken, kernelFaults>>

GiveWay(p) ==
  /\ kernelAt[p] = "starting" /\ lock # NoPid
  /\ kernelAt' = [kernelAt EXCEPT ![p] = "gone"]
  /\ UNCHANGED <<console, holding, lock, restartAsked, forsaken, kernelFaults>>

\* It dies, or hangs on.
KernelFails(p) ==
  /\ kernelAt[p] = "running" /\ kernelFaults < MaxKernelFaults /\ kernelFaults' = kernelFaults + 1
  /\ \/ kernelAt' = [kernelAt EXCEPT ![p] = "gone"] /\ lock' = NoPid
     \/ kernelAt' = [kernelAt EXCEPT ![p] = "wedged"] /\ UNCHANGED lock
  /\ UNCHANGED <<console, holding, restartAsked, forsaken>>

\* On kernel:restart it replaces its own image, under the same pid: it meets the lock again.
KernelRestarts(p) ==
  /\ kernelAt[p] = "running" /\ restartAsked /\ restartAsked' = FALSE
  /\ kernelAt' = [kernelAt EXCEPT ![p] = "starting"] /\ lock' = NoPid
  /\ UNCHANGED <<console, holding, forsaken, kernelFaults>>

\* _restart_kernel_after_update, and reboot: an event, if the lock is held.
AskRestart ==
  /\ lock # NoPid /\ restartAsked' = TRUE
  /\ UNCHANGED <<console, holding, kernelAt, lock, forsaken, kernelFaults>>

-----------------------------------------------------------------------------
\* cmd_start, where no kernel runs, or on the image it replaced: the pid of the environment, if
\* it is alive still; a kernel of its own.
StartConsole ==
  /\ console \in {"down", "starting"} /\ (console = "down" => \A p \in Pids : ~Up(p))
  /\ \E p \in Pids :
       /\ kernelAt[p] = "none" /\ \A q \in Pids : q < p => kernelAt[q] # "none"
       /\ child' = p /\ kernelAt' = [kernelAt EXCEPT ![p] = "starting"]
  /\ adopted' = IF Up(handed) THEN handed ELSE NoPid
  /\ handed' = NoPid /\ console' = "serving"
  /\ UNCHANGED <<lock, restartAsked, forsaken, kernelFaults>>

\* check_layout finds a directory missing: the image ends before it owns anything.
RefuseStart ==
  /\ console = "starting" /\ console' = "down"
  /\ handed' = NoPid /\ forsaken' = IF Up(handed) THEN forsaken \cup {handed} ELSE forsaken
  /\ UNCHANGED <<child, adopted, kernelAt, lock, restartAsked, kernelFaults>>

\* The child, whatever became of it.
MutLive == child

\* restart_console: the kernel the fresh image is to own.
Live == IF Up(child) THEN child ELSE adopted

\* The image is replaced; children stay.
ReplaceImage ==
  /\ console = "serving" /\ (\E p \in Pids : kernelAt[p] = "none")
  /\ console' = "starting" /\ handed' = Live /\ child' = NoPid /\ adopted' = NoPid
  /\ forsaken' = IF Up(child) /\ Up(adopted) THEN forsaken \cup {adopted} ELSE forsaken
  /\ UNCHANGED <<kernelAt, lock, restartAsked, kernelFaults>>

\* The web server returns.
EndServing ==
  /\ console = "serving" /\ console' = "ending"
  /\ UNCHANGED <<holding, kernelAt, lock, restartAsked, forsaken, kernelFaults>>

\* TERM to the group, and KILL to what has not gone in five seconds.
TearDown(p, next) ==
  /\ console' = next
  /\ kernelAt' = IF Up(p) THEN [kernelAt EXCEPT ![p] = "gone"] ELSE kernelAt
  /\ lock' = IF lock = p THEN NoPid ELSE lock
  /\ UNCHANGED <<holding, restartAsked, forsaken, kernelFaults>>

EndChild   == console = "ending" /\ TearDown(child, "adopted")

\* _terminate_adopted_kernel.
EndAdopted == console = "adopted" /\ TearDown(adopted, "down")

ConsoleNext ==
  \/ \E p \in Pids : TakeLock(p) \/ GiveWay(p) \/ KernelFails(p) \/ KernelRestarts(p)
  \/ AskRestart \/ RefuseStart \/ StartConsole \/ ReplaceImage \/ EndServing \/ EndChild \/ EndAdopted

ConsoleSpec == ConsoleInit /\ [][ConsoleNext]_consoleVars

-----------------------------------------------------------------------------
\* When pai start has ended, no kernel that it or an earlier image of it started lives on, through
\* any number of replaced images, kernel restarts and kernels that died or hung; but for the
\* kernel an image forgot because its own child was up as well when it was replaced, which is the
\* child of a moment if it is about to meet the lock, and for one handed to an image that refused
\* to start (restart_console: "so the fresh image still owns its teardown").
NoKernelSurvives == console = "down" => \A p \in Pids : Up(p) => p \in forsaken
=============================================================================
