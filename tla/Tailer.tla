------------------------------- MODULE Tailer -------------------------------
(***************************************************************************)
(* The cursor-based tailer every outbound driver is built on, over one     *)
(* day-file of one thread.  A PAI appends bare lines, the drivers append   *)
(* bracketed log lines; the tailer hands each complete bare line to        *)
(* on_line and moves a persisted cursor.  Two tasks drain: one per file    *)
(* event, one for a new thread directory; a lock keeps them apart.         *)
(*                                                                         *)
(* The file is a sequence of pieces, so that a line may be written in two  *)
(* halves and the cursor may stand inside a line.  suppress_next is left   *)
(* out: it skips only bracketed lines, which on_line ignores anyway.       *)
(***************************************************************************)
EXTENDS Integers, SequencesExt

CONSTANTS Msgs,        \* the messages the PAI writes: numbers, in writing order
          MaxHalves,   \* bound: messages written in two writes
          MaxLogs,     \* bound: log lines the inbound driver appends
          MaxFaults,   \* bound: exceptions out of on_line
          MaxCrashes,  \* bound: kernel deaths
          MaxEdits     \* bound: times the file is emptied by hand

ASSUME TailerAssumption ==
  /\ Msgs \subseteq Nat \ {0}
  /\ {MaxHalves, MaxLogs, MaxFaults, MaxCrashes, MaxEdits} \subseteq Nat

NL  == <<"nl", 0>>
LOG == <<"log", 0>>                   \* "[HH:MM] me: ...", "[HH:MM] kernel: ..."
HeadOf(m) == <<"head", m>>
TailOf(m) == <<"tail", m>>
Whole(m)  == <<HeadOf(m), TailOf(m)>>
Unseen == -1                          \* the file has no cursor

Workers == {"files", "dirs"}

VARIABLES
  dir, owned,      \* does the thread directory exist, with a meta.yaml of our channel?
  file,            \* the day-file
  saved,           \* its cursor in cursors.yaml
  up,              \* does the driver run?
  cursor,          \* its cursor in memory
  woken, dirEvent, \* a file event, the directory event wait in the queues
  lock,            \* the task that drains the file, or "free"
  todo, upto,      \* per task: the bare lines it has yet to hand over, each with where it
                   \* starts; its chunk's end
  \* observers
  written,         \* the messages whose line is complete, in file order
  owed,            \* those completed while the driver ran
  half,            \* the message the PAI is in the middle of, 0 if none
  handed,          \* the lines on_line was done with, in order
  halves, logs, faults, crashes, edits

vars == <<dir, owned, file, saved, up, cursor, woken, dirEvent, lock, todo, upto,
          written, owed, half, handed, halves, logs, faults, crashes, edits>>

paper  == <<written, owed>>
counts == <<halves, logs, faults, crashes, edits>>
thread == <<dir, owned>>
memory == <<up, cursor, dirEvent, lock, todo, upto>>

Init ==
  /\ dir \in BOOLEAN /\ owned = dir
  /\ file = <<>> /\ saved = Unseen
  /\ up = FALSE /\ cursor = Unseen /\ woken = FALSE /\ dirEvent = FALSE
  /\ lock = "free" /\ todo = [w \in Workers |-> {}]
  /\ upto = [w \in Workers |-> 0]
  /\ written = <<>> /\ owed = {} /\ half = 0 /\ handed = <<>>
  /\ halves = 0 /\ logs = 0 /\ faults = 0 /\ crashes = 0 /\ edits = 0

-----------------------------------------------------------------------------
(* Writers: other processes, which the event loop does not hold back.      *)

\* The watch sees the directory only while the driver runs.
MakeThread ==
  /\ ~dir
  /\ dir' = TRUE
  /\ dirEvent' = up
  /\ UNCHANGED <<owned, file, saved, up, cursor, woken, lock, todo, upto,
                 paper, half, handed, counts>>

MutGrow(pieces) ==                                 \* drops the events of a drain
  /\ dir
  /\ file' = file \o pieces
  /\ woken' = (woken \/ (up /\ lock = "free"))

\* Pieces reach the end of the file; the watch sees it if it is on.
Grow(pieces) ==
  /\ dir
  /\ file' = file \o pieces
  /\ woken' = (woken \/ up)

IsNext(m) == m \in Msgs /\ m = Len(written) + 1

\* A line completed while the driver runs is work it owes the PAI, unless the
\* directory was made while it was down: nothing ever materializes that one.
Completed(m) ==
  /\ written' = Append(written, m)
  /\ owed' = IF up /\ (owned \/ dirEvent) THEN owed \cup {m} ELSE owed

WriteLine(m) ==
  /\ IsNext(m) /\ half = 0
  /\ Grow(Whole(m) \o <<NL>>)
  /\ Completed(m)
  /\ UNCHANGED <<thread, saved, memory, half, handed, counts>>

WriteHead(m) ==
  /\ IsNext(m) /\ half = 0 /\ halves < MaxHalves
  /\ Grow(<<HeadOf(m)>>)
  /\ half' = m /\ halves' = halves + 1
  /\ UNCHANGED <<thread, saved, memory, paper, handed, logs, faults, crashes, edits>>

WriteTail(m) ==
  /\ half = m
  /\ Grow(<<TailOf(m), NL>>)
  /\ half' = 0
  /\ Completed(m)
  /\ UNCHANGED <<thread, saved, memory, handed, counts>>

\* An inbound message is logged in the same file.
LogInbound ==
  /\ logs < MaxLogs
  /\ Grow(<<LOG, NL>>)
  /\ logs' = logs + 1
  /\ UNCHANGED <<thread, saved, memory, paper, half, handed, halves, faults, crashes, edits>>

\* Somebody empties the file.
Truncate ==
  /\ edits < MaxEdits /\ half = 0 /\ file # <<>>
  /\ file' = <<>> /\ woken' = (woken \/ up)
  /\ edits' = edits + 1
  /\ UNCHANGED <<thread, saved, memory, paper, half, handed, halves, logs, faults, crashes>>

-----------------------------------------------------------------------------
(* The lines of a chunk.                                                   *)

IsStart(p, from) == p = from + 1 \/ file[p - 1] = NL

\* The first newline at or after p, the end of the file if there is none.
LineEnd(p) == Min({Len(file) + 1} \cup {e \in p..Len(file) : file[e] = NL})

\* Bare lines only: empty lines are skipped, bracketed ones are log entries.
IsBare(p) == file[p] \notin {NL, LOG}

BareLines(from, to) ==
  {<<p, SubSeq(file, p, LineEnd(p) - 1)>> :
     p \in {q \in (from + 1)..to : IsStart(q, from) /\ IsBare(q)}}

\* Where the last complete line of the chunk ends; `from` if there is none.
LastNewline(from) ==
  IF \E p \in (from + 1)..Len(file) : file[p] = NL
    THEN CHOOSE p \in (from + 1)..Len(file) :
           file[p] = NL /\ \A q \in (p + 1)..Len(file) : file[q] # NL
    ELSE from

-----------------------------------------------------------------------------
(* The driver.                                                             *)

\* Load the cursors and seed an owned file that has none at its size.
Start ==
  /\ ~up
  /\ up' = TRUE
  /\ cursor' = IF saved = Unseen /\ owned /\ file # <<>> THEN Len(file) ELSE saved
  /\ saved' = cursor'
  /\ UNCHANGED <<thread, file, woken, dirEvent, lock, todo, upto, paper, half, handed, counts>>

\* _drain_file, from taking the lock to the first bare line.
Drain(w) ==
  LET from == IF cursor = Unseen THEN 0 ELSE cursor
      to   == LastNewline(from)
  IN  IF Len(file) < from
        THEN /\ cursor' = Len(file) /\ saved' = Len(file)
             /\ UNCHANGED <<lock, todo, upto>>
        ELSE IF to = from
               THEN UNCHANGED <<cursor, saved, lock, todo, upto>>
               ELSE /\ lock' = w
                    /\ todo' = [todo EXCEPT ![w] = BareLines(from, to)]
                    /\ upto' = [upto EXCEPT ![w] = to]
                    /\ UNCHANGED <<cursor, saved>>

MutFileEvent ==                                    \* does not wait for the lock
  /\ up /\ woken /\ lock # "files"
  /\ woken' = FALSE
  /\ IF owned THEN Drain("files") ELSE UNCHANGED <<cursor, saved, lock, todo, upto>>
  /\ UNCHANGED <<thread, file, up, dirEvent, paper, half, handed, counts>>

\* A file event; nothing happens as long as the thread is not ours.
FileEvent ==
  /\ up /\ woken /\ lock = "free"
  /\ woken' = FALSE
  /\ IF owned THEN Drain("files") ELSE UNCHANGED <<cursor, saved, lock, todo, upto>>
  /\ UNCHANGED <<thread, file, up, dirEvent, paper, half, handed, counts>>

\* A new thread directory: meta.yaml is materialized, then its day-file drained.
DirEvent ==
  /\ up /\ dirEvent /\ lock = "free"
  /\ dirEvent' = FALSE
  /\ owned' = TRUE
  /\ IF file = <<>> THEN UNCHANGED <<cursor, saved, lock, todo, upto>> ELSE Drain("dirs")
  /\ UNCHANGED <<dir, file, up, woken, paper, half, handed, counts>>

\* The first of the lines w has yet to hand over.
FirstLine(w, l) == l \in todo[w] /\ \A k \in todo[w] : l[1] <= k[1]

\* on_line is done with a line, sent or not, and has logged the outcome.
LineDone(w) ==
  /\ \E l \in todo[w] :
       /\ FirstLine(w, l)
       /\ handed' = Append(handed, l[2])
       /\ todo' = [todo EXCEPT ![w] = @ \ {l}]
  /\ Grow(<<LOG, NL>>)
  /\ UNCHANGED <<thread, saved, up, cursor, dirEvent, lock, upto, paper, half, counts>>

MutLineRaises(w) ==                                \* moves the cursor all the same
  /\ todo[w] # {} /\ faults < MaxFaults
  /\ handed' = handed
  /\ cursor' = upto[w] /\ saved' = upto[w]
  /\ lock' = "free" /\ todo' = [todo EXCEPT ![w] = {}] /\ upto' = [upto EXCEPT ![w] = 0]
  /\ faults' = faults + 1
  /\ UNCHANGED <<thread, file, up, woken, dirEvent, paper, half, halves, logs, crashes, edits>>

\* on_line raises: after the send (the log line could not be appended) or before
\* it.  The cursor stays, and the next event hands the whole chunk over again.
LineRaises(w) ==
  /\ todo[w] # {} /\ faults < MaxFaults
  /\ \/ \E l \in todo[w] : FirstLine(w, l) /\ handed' = Append(handed, l[2])
     \/ handed' = handed
  /\ lock' = "free" /\ todo' = [todo EXCEPT ![w] = {}] /\ upto' = [upto EXCEPT ![w] = 0]
  /\ faults' = faults + 1
  /\ UNCHANGED <<thread, file, saved, up, cursor, woken, dirEvent, paper, half,
                 halves, logs, crashes, edits>>

ChunkDone(w) ==
  /\ upto[w] > 0 /\ todo[w] = {}
  /\ cursor' = upto[w] /\ saved' = upto[w]
  /\ lock' = "free" /\ upto' = [upto EXCEPT ![w] = 0]
  /\ UNCHANGED <<thread, file, up, woken, dirEvent, todo, paper, half, handed, counts>>

Crash ==
  /\ up /\ crashes < MaxCrashes
  /\ crashes' = crashes + 1
  /\ up' = FALSE /\ cursor' = Unseen /\ woken' = FALSE /\ dirEvent' = FALSE
  /\ lock' = "free" /\ todo' = [w \in Workers |-> {}] /\ upto' = [w \in Workers |-> 0]
  /\ UNCHANGED <<thread, file, saved, paper, half, handed, halves, logs, faults, edits>>

Driver == \/ Start \/ FileEvent \/ DirEvent
          \/ \E w \in Workers : LineDone(w) \/ ChunkDone(w)

Next == \/ MakeThread \/ LogInbound \/ Truncate \/ Crash
        \/ \E m \in Msgs : WriteLine(m) \/ WriteHead(m) \/ WriteTail(m)
        \/ \E w \in Workers : LineRaises(w)
        \/ Driver

Spec == Init /\ [][Next]_vars

\* The event loop runs the tasks, on_line returns, and a kernel that died is booted
\* again.  A PAI that began a line ends it; it need not write one.
FairSpec == Spec /\ WF_vars(Driver) /\ \A m \in Msgs : WF_vars(WriteTail(m))

-----------------------------------------------------------------------------
(* Properties.                                                             *)

\* No line is handed over before its newline is there; and while nothing fails, none
\* twice, nor before one that stands above it, whichever of the two tasks drains it.
HandedOnceInOrder ==
  /\ \A k \in DOMAIN handed, m \in Msgs : handed[k] # <<HeadOf(m)>>
  /\ faults = 0 /\ crashes = 0 =>
       \A j, k \in DOMAIN handed :
         j < k => /\ handed[j] # handed[k]
                  /\ handed[j][1][2] <= handed[k][1][2]

\* The end of m's line got to on_line (all of it, unless a log line got inside).
Reached(m) == \E k \in DOMAIN handed : TailOf(m) \in Range(handed[k])

\* The cursor passes no line that was not handed over, exceptions or not.
CursorSkipsNothing ==
  crashes = 0 /\ edits = 0 =>
    \A p \in 1..Len(file), m \in owed :
      file[p] = TailOf(m) /\ p <= cursor =>
        Reached(m)

\* Without a failure, a line the driver owes is handed over in the end.
WrittenIsHanded ==
  \A m \in Msgs :
    m \in owed ~> Reached(m) \/ faults + crashes + edits > 0

-----------------------------------------------------------------------------
(* What the repository says and the code does not keep (README, findings). *)

\* A restart drops no work in flight.
RestartDropsNothing ==
  \A m \in Msgs : m \in owed ~> Reached(m)
=============================================================================
