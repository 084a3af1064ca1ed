--------------------------- MODULE ImessageInbound --------------------------
(***************************************************************************)
(* The inbound imessage driver: a rowid cursor over chat.db, a kqueue      *)
(* watch of its write-ahead log, a catch-up at start and live drains in    *)
(* worker threads; and imessage-backfill, a process that replays days of   *)
(* chat.db into the day-files and moves the driver's cursor.               *)
(*                                                                         *)
(* A worker thread outlives the cancellation of the driver task: its drain *)
(* goes on as a ghost while a restarted driver drains on its own.          *)
(***************************************************************************)
EXTENDS Integers, FiniteSets, FiniteSetsExt

CONSTANTS LastRow,       \* bound: rowids are 1..LastRow
          DayOf,         \* the day of each row
          ReplayedDays,  \* the days imessage-backfill is asked for
          MaxMishaps     \* bound: stops, deaths, failed queries, rotations of the log
                         \* and runs of imessage-backfill, together

ASSUME ImessageAssumption == LastRow \in Nat /\ MaxMishaps \in Nat

Rows == 1..LastRow
NoCursor == -1
Idle == [pc |-> "idle", from |-> 0, rows |-> {}]

VARIABLES
  chat,            \* per row: "none", "whole", "late" (the body is still missing)
  rowCursor,       \* last_rowid in cursor.yaml
  imessageIn,      \* "up", "stopped", "dead"
  last,            \* last_rowid of run()
  watching, wal,   \* is an fd on chat.db-wal registered?  has the queue a wake-up?
  drain,           \* the drain of the running task, and that of a cancelled one
  replay,          \* imessage-backfill: where it is, and the rows it has read
  dayFiles,        \* the rows in day-files
  \* observers
  rowTold,         \* per row: the events that carried it
  seeded,          \* rows that were there at the bootstrap
  overlooked,      \* rows a drain skipped as undecodable
  jumped,          \* rows imessage-backfill moved the cursor over
  cleared,         \* rows it removed from a day-file without having read them
  interrupts, queryFaults, rotations, replays

tale    == <<rowTold, seeded, overlooked, jumped, cleared>>
tallies == <<interrupts, queryFaults, rotations, replays>>
memory  == <<imessageIn, last, watching, wal, drain>>
disk    == <<chat, rowCursor, dayFiles>>
imessageVars == <<disk, memory, replay, tale, tallies>>

CanMishap == interrupts + queryFaults + rotations + replays < MaxMishaps
Present == {r \in Rows : chat[r] # "none"}
Top(S)  == IF S = {} THEN 0 ELSE Max(S)

ImessageInit ==
  /\ chat = [r \in Rows |-> "none"]
  /\ rowCursor = NoCursor /\ dayFiles = {}
  /\ imessageIn = "dead" /\ last = 0 /\ watching = FALSE /\ wal = FALSE
  /\ drain = [w \in {"own", "ghost"} |-> Idle] /\ replay = Idle
  /\ rowTold = [r \in Rows |-> 0] /\ seeded = {} /\ overlooked = {} /\ jumped = {} /\ cleared = {}
  /\ interrupts = 0 /\ queryFaults = 0 /\ rotations = 0 /\ replays = 0

-----------------------------------------------------------------------------
(* Messages.app.  Any write to the log wakes a driver that watches it.     *)

AddRow(r, body) ==
  /\ chat[r] = "none" /\ \A q \in Rows : q < r => chat[q] # "none"
  /\ chat' = [chat EXCEPT ![r] = body]
  /\ wal' = (wal \/ watching)
  /\ UNCHANGED <<rowCursor, dayFiles, imessageIn, last, watching, drain, replay, tale, tallies>>

FillRow(r) ==
  /\ chat[r] = "late"
  /\ chat' = [chat EXCEPT ![r] = "whole"]
  /\ wal' = (wal \/ watching)
  /\ UNCHANGED <<rowCursor, dayFiles, imessageIn, last, watching, drain, replay, tale, tallies>>

\* A checkpoint removes the log; _reopen may look before there is a new one.
RotateLog ==
  /\ watching /\ CanMishap
  /\ rotations' = rotations + 1
  /\ wal' = TRUE /\ watching' \in BOOLEAN
  /\ UNCHANGED <<disk, imessageIn, last, drain, replay, tale, queryFaults, interrupts, replays>>

-----------------------------------------------------------------------------
(* The driver.                                                             *)

\* The log may be missing when the watcher looks for it.
WatchLog == watching' \in BOOLEAN /\ wal' = FALSE

SaveCursorFile(c) == rowCursor' = c

\* The first start takes what there is as known.  The watch comes before the catch-up.
StartImessage ==
  /\ imessageIn # "up"
  /\ imessageIn' = "up"
  /\ LET c == IF rowCursor = NoCursor THEN Top(Present) ELSE rowCursor IN
       /\ SaveCursorFile(c) /\ last' = c
       /\ drain' = [drain EXCEPT !["own"] = [pc |-> "query", from |-> c, rows |-> {}]]
  /\ seeded' = IF rowCursor = NoCursor THEN Present ELSE seeded
  /\ WatchLog
  /\ UNCHANGED <<chat, dayFiles, replay, rowTold, overlooked, jumped, cleared, tallies>>

\* _wait_for_live_quiet takes all wake-ups in; the drain comes afterwards.
WakeUp ==
  /\ imessageIn = "up" /\ drain["own"].pc = "idle" /\ wal
  /\ wal' = FALSE
  /\ drain' = [drain EXCEPT !["own"] = [pc |-> "query", from |-> last, rows |-> {}]]
  /\ UNCHANGED <<disk, imessageIn, last, watching, replay, tale, tallies>>

QueryRows(w) ==
  /\ drain[w].pc = "query"
  /\ drain' = [drain EXCEPT ![w].pc = "tell", ![w].rows = {r \in Present : r > drain[w].from}]
  /\ UNCHANGED <<disk, imessageIn, last, watching, wal, replay, tale, tallies>>

\* OperationalError: the drain ends as it began, and the wake-up is spent.
QueryFails(w) ==
  /\ drain[w].pc = "query" /\ CanMishap
  /\ queryFaults' = queryFaults + 1
  /\ drain' = [drain EXCEPT ![w] = Idle]
  /\ UNCHANGED <<disk, imessageIn, last, watching, wal, replay, tale, rotations, interrupts,
                 replays>>

\* Neither text nor a complete attributedBody while the row is late.
Decodable(r) == chat[r] = "whole"

\* _row_payload: a row whose body cannot be decoded is skipped.
Readable(rows) == {r \in rows : Decodable(r)}

\* One event for all of them, live or backlog; the kernel files what it carries.
TellRows(w) ==
  /\ drain[w].pc = "tell"
  /\ drain' = [drain EXCEPT ![w].pc = "save"]
  /\ LET rows == drain[w].rows IN
       /\ rowTold' = [r \in Rows |-> IF r \in Readable(rows) THEN rowTold[r] + 1 ELSE rowTold[r]]
       /\ overlooked' = overlooked \cup (rows \ Readable(rows))
       /\ dayFiles' = dayFiles \cup Readable(rows)
  /\ UNCHANGED <<chat, rowCursor, imessageIn, last, watching, wal, replay, seeded, jumped,
                 cleared, tallies>>

MutNewLast(w) == Top(Present)                      \* SELECT MAX(ROWID) once the event is out

\* Skipped rows count as well.
NewLast(w) == Max({drain[w].from} \cup drain[w].rows)

MutReturnLast2(w) ==                               \* empties the queue after the drain
  /\ last' = IF w = "own" THEN NewLast(w) ELSE last
  /\ wal' = FALSE

\* Nobody waits for a ghost's result any more.
ReturnLast(w) == last' = (IF w = "own" THEN NewLast(w) ELSE last) /\ UNCHANGED wal

SaveRowCursor(w) ==
  /\ drain[w].pc = "save"
  /\ IF NewLast(w) # drain[w].from THEN SaveCursorFile(NewLast(w)) ELSE UNCHANGED rowCursor
  /\ ReturnLast(w)
  /\ drain' = [drain EXCEPT ![w] = Idle]
  /\ UNCHANGED <<chat, dayFiles, imessageIn, watching, replay, tale, tallies>>

CancelImessage ==
  /\ imessageIn = "up" /\ CanMishap
  /\ interrupts' = interrupts + 1
  /\ imessageIn' = "stopped" /\ watching' = FALSE /\ wal' = FALSE
  /\ \/ drain["own"].pc = "idle" /\ UNCHANGED drain
     \/ /\ drain["own"].pc # "idle" /\ drain["ghost"].pc = "idle"     \* bound: one ghost
        /\ drain' = [drain EXCEPT !["own"] = Idle, !["ghost"] = drain["own"]]
  /\ UNCHANGED <<disk, last, replay, tale, queryFaults, rotations, replays>>

KernelDiesOnImessage ==
  /\ imessageIn = "up" /\ CanMishap
  /\ interrupts' = interrupts + 1
  /\ imessageIn' = "dead" /\ watching' = FALSE /\ wal' = FALSE
  /\ drain' = [w \in {"own", "ghost"} |-> Idle]
  /\ UNCHANGED <<disk, last, replay, tale, queryFaults, rotations, replays>>

-----------------------------------------------------------------------------
(* imessage-backfill of one day.  Only imessage-out has to be stopped; the *)
(* inbound driver may run all the while.                                   *)

ReadHistory(day) ==
  /\ replay.pc = "idle" /\ CanMishap
  /\ replays' = replays + 1
  /\ replay' = [pc |-> "clear", from |-> day, rows |-> {r \in Present : DayOf[r] = day}]
  /\ UNCHANGED <<disk, memory, tale, interrupts, queryFaults, rotations>>

ClearDayFiles ==
  /\ replay.pc = "clear"
  /\ LET gone == {r \in dayFiles : DayOf[r] = replay.from} IN
       /\ dayFiles' = dayFiles \ gone
       /\ cleared' = cleared \cup (gone \ replay.rows)
  /\ replay' = [replay EXCEPT !.pc = "ingest"]
  /\ UNCHANGED <<chat, rowCursor, memory, rowTold, seeded, overlooked, jumped, tallies>>

IngestHistory ==
  /\ replay.pc = "ingest"
  /\ dayFiles' = dayFiles \cup Readable(replay.rows)
  /\ overlooked' = overlooked \cup (replay.rows \ Readable(replay.rows))
  /\ replay' = [replay EXCEPT !.pc = "advance"]
  /\ UNCHANGED <<chat, rowCursor, memory, rowTold, seeded, jumped, cleared, tallies>>

\* The cursor moves over every row below the last one replayed, of whatever day.
AdvanceCursor ==
  /\ replay.pc = "advance"
  /\ LET top == Top(replay.rows) IN
       IF top > rowCursor
       THEN /\ rowCursor' = top
            /\ jumped' = jumped \cup {r \in Rows : r > rowCursor /\ r <= top}
       ELSE UNCHANGED <<rowCursor, jumped>>
  /\ replay' = Idle
  /\ UNCHANGED <<chat, dayFiles, memory, rowTold, seeded, overlooked, cleared, tallies>>

ImessageTasks ==
  \/ WakeUp
  \/ \E w \in {"own", "ghost"} : QueryRows(w) \/ TellRows(w) \/ SaveRowCursor(w)
  \/ ClearDayFiles \/ IngestHistory \/ AdvanceCursor

ImessageNext ==
  \/ ImessageTasks \/ StartImessage \/ CancelImessage \/ KernelDiesOnImessage \/ RotateLog
  \/ \E r \in Rows : AddRow(r, "whole") \/ AddRow(r, "late") \/ FillRow(r)
  \/ \E w \in {"own", "ghost"} : QueryFails(w)
  \/ \E day \in ReplayedDays : ReadHistory(day)

ImessageSpec == ImessageInit /\ [][ImessageNext]_imessageVars

\* A dead kernel is booted; a driver that was stopped may stay so.
BootImessage == imessageIn = "dead" /\ StartImessage

-----------------------------------------------------------------------------
\* Nothing is lost behind the saved cursor, whatever drains, ghosts, deaths and replays move
\* it: a row it has passed was told, was there at the bootstrap, could not be decoded when
\* it was looked at, or was passed by imessage-backfill.  What was told is in a day-file,
\* unless a replay is at it or came between.  (_drain_live, _drain_catchup, backfill.)
PassedIsTold ==
  \A r \in Present :
    /\ r <= rowCursor => rowTold[r] > 0 \/ r \in seeded \cup overlooked \cup jumped
    /\ rowTold[r] > 0 => r \in dayFiles \cup cleared \/ replay.pc = "ingest"

\* Every row is told in the end, unless it was passed in one of the ways above, the watch
\* was lost with the log, a query failed, or the driver stays stopped.
RowIsTold ==
  \A r \in Rows :
    (chat[r] = "whole") ~>
      \/ rowTold[r] > 0 \/ r \in seeded \cup overlooked \cup jumped
      \/ imessageIn = "stopped" \/ (imessageIn = "up" /\ ~watching) \/ queryFaults > 0
=============================================================================
