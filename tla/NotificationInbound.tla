------------------------- MODULE NotificationInbound -------------------------
(***************************************************************************)
(* The notification driver: it watches the files of usernoted's store and  *)
(* drains the records past its cursor in a worker thread, which outlives   *)
(* the driver task that waits for it.                                      *)
(***************************************************************************)
EXTENDS Integers, FiniteSets, FiniteSetsExt

CONSTANTS LastRecord,      \* bound: records are numbered 1..LastRecord
          MaxNoteMishaps   \* bound: failed queries, cancellations, deaths of the kernel

ASSUME NoteAssumption == LastRecord \in Nat /\ MaxNoteMishaps \in Nat

NoteIds  == 1..LastRecord
NoNoteCursor == -1
NoDrain  == [at |-> "none"]
NoDrains == [w \in 1..2 |-> NoDrain]

VARIABLES
  noteStore,   \* record ids in the database
  added,       \* ids given out so far
  walThere,    \* the -wal file exists
  noteCursor,  \* last_cursor_id in cursor.yaml
  note,        \* driver: "dead", "watching", "catchup", "live", "draining"
  noteLast,    \* its last_cursor_id
  walWatched,  \* a descriptor of the current -wal is registered
  wakeNote,    \* the queue of the watcher is not empty
  drains,      \* worker threads: 1 that of the driver's await, 2 left by a cancelled one
  \* observers
  toldNotes,   \* records some event carried
  pastNotes,   \* records behind the cursor when it was set to "now"
  noteMishaps

noteVars == <<noteStore, added, walThere, noteCursor, note, noteLast, walWatched, wakeNote, drains,
              toldNotes, pastNotes, noteMishaps>>
noteDb == <<noteStore, added, walThere>>

NoteInit ==
  /\ noteStore = {} /\ added = 0 /\ walThere = TRUE
  /\ noteCursor = NoNoteCursor /\ note = "dead" /\ noteLast = NoNoteCursor
  /\ walWatched = FALSE /\ wakeNote = FALSE /\ drains = NoDrains
  /\ toldNotes = {} /\ pastNotes = {} /\ noteMishaps = 0

NoteMishap == noteMishaps < MaxNoteMishaps /\ noteMishaps' = noteMishaps + 1

-----------------------------------------------------------------------------
\* usernoted inserts a record, through the WAL; or the owner dismisses one.
AddRecord ==
  /\ added < LastRecord
  /\ added' = added + 1 /\ noteStore' = noteStore \cup {added + 1} /\ walThere' = TRUE
  /\ wakeNote' = (wakeNote \/ (walWatched /\ walThere))
  /\ UNCHANGED <<noteCursor, note, noteLast, walWatched, drains, toldNotes, pastNotes,
                 noteMishaps>>

Dismiss(r) ==
  /\ r \in noteStore /\ noteStore' = noteStore \ {r} /\ wakeNote' = (wakeNote \/ walWatched)
  /\ UNCHANGED <<added, walThere, noteCursor, note, noteLast, walWatched, drains, toldNotes,
                 pastNotes, noteMishaps>>

\* The WAL is rotated: the watcher wakes the driver and opens the new file, if it is
\* there by then.
RotateWal ==
  /\ walThere
  /\ walThere' \in BOOLEAN /\ walWatched' = (walWatched /\ walThere')
  /\ wakeNote' = (wakeNote \/ walWatched)
  /\ UNCHANGED <<noteStore, added, noteCursor, note, noteLast, drains, toldNotes, pastNotes,
                 noteMishaps>>

-----------------------------------------------------------------------------
\* Without a store _find_db can read, or a schema it knows, the driver gives up with an
\* event; with one it reads
\* the cursor, and without a cursor _bootstrap_cursor takes everything so far for history.
StartNotification ==
  /\ note = "dead"
  /\ IF noteCursor = NoNoteCursor
     THEN /\ noteLast' = Max({0} \cup noteStore) /\ noteCursor' = noteLast'
          /\ pastNotes' = pastNotes \cup 1..added
     ELSE noteLast' = noteCursor /\ UNCHANGED <<noteCursor, pastNotes>>
  /\ note' = "watching"
  /\ UNCHANGED <<noteDb, walWatched, wakeNote, drains, toldNotes, noteMishaps>>

\* The watcher registers the files that exist; then the catch-up drain.
WatchStore ==
  /\ note = "watching"
  /\ walWatched' = walThere /\ wakeNote' = FALSE
  /\ note' = "catchup" /\ drains' = [drains EXCEPT ![1] = [at |-> "query", last |-> noteLast]]
  /\ UNCHANGED <<noteDb, noteCursor, noteLast, toldNotes, pastNotes, noteMishaps>>

WakeDriver ==
  /\ note = "live" /\ wakeNote
  /\ wakeNote' = FALSE
  /\ note' = "draining" /\ drains' = [drains EXCEPT ![1] = [at |-> "query", last |-> noteLast]]
  /\ UNCHANGED <<noteDb, noteCursor, noteLast, walWatched, toldNotes, pastNotes, noteMishaps>>

\* _query_rows, and the payloads of what it found.
NewRows(last) == {r \in noteStore : r > last}

\* The cursor is saved before the event is out.
MutQuery(w) ==
  /\ drains[w].at = "query"
  /\ noteCursor' = Max({drains[w].last} \cup NewRows(drains[w].last))
  /\ drains' = [drains EXCEPT ![w] = [at |-> "emit", last |-> noteCursor', rows |-> NewRows(@.last)]]
  /\ UNCHANGED <<noteDb, note, noteLast, walWatched, wakeNote, toldNotes, pastNotes, noteMishaps>>

QueryRecords(w) ==
  /\ drains[w].at = "query"
  /\ drains' = [drains EXCEPT ![w] =
       [at |-> IF NewRows(@.last) = {} THEN "done" ELSE "emit",
        last |-> Max({@.last} \cup NewRows(@.last)), rows |-> NewRows(@.last)]]
  /\ UNCHANGED <<noteDb, noteCursor, note, noteLast, walWatched, wakeNote, toldNotes, pastNotes,
                 noteMishaps>>

EmitNotifications(w) ==
  /\ drains[w].at = "emit"
  /\ toldNotes' = toldNotes \cup drains[w].rows
  /\ drains' = [drains EXCEPT ![w].at = "save"]
  /\ UNCHANGED <<noteDb, noteCursor, note, noteLast, walWatched, wakeNote, pastNotes, noteMishaps>>

SaveNoteCursor(w) ==
  /\ drains[w].at = "save"
  /\ noteCursor' = drains[w].last
  /\ drains' = [drains EXCEPT ![w].at = "done"]
  /\ UNCHANGED <<noteDb, note, noteLast, walWatched, wakeNote, toldNotes, pastNotes, noteMishaps>>

\* The driver takes the result of its await.
EndDrain ==
  /\ note \in {"catchup", "draining"} /\ drains[1].at = "done"
  /\ noteLast' = drains[1].last /\ note' = "live"
  /\ drains' = [drains EXCEPT ![1] = NoDrain]
  /\ UNCHANGED <<noteDb, noteCursor, walWatched, wakeNote, toldNotes, pastNotes, noteMishaps>>

\* A failed query: the catch-up goes on to the loop, a live drain ends the driver.
NoteQueryFails ==
  /\ note \in {"catchup", "draining"} /\ drains[1].at = "query" /\ NoteMishap
  /\ note' = IF note = "catchup" THEN "live" ELSE "dead"
  /\ walWatched' = (walWatched /\ note = "catchup")
  /\ drains' = [drains EXCEPT ![1] = NoDrain]
  /\ UNCHANGED <<noteDb, noteCursor, noteLast, wakeNote, toldNotes, pastNotes>>

\* The kernel cancels the driver; a worker at work goes on by itself.
CancelNotification ==
  /\ note # "dead" /\ drains[2].at \in {"none", "done"} /\ NoteMishap
  /\ note' = "dead" /\ walWatched' = FALSE
  /\ drains' = [drains EXCEPT ![1] = NoDrain, ![2] = drains[1]]
  /\ UNCHANGED <<noteDb, noteCursor, noteLast, wakeNote, toldNotes, pastNotes>>

KernelDiesOnNotification ==
  /\ note # "dead" /\ NoteMishap
  /\ note' = "dead" /\ walWatched' = FALSE /\ drains' = NoDrains
  /\ UNCHANGED <<noteDb, noteCursor, noteLast, wakeNote, toldNotes, pastNotes>>

NoteNext ==
  \/ AddRecord \/ RotateWal \/ \E r \in NoteIds : Dismiss(r)
  \/ StartNotification \/ WatchStore \/ WakeDriver \/ EndDrain
  \/ \E w \in 1..2 : QueryRecords(w) \/ EmitNotifications(w) \/ SaveNoteCursor(w)
  \/ NoteQueryFails \/ CancelNotification \/ KernelDiesOnNotification

NoteSpec == NoteInit /\ [][NoteNext]_noteVars

-----------------------------------------------------------------------------
\* No record that is in the store is behind the cursor without an event having carried
\* it, although a worker left by a cancelled driver may set the cursor back (_drain_live,
\* _save_cursor).
CursorCoversRecords == \A r \in noteStore : r <= noteCursor => r \in toldNotes \cup pastNotes
=============================================================================
