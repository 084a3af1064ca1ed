--------------------------- MODULE CalendarInbound ---------------------------
(***************************************************************************)
(* The calendar driver: it takes a snapshot of the days ahead when         *)
(* EventKit notifies it, or at the latest after the fallback interval,     *)
(* emits the difference to the last one, and saves that.  Commands of the  *)
(* PAIs write to the same calendar when the owner lets them.               *)
(***************************************************************************)
EXTENDS Integers

CONSTANTS Uids,          \* calendar items
          Versions,      \* what an item can say, a set of positive numbers
          MaxCalEdits,   \* bound: changes of the calendar
          MaxCalFaults   \* bound: lost notifications, failures, cancellations, deaths

NoItem   == 0
CalStates  == [Uids -> Versions \cup {NoItem}]
NoItems  == [u \in Uids |-> NoItem]
NoCalState == [u \in {} |-> NoItem]

VARIABLES
  calendar,   \* the items within the horizon
  mayWrite,   \* capabilities.calendar_write is yes
  calDriver,  \* "dead", "refresh", "snapshot", "save", "idle", "settle"
  known,      \* the driver's state: the last snapshot it told
  snap,       \* the snapshot a worker thread has taken
  saved,      \* state.json
  straySave,  \* what the save of a cancelled driver has yet to write
  calNotice,  \* the queue holds a notification
  \* observers
  view,       \* the calendar as the events told it
  behind,     \* items state.json had otherwise than the events when a driver read it
  calEdits, calFaults

calVars == <<calendar, mayWrite, calDriver, known, snap, saved, straySave, calNotice, view,
             behind, calEdits, calFaults>>

CalInit ==
  /\ calendar \in CalStates /\ mayWrite \in BOOLEAN
  /\ calDriver = "dead" /\ known = NoItems /\ snap = NoCalState /\ saved = NoItems
  /\ straySave = NoCalState /\ calNotice = FALSE
  /\ view = NoItems /\ behind = {} /\ calEdits = 0 /\ calFaults = 0

CalFault == calFaults < MaxCalFaults /\ calFaults' = calFaults + 1

-----------------------------------------------------------------------------
\* An item appears, changes, or leaves; EventKit may drop the notification.
EditItem(u, v) ==
  /\ calEdits < MaxCalEdits /\ calEdits' = calEdits + 1
  /\ calendar[u] # v /\ calendar' = [calendar EXCEPT ![u] = v]
  /\ calNotice' \in {calNotice, calNotice \/ calDriver # "dead"}

ChangeCalendar ==
  /\ \E u \in Uids, v \in Versions \cup {NoItem} : EditItem(u, v)
  /\ UNCHANGED <<mayWrite, calDriver, known, snap, saved, straySave, view, behind, calFaults>>

\* write_calendar: the grant is read when the command runs.
WriteCalendar ==
  /\ mayWrite
  /\ \E u \in Uids, v \in Versions : calendar[u] = NoItem /\ EditItem(u, v)
  /\ UNCHANGED <<mayWrite, calDriver, known, snap, saved, straySave, view, behind, calFaults>>

-----------------------------------------------------------------------------
\* Access is granted, the observer is up, state.json is read; then the first refresh.
StartCalendar ==
  /\ calDriver = "dead"
  /\ calDriver' = "refresh" /\ known' = saved /\ calNotice' = FALSE
  /\ behind' = behind \cup {u \in Uids : saved[u] # view[u]}
  /\ UNCHANGED <<calendar, mayWrite, snap, saved, straySave, view, calEdits, calFaults>>

\* A notification, or the fallback interval; bursts settle, under a rate floor, and what
\* arrives meanwhile is drained.
WakeCalendar ==
  /\ calDriver = "idle" /\ calDriver' = "settle"
  /\ UNCHANGED <<calendar, mayWrite, known, snap, saved, straySave, calNotice, view, behind,
                 calEdits, calFaults>>

SettleCalendar ==
  /\ calDriver = "settle" /\ calDriver' = "refresh" /\ calNotice' = FALSE
  /\ UNCHANGED <<calendar, mayWrite, known, snap, saved, straySave, view, behind, calEdits,
                 calFaults>>

\* _ek_snapshot, in a thread.
TakeSnapshot ==
  /\ calDriver = "refresh" /\ calDriver' = "snapshot" /\ snap' = calendar
  /\ UNCHANGED <<calendar, mayWrite, known, saved, straySave, calNotice, view, behind, calEdits,
                 calFaults>>

RefreshFails ==
  /\ calDriver = "refresh" /\ CalFault /\ calDriver' = "idle"
  /\ UNCHANGED <<calendar, mayWrite, known, snap, saved, straySave, calNotice, view, behind,
                 calEdits>>

\* Only what is new or gone.
MutDiff == {u \in Uids : (known[u] = NoItem) # (snap[u] = NoItem)}

\* _diff: new, changed and removed items.
CalDiff == {u \in Uids : known[u] # snap[u]}

\* One event for the whole difference; the state is replaced in the same step.
EmitDiff ==
  /\ calDriver = "snapshot"
  /\ view' = [u \in Uids |-> IF u \in CalDiff THEN snap[u] ELSE view[u]]
  /\ behind' = behind \ CalDiff
  /\ IF CalDiff = {}
     THEN calDriver' = "idle" /\ UNCHANGED known
     ELSE calDriver' = "save" /\ known' = snap
  /\ snap' = NoCalState
  /\ UNCHANGED <<calendar, mayWrite, saved, straySave, calNotice, calEdits, calFaults>>

\* _save_state, in a thread.
SaveCalState ==
  /\ calDriver = "save"
  /\ calDriver' = "idle" /\ saved' = known
  /\ UNCHANGED <<calendar, mayWrite, known, snap, straySave, calNotice, view, behind, calEdits,
                 calFaults>>

\* The thread of a cancelled driver writes state.json when it gets to it.
WriteStraySave ==
  /\ straySave # NoCalState
  /\ saved' = straySave /\ straySave' = NoCalState
  /\ UNCHANGED <<calendar, mayWrite, calDriver, known, snap, calNotice, view, behind, calEdits,
                 calFaults>>

CancelCalendar ==
  /\ calDriver # "dead" /\ straySave = NoCalState /\ CalFault
  /\ calDriver' = "dead" /\ snap' = NoCalState
  /\ straySave' = IF calDriver = "save" THEN known ELSE NoCalState
  /\ UNCHANGED <<calendar, mayWrite, known, saved, calNotice, view, behind, calEdits>>

KernelDiesOnCalendar ==
  /\ calDriver # "dead" /\ CalFault
  /\ calDriver' = "dead" /\ snap' = NoCalState /\ straySave' = NoCalState
  /\ UNCHANGED <<calendar, mayWrite, known, saved, calNotice, view, behind, calEdits>>

CalTasks == WakeCalendar \/ SettleCalendar \/ TakeSnapshot \/ EmitDiff \/ SaveCalState \/ WriteStraySave

CalNext ==
  \/ ChangeCalendar \/ WriteCalendar \/ StartCalendar \/ CalTasks
  \/ RefreshFails \/ CancelCalendar \/ KernelDiesOnCalendar

CalSpec == CalInit /\ [][CalNext]_calVars

-----------------------------------------------------------------------------
\* Whatever notifications are lost and refreshes fail, the events of a living driver in the end
\* describe the calendar, but for items that state.json had otherwise when the driver read it (their
\* refresh was told and its save lost, or late) and that have not changed since: the fallback
\* refresh makes up for the rest (run, _refresh, _diff).
ViewCatchesUp ==
  <>[](calDriver = "dead" \/ \A u \in Uids : u \notin behind => view[u] = calendar[u])
=============================================================================
