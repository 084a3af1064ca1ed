---------------------------- MODULE InboundProofs ----------------------------
(***************************************************************************)
(* Nothing is lost behind the saved cursors of the notification driver     *)
(* (CursorCoversRecords) and of the iMessage driver (PassedIsTold), for    *)
(* any number of records and rows, any bodies, drains, ghosts and deaths.  *)
(***************************************************************************)
EXTENDS NotificationInbound, ImessageInbound, WellFoundedInduction, TLAPS

-----------------------------------------------------------------------------
(* The cursors are maxima of finite sets: such a maximum is in the set.    *)

LEMMA HasLeast == ASSUME NEW T, T \subseteq Nat, T # {} PROVE \E x \in T : \A y \in T : x <= y
<1> DEFINE R == OpToRel(<, Nat)
<1>1. IsWellFoundedOn(R, Nat)
  BY NatLessThanWellFounded
<1>2. PICK x \in T : \A y \in T : ~(<<y, x>> \in R)
  <2> HIDE DEF R
  <2> QED
    BY <1>1, WFMin
<1>3. \A a, b \in Nat : a < b => <<a, b>> \in R
  BY DEF OpToRel
<1>4. ASSUME NEW y \in T PROVE x <= y
  <2> HIDE DEF R
  <2>1. ~(<<y, x>> \in R) /\ x \in Nat /\ y \in Nat
    BY <1>2
  <2> QED
    BY <2>1, <1>3
<1> QED
  BY <1>4

LEMMA MaxIsIn ==
  ASSUME NEW n \in Nat, NEW S, S \subseteq 0..n, S # {}
  PROVE  Max(S) \in S /\ \A y \in S : y <= Max(S)
<1> DEFINE T == {n - x : x \in S}
<1>1. ASSUME NEW t \in T PROVE t \in Nat
  <2>1. PICK x \in S : t = n - x
    OBVIOUS
  <2> QED
    BY <2>1
<1>2. T # {}
  <2>1. PICK x \in S : TRUE
    OBVIOUS
  <2>2. n - x \in T
    OBVIOUS
  <2> QED
    BY <2>2
<1>3. PICK z \in T : \A y \in T : z <= y
  <2> HIDE DEF T
  <2>1. T \subseteq Nat
    BY <1>1
  <2> QED
    BY <1>2, <2>1, HasLeast
<1>4. \E x \in S : \A y \in S : x >= y
  <2>1. PICK x \in S : z = n - x
    OBVIOUS
  <2>2. ASSUME NEW y \in S PROVE x >= y
    <3>1. n - y \in T /\ x \in Int /\ y \in Int
      OBVIOUS
    <3>2. n - x <= n - y
      BY <1>3, <2>1, <3>1
    <3> QED
      BY <3>1, <3>2
  <2> QED
    BY <2>2
<1>5. \A x \in S : (\A y \in S : x >= y) => Max(S) \in S /\ \A y \in S : Max(S) >= y
  BY DEF Max
<1> QED
  BY <1>4, <1>5

-----------------------------------------------------------------------------
(* Notifications.                                                          *)

Drains == {NoDrain} \cup [at : {"query"}, last : Nat] \cup
          [at : {"emit", "save", "done"}, last : Nat, rows : SUBSET NoteIds]

NoteTypeOK ==
  /\ added \in 0..LastRecord /\ noteStore \subseteq 1..added
  /\ walThere \in BOOLEAN /\ walWatched \in BOOLEAN /\ wakeNote \in BOOLEAN
  /\ noteCursor \in Nat \cup {NoNoteCursor} /\ noteLast \in Nat \cup {NoNoteCursor}
  /\ note \in {"dead", "watching", "catchup", "live", "draining"}
  /\ drains \in [1..2 -> Drains]
  /\ toldNotes \subseteq NoteIds /\ pastNotes \subseteq NoteIds /\ noteMishaps \in Nat

\* Up to a record a cursor points at, what is in the store was carried by an event, is
\* about to be, or was there before the first start.
Carried(c, rows) ==
  c <= added /\ \A r \in noteStore : r <= c => r \in toldNotes \cup pastNotes \cup rows

\* The cursor on disk, the driver's and those of both workers.
CursorsCover ==
  /\ Carried(noteCursor, {}) /\ Carried(noteLast, {})
  /\ note # "dead" => noteLast # NoNoteCursor
  /\ \A w \in 1..2 :
       /\ drains[w].at \in {"query", "save", "done"} => Carried(drains[w].last, {})
       /\ drains[w].at = "emit" => Carried(drains[w].last, drains[w].rows)

NoteInv == NoteTypeOK /\ CursorsCover

LEMMA NewestIsIn ==
  ASSUME NoteTypeOK, NEW c \in Nat
  PROVE  Max({c} \cup NewRows(c)) \in {c} \cup NewRows(c) /\ NewRows(c) \subseteq noteStore
<1> DEFINE n == c + LastRecord
           S == {c} \cup NewRows(c)
<1>1. n \in Nat /\ NewRows(c) \subseteq noteStore /\ noteStore \subseteq 1..LastRecord
  BY NoteAssumption DEF NoteTypeOK, NewRows
<1>2. S \subseteq 0..n /\ S # {}
  <2>1. \A x \in 1..LastRecord : x \in 0..n
    BY NoteAssumption
  <2>2. c \in 0..n
    BY NoteAssumption
  <2> QED
    BY <1>1, <2>1, <2>2
<1>3. Max(S) \in S
  <2> HIDE DEF S, n
  <2> QED
    BY <1>1, <1>2, MaxIsIn
<1> QED
  BY <1>1, <1>3

LEMMA NewestAtStart ==
  ASSUME NoteTypeOK
  PROVE  Max({0} \cup noteStore) \in {0} \cup noteStore /\ Max({0} \cup noteStore) \in 0..added
<1> DEFINE S == {0} \cup noteStore
<1>1. S \subseteq 0..added /\ S # {} /\ added \in Nat
  BY NoteAssumption DEF NoteTypeOK
<1>2. Max(S) \in S
  <2> HIDE DEF S
  <2> QED
    BY <1>1, MaxIsIn
<1> QED
  BY <1>1, <1>2

LEMMA InitCovers == NoteInit => NoteInv
<1> SUFFICES ASSUME NoteInit PROVE NoteInv
  OBVIOUS
<1>1. drains \in [1..2 -> Drains] /\ \A w \in 1..2 : drains[w].at = "none"
  BY DEF NoteInit, NoDrains, NoDrain, Drains
<1>2. noteStore = {} /\ added = 0 /\ noteCursor = -1 /\ noteLast = -1 /\ note = "dead"
  BY DEF NoteInit, NoNoteCursor
<1>3. NoteTypeOK
  <2>1. 0 \in 0..LastRecord
    BY NoteAssumption
  <2> QED
    BY <1>1, <1>2, <2>1 DEF NoteInit, NoteTypeOK, NoNoteCursor
<1>4. CursorsCover
  BY <1>1, <1>2 DEF CursorsCover, Carried
<1> QED
  BY <1>3, <1>4 DEF NoteInv

\* The store moves: a new record is above every cursor, a dismissed one needs no event.
LEMMA StoreCovers ==
  ASSUME NoteInv, AddRecord \/ RotateWal \/ \E r \in NoteIds : Dismiss(r)
  PROVE  NoteInv'
<1> USE NoteAssumption DEF NoteInv, NoteTypeOK, NoteIds, noteDb, NoNoteCursor
<1>1. CASE AddRecord
  <2>1. added' = added + 1 /\ added' \in 0..LastRecord /\ noteStore' = noteStore \cup {added + 1}
    BY <1>1 DEF AddRecord
  <2>2. \A c, rows : Carried(c, rows) /\ c \in Nat \cup {-1} => Carried(c, rows)'
    BY <1>1, <2>1 DEF Carried, AddRecord
  <2>3. UNCHANGED <<noteCursor, noteLast, note, drains, toldNotes, pastNotes>>
    BY <1>1 DEF AddRecord
  <2>4. \A w \in 1..2 : drains[w].at \in {"query", "emit", "save", "done"} => drains[w].last \in Nat
    BY DEF Drains, NoDrain
  <2>5. CursorsCover'
    BY <2>2, <2>3, <2>4 DEF CursorsCover
  <2>6. NoteTypeOK'
    BY <1>1, <2>1, <2>3 DEF AddRecord
  <2> QED
    BY <2>5, <2>6
<1>2. CASE RotateWal
  BY <1>2 DEF RotateWal, CursorsCover, Carried
<1>3. ASSUME NEW r \in NoteIds, Dismiss(r) PROVE NoteInv'
  BY <1>3 DEF Dismiss, CursorsCover, Carried
<1> QED
  BY <1>1, <1>2, <1>3

\* The driver takes its cursors from one another.
LEMMA DriverCovers ==
  ASSUME NoteInv,
         \/ StartNotification \/ WatchStore \/ WakeDriver \/ EndDrain
         \/ NoteQueryFails \/ CancelNotification \/ KernelDiesOnNotification
  PROVE  NoteInv'
<1> USE NoteAssumption
    DEF NoteInv, NoteTypeOK, NoteIds, noteDb, NoNoteCursor, CursorsCover, Drains, NoDrain, NoDrains,
        NoteMishap
<1>1. CASE StartNotification
  <2>1. CASE noteCursor = NoNoteCursor
    <3>1. /\ noteLast' \in 0..added /\ noteCursor' = noteLast' /\ note' = "watching"
          /\ pastNotes' = pastNotes \cup 1..added
      BY <1>1, <2>1, NewestAtStart DEF StartNotification
    <3> QED
      BY <1>1, <3>1 DEF StartNotification, Carried
  <2>2. CASE noteCursor # NoNoteCursor
    BY <1>1, <2>2 DEF StartNotification, Carried
  <2> QED
    BY <2>1, <2>2
<1>2. CASE WatchStore
  BY <1>2 DEF WatchStore, Carried
<1>3. CASE WakeDriver
  BY <1>3 DEF WakeDriver, Carried
<1>4. CASE EndDrain
  BY <1>4 DEF EndDrain, Carried
<1>5. CASE NoteQueryFails
  BY <1>5 DEF NoteQueryFails, Carried
<1>6. CASE CancelNotification
  <2>1. /\ drains' = [drains EXCEPT ![1] = NoDrain, ![2] = drains[1]] /\ note' = "dead"
        /\ UNCHANGED <<noteDb, noteCursor, noteLast, wakeNote, toldNotes, pastNotes>>
        /\ walWatched' = FALSE /\ noteMishaps' = noteMishaps + 1
    BY <1>6 DEF CancelNotification
  <2>2. drains' \in [1..2 -> Drains] /\ drains'[1].at = "none" /\ drains'[2] = drains[1]
    BY <2>1
  <2>3. CursorsCover'
    BY <2>1, <2>2 DEF Carried
  <2>4. walWatched' \in BOOLEAN /\ note' \in {"dead"} /\ noteMishaps' \in Nat
    <3>1. walWatched' \in BOOLEAN
      BY <2>1
    <3>2. noteMishaps' \in Nat
      BY <2>1
    <3> QED
      BY <2>1, <3>1, <3>2
  <2>5. NoteTypeOK'
    BY <2>1, <2>2, <2>4
  <2> QED
    BY <2>3, <2>5
<1>7. CASE KernelDiesOnNotification
  <2>1. /\ drains' = NoDrains /\ note' = "dead" /\ walWatched' = FALSE
        /\ UNCHANGED <<noteDb, noteCursor, noteLast, wakeNote, toldNotes, pastNotes>>
        /\ noteMishaps' = noteMishaps + 1
    BY <1>7 DEF KernelDiesOnNotification
  <2>2. drains' \in [1..2 -> Drains] /\ \A w \in 1..2 : drains'[w].at = "none"
    BY <2>1
  <2>3. CursorsCover'
    BY <2>1, <2>2 DEF Carried
  <2>4. walWatched' \in BOOLEAN /\ note' \in {"dead"} /\ noteMishaps' \in Nat
    <3>1. walWatched' \in BOOLEAN
      BY <2>1
    <3>2. noteMishaps' \in Nat
      BY <2>1
    <3> QED
      BY <2>1, <3>1, <3>2
  <2>5. NoteTypeOK'
    BY <2>1, <2>2, <2>4
  <2> QED
    BY <2>3, <2>5
<1> QED
  BY <1>1, <1>2, <1>3, <1>4, <1>5, <1>6, <1>7

\* A worker, the driver's or one left behind: what it is to announce, it has read; what it
\* saves, it has announced.
LEMMA WorkerCovers ==
  ASSUME NoteInv, NEW w \in 1..2,
         QueryRecords(w) \/ EmitNotifications(w) \/ SaveNoteCursor(w)
  PROVE  NoteInv'
<1> USE NoteAssumption DEF NoteInv, NoteTypeOK, NoteIds, noteDb, NoNoteCursor, CursorsCover, Drains,
                           NoDrain
<1>1. CASE QueryRecords(w)
  <2> DEFINE c == drains[w].last
             top == Max({c} \cup NewRows(c))
  <2>1. c \in Nat /\ Carried(c, {}) /\ drains[w].at = "query"
    BY <1>1 DEF QueryRecords
  <2>2. top \in {c} \cup NewRows(c) /\ NewRows(c) \subseteq noteStore
    BY <2>1, NewestIsIn
  <2>3. top \in Nat /\ Carried(top, NewRows(c)) /\ (NewRows(c) = {} => Carried(top, {}))
    <3> HIDE DEF c, top
    <3>1. top = c \/ top \in noteStore
      BY <2>2
    <3>2. top \in Nat /\ top <= added
      <4>1. CASE top = c
        BY <2>1, <4>1 DEF Carried
      <4>2. CASE top \in noteStore
        BY <4>2
      <4> QED
        BY <3>1, <4>1, <4>2
    <3>3. \A r \in noteStore : r <= c \/ r \in NewRows(c)
      BY <2>1 DEF NewRows
    <3>4. NewRows(c) = {} => top = c
      BY <2>2
    <3> QED
      BY <2>1, <3>2, <3>3, <3>4 DEF Carried
  <2>4. /\ drains' = [drains EXCEPT ![w] =
                       [at |-> IF NewRows(c) = {} THEN "done" ELSE "emit",
                        last |-> top, rows |-> NewRows(c)]]
        /\ UNCHANGED <<noteDb, noteCursor, note, noteLast, walWatched, wakeNote, toldNotes,
                       pastNotes, noteMishaps>>
    BY <1>1 DEF QueryRecords
  <2>5. \A x, rows : Carried(x, rows)' <=> Carried(x, rows)
    BY <2>4 DEF Carried
  <2> HIDE DEF c, top
  <2>6. NewRows(c) \subseteq NoteIds
    <3>1. \A x \in 1..added : x \in NoteIds
      OBVIOUS
    <3> QED
      BY <2>2, <3>1
  <2>7. CursorsCover'
    BY <2>3, <2>4, <2>5
  <2>8. drains' \in [1..2 -> Drains]
    BY <2>3, <2>4, <2>6
  <2> QED
    BY <2>4, <2>7, <2>8
<1>2. CASE EmitNotifications(w)
  BY <1>2 DEF EmitNotifications, Carried
<1>3. CASE SaveNoteCursor(w)
  BY <1>3 DEF SaveNoteCursor, Carried
<1> QED
  BY <1>1, <1>2, <1>3

LEMMA NoteStepCovers == NoteInv /\ [NoteNext]_noteVars => NoteInv'
<1>1. ASSUME NoteInv, UNCHANGED noteVars PROVE NoteInv'
  BY <1>1 DEF NoteInv, NoteTypeOK, CursorsCover, Carried, noteVars
<1> QED
  BY <1>1, StoreCovers, DriverCovers, WorkerCovers DEF NoteNext

LEMMA NoteInvHolds == NoteSpec => []NoteInv
<1> QED
  BY InitCovers, NoteStepCovers, PTL DEF NoteSpec

\* No record that is still in the store is behind the cursor on disk without an event having
\* carried it, even when a worker of a cancelled driver sets that cursor back.
THEOREM NoRecordIsLost == NoteSpec => []CursorCoversRecords
<1>1. NoteInv => CursorCoversRecords
  BY DEF NoteInv, CursorsCover, Carried, CursorCoversRecords
<1> QED
  BY <1>1, NoteInvHolds, PTL

-----------------------------------------------------------------------------
(* iMessage.                                                               *)

Workers == {"own", "ghost"}
Phases  == {"idle", "query", "tell", "save"}

ImessageTypeOK ==
  /\ chat \in [Rows -> {"none", "whole", "late"}]
  /\ rowCursor \in {NoCursor, 0} \cup Present /\ last \in {0} \cup Present
  /\ imessageIn \in {"up", "stopped", "dead"} /\ watching \in BOOLEAN /\ wal \in BOOLEAN
  /\ drain \in [Workers -> [pc : Phases, from : {0} \cup Present, rows : SUBSET Present]]
  /\ replay \in [pc : {"idle", "clear", "ingest", "advance"}, from : {0} \cup ReplayedDays,
                 rows : SUBSET Present]
  /\ dayFiles \subseteq Rows /\ rowTold \in [Rows -> Nat]

\* Rowids are given out in order.
ChatInOrder == \A q, r \in Rows : q < r /\ chat[r] # "none" => chat[q] # "none"

\* Row r needs no event any more.
Settled(r) == rowTold[r] > 0 \/ r \in seeded \cup overlooked \cup jumped

\* The cursor on disk, the driver's and those of its drains have passed only settled rows; a
\* drain has fetched what lies between its cursor and the newest row it knows, and has told
\* it when it comes to save.
CursorsArePassed ==
  /\ \A r \in Present : r <= rowCursor \/ r <= last => Settled(r)
  /\ \A w \in Workers :
       /\ \A r \in Present : r <= drain[w].from => Settled(r)
       /\ drain[w].pc \in {"tell", "save"} =>
            \A r \in Present : drain[w].from < r /\ r \notin drain[w].rows =>
              \A q \in drain[w].rows : q < r
       /\ drain[w].pc = "save" => \A r \in drain[w].rows : Settled(r)

\* What was told could be read, and imessage-backfill puts back what it has cleared.
ToldIsFiled ==
  \A r \in Rows : rowTold[r] > 0 =>
    /\ chat[r] = "whole"
    /\ r \in dayFiles \cup cleared \/ (replay.pc = "ingest" /\ r \in replay.rows)

ImessageInv == ImessageTypeOK /\ ChatInOrder /\ CursorsArePassed /\ ToldIsFiled

LEMMA RowsAreNumbers == Rows \subseteq Nat /\ \A r \in Rows : 0 < r
  BY ImessageAssumption DEF Rows

LEMMA PresentAreRows == Present \subseteq Rows
  BY DEF Present

LEMMA CursorIsNumber == ASSUME NEW c \in {0} \cup Present PROVE c \in Nat /\ c \in {0} \cup Rows
<1>1. CASE c = 0
  BY <1>1
<1>2. CASE c \in Present
  BY <1>2, RowsAreNumbers, PresentAreRows
<1> QED
  BY <1>1, <1>2

LEMMA MaxOfRows ==
  ASSUME NEW c \in {0} \cup Rows, NEW S \in SUBSET Rows
  PROVE  Max({c} \cup S) \in {c} \cup S /\ \A y \in {c} \cup S : y <= Max({c} \cup S)
<1> DEFINE T == {c} \cup S
<1>1. LastRow \in Nat /\ T \subseteq 0..LastRow /\ T # {}
  BY ImessageAssumption DEF Rows
<1> HIDE DEF T
<1>2. Max(T) \in T /\ \A y \in T : y <= Max(T)
  BY <1>1, MaxIsIn
<1> QED
  BY <1>2 DEF T

LEMMA TopOfRows ==
  ASSUME NEW S \in SUBSET Rows
  PROVE  Top(S) \in {0} \cup S /\ \A y \in S : y <= Top(S)
<1>1. CASE S = {}
  BY <1>1 DEF Top
<1>2. CASE S # {}
  <2>1. LastRow \in Nat /\ S \subseteq 0..LastRow
    BY ImessageAssumption DEF Rows
  <2> QED
    BY <1>2, <2>1, MaxIsIn DEF Top
<1> QED
  BY <1>1, <1>2

LEMMA ImessageStarts == ImessageInit => ImessageInv
<1> SUFFICES ASSUME ImessageInit PROVE ImessageInv
  OBVIOUS
<1>1. Present = {} /\ \A w \in Workers : drain[w] = Idle
  BY DEF ImessageInit, Present, Workers
<1>2. ImessageTypeOK
  <2>1. drain \in [Workers -> [pc : Phases, from : {0} \cup Present, rows : SUBSET Present]]
    BY <1>1 DEF ImessageInit, Workers, Phases, Idle
  <2>2. replay \in [pc : {"idle", "clear", "ingest", "advance"}, from : {0} \cup ReplayedDays,
                    rows : SUBSET Present]
    BY DEF ImessageInit, Idle
  <2> QED
    BY <2>1, <2>2 DEF ImessageInit, ImessageTypeOK
<1>3. ChatInOrder /\ ToldIsFiled
  BY DEF ImessageInit, ChatInOrder, ToldIsFiled
<1>4. CursorsArePassed
  BY <1>1 DEF CursorsArePassed, Idle
<1> QED
  BY <1>2, <1>3, <1>4 DEF ImessageInv

\* A new row is above every cursor, and above every row that was there.
LEMMA NewRowIsLast ==
  ASSUME ImessageTypeOK, ChatInOrder, NEW r \in Rows, chat[r] = "none",
         NEW c \in {NoCursor, 0} \cup Present
  PROVE  c < r
<1>1. CASE c \in Present
  BY <1>1, RowsAreNumbers, PresentAreRows DEF ChatInOrder, Present
<1>2. CASE c \in {NoCursor, 0}
  BY <1>2, RowsAreNumbers DEF NoCursor
<1> QED
  BY <1>1, <1>2

LEMMA AddRowPasses ==
  ASSUME ImessageInv, NEW r \in Rows, NEW body \in {"whole", "late"}, AddRow(r, body)
  PROVE  ImessageInv'
<1> USE DEF ImessageInv
<1>1. /\ chat' = [chat EXCEPT ![r] = body] /\ chat[r] = "none"
      /\ \A q \in Rows : q < r => chat[q] # "none"
      /\ wal' = (wal \/ watching)
      /\ UNCHANGED <<rowCursor, dayFiles, imessageIn, last, watching, drain, replay, tale, tallies>>
  BY DEF AddRow
<1>2. Present' = Present \cup {r} /\ r \notin Present
  BY <1>1 DEF Present, ImessageTypeOK
<1>3. ImessageTypeOK'
  <2>1. /\ chat' \in [Rows -> {"none", "whole", "late"}]
        /\ rowCursor' \in {NoCursor, 0} \cup Present' /\ last' \in {0} \cup Present'
    BY <1>1, <1>2 DEF ImessageTypeOK
  <2>2. drain' \in [Workers -> [pc : Phases, from : {0} \cup Present', rows : SUBSET Present']]
    BY <1>1, <1>2 DEF ImessageTypeOK
  <2>3. replay' \in [pc : {"idle", "clear", "ingest", "advance"}, from : {0} \cup ReplayedDays,
                     rows : SUBSET Present']
    BY <1>1, <1>2 DEF ImessageTypeOK
  <2>4. wal' \in BOOLEAN
    BY <1>1 DEF ImessageTypeOK
  <2> QED
    BY <1>1, <2>1, <2>2, <2>3, <2>4 DEF ImessageTypeOK, tale
<1>4. ChatInOrder'
  <2> SUFFICES ASSUME NEW p \in Rows, NEW q \in Rows, p < q, chat'[q] # "none"
               PROVE  chat'[p] # "none"
    BY DEF ChatInOrder
  <2>1. CASE q = r
    BY <1>1, <2>1, RowsAreNumbers DEF ImessageTypeOK
  <2>2. CASE q # r
    BY <1>1, <2>2 DEF ChatInOrder, ImessageTypeOK
  <2> QED
    BY <2>1, <2>2
<1>5. \A s \in Rows : Settled(s) => Settled(s)'
  BY <1>1 DEF Settled, tale
<1>6. \A c \in {NoCursor, 0} \cup Present : c < r
  BY <1>1, NewRowIsLast
<1>7. CursorsArePassed'
  <2>1. ~(r <= rowCursor) /\ ~(r <= last)
    BY <1>6, RowsAreNumbers, PresentAreRows DEF ImessageTypeOK, NoCursor
  <2>2. \A s \in Present' : s <= rowCursor' \/ s <= last' => Settled(s)'
    BY <1>1, <1>2, <1>5, <2>1, PresentAreRows DEF CursorsArePassed
  <2> SUFFICES ASSUME NEW w \in Workers
               PROVE  /\ \A s \in Present' : s <= drain[w].from => Settled(s)'
                      /\ drain[w].pc \in {"tell", "save"} =>
                           \A s \in Present' : drain[w].from < s /\ s \notin drain[w].rows =>
                             \A q \in drain[w].rows : q < s
                      /\ drain[w].pc = "save" => \A s \in drain[w].rows : Settled(s)'
    BY <1>1, <2>2 DEF CursorsArePassed
  <2>3. drain[w].from \in {0} \cup Present /\ drain[w].rows \subseteq Present
    BY DEF ImessageTypeOK
  <2>4. ~(r <= drain[w].from) /\ \A q \in drain[w].rows : q < r
    <3>1. drain[w].from < r
      BY <1>6, <2>3
    <3>2. drain[w].from \in Nat /\ r \in Nat
      BY <2>3, CursorIsNumber, RowsAreNumbers
    <3>3. \A q \in drain[w].rows : q < r
      BY <1>6, <2>3
    <3> QED
      BY <3>1, <3>2, <3>3
  <2> QED
    BY <1>2, <1>5, <2>3, <2>4, PresentAreRows DEF CursorsArePassed
<1>8. ToldIsFiled'
  BY <1>1 DEF ToldIsFiled, tale, ImessageTypeOK
<1> QED
  BY <1>3, <1>4, <1>7, <1>8

LEMMA ChatPasses ==
  ASSUME ImessageInv, RotateLog \/ \E r \in Rows : FillRow(r)
  PROVE  ImessageInv'
<1> USE DEF ImessageInv
<1>1. CASE RotateLog
  <2>1. Present' = Present
    BY <1>1 DEF RotateLog, disk, Present
  <2>2. watching' \in BOOLEAN
    BY <1>1 DEF RotateLog
  <2>3. wal' \in BOOLEAN
    BY <1>1 DEF RotateLog
  <2>4. UNCHANGED <<disk, imessageIn, last, drain, replay, tale>>
    BY <1>1 DEF RotateLog
  <2>5. ImessageTypeOK'
    BY <2>1, <2>2, <2>3, <2>4 DEF ImessageTypeOK, disk, tale
  <2> QED
    BY <2>1, <2>4, <2>5 DEF ChatInOrder, CursorsArePassed, ToldIsFiled, Settled, disk, tale
<1>2. ASSUME NEW r \in Rows, FillRow(r) PROVE ImessageInv'
  <2>1. /\ chat' = [chat EXCEPT ![r] = "whole"] /\ chat[r] = "late"
        /\ wal' = (wal \/ watching)
        /\ UNCHANGED <<rowCursor, dayFiles, imessageIn, last, watching, drain, replay, tale>>
    BY <1>2 DEF FillRow
  <2>2. Present' = Present /\ chat' \in [Rows -> {"none", "whole", "late"}]
    BY <2>1 DEF Present, ImessageTypeOK
  <2>3. wal' \in BOOLEAN
    BY <2>1
  <2>4. ImessageTypeOK'
    BY <2>1, <2>2, <2>3 DEF ImessageTypeOK, tale
  <2>5. ChatInOrder'
    BY <2>1 DEF ChatInOrder, ImessageTypeOK
  <2>6. ToldIsFiled'
    BY <2>1 DEF ToldIsFiled, ImessageTypeOK, tale
  <2>7. CursorsArePassed'
    BY <2>1, <2>2 DEF CursorsArePassed, Settled, tale
  <2> QED
    BY <2>4, <2>5, <2>6, <2>7
<1> QED
  BY <1>1, <1>2

\* A start, a wake-up, a failed query and an end hand the cursors on.
LEMMA DriverPasses ==
  ASSUME ImessageInv,
         \/ StartImessage \/ WakeUp \/ CancelImessage \/ KernelDiesOnImessage
         \/ \E w \in Workers : QueryFails(w)
  PROVE  ImessageInv'
<1> USE DEF ImessageInv, Workers, Phases, Idle
<1>1. CASE StartImessage
  <2> DEFINE c == IF rowCursor = NoCursor THEN Top(Present) ELSE rowCursor
  <2>1. /\ imessageIn' = "up" /\ rowCursor' = c /\ last' = c /\ wal' = FALSE
        /\ watching' \in BOOLEAN
        /\ drain' = [drain EXCEPT !["own"] = [pc |-> "query", from |-> c, rows |-> {}]]
        /\ seeded' = IF rowCursor = NoCursor THEN Present ELSE seeded
        /\ UNCHANGED <<chat, dayFiles, replay, rowTold, overlooked, jumped, cleared>>
    BY <1>1 DEF StartImessage, WatchLog, SaveCursorFile
  <2>2. Present' = Present
    BY <2>1 DEF Present
  <2>3. c \in {0} \cup Present
    BY TopOfRows, PresentAreRows DEF ImessageTypeOK
  <2>4. \A r \in Present : (r <= c => Settled(r)') /\ (Settled(r) => Settled(r)')
    BY <2>1 DEF Settled, CursorsArePassed
  <2> HIDE DEF c
  <2>5. drain' \in [Workers -> [pc : Phases, from : {0} \cup Present, rows : SUBSET Present]]
    BY <2>1, <2>3 DEF ImessageTypeOK
  <2>6. wal' \in BOOLEAN
    BY <2>1
  <2>7. ImessageTypeOK'
    BY <2>1, <2>2, <2>3, <2>5, <2>6 DEF ImessageTypeOK
  <2>8. CursorsArePassed'
    BY <2>1, <2>2, <2>4 DEF CursorsArePassed, ImessageTypeOK
  <2> QED
    BY <2>1, <2>7, <2>8 DEF ChatInOrder, ToldIsFiled
<1>2. CASE WakeUp
  <2>1. /\ wal' = FALSE
        /\ drain' = [drain EXCEPT !["own"] = [pc |-> "query", from |-> last, rows |-> {}]]
        /\ UNCHANGED <<disk, imessageIn, last, watching, replay, tale>>
    BY <1>2 DEF WakeUp
  <2>2. Present' = Present
    BY <2>1 DEF Present, disk
  <2>3. drain' \in [Workers -> [pc : Phases, from : {0} \cup Present, rows : SUBSET Present]]
    BY <2>1 DEF ImessageTypeOK
  <2>4. wal' \in BOOLEAN
    BY <2>1
  <2>5. ImessageTypeOK'
    BY <2>1, <2>2, <2>3, <2>4 DEF ImessageTypeOK, disk, tale
  <2>6. CursorsArePassed'
    BY <2>1, <2>2 DEF CursorsArePassed, ImessageTypeOK, Settled, disk, tale
  <2> QED
    BY <2>1, <2>5, <2>6 DEF ChatInOrder, ToldIsFiled, disk, tale
<1>3. CASE CancelImessage
  <2>1. /\ imessageIn' = "stopped" /\ watching' = FALSE /\ wal' = FALSE
        /\ \/ UNCHANGED drain
           \/ drain' = [drain EXCEPT !["own"] = Idle, !["ghost"] = drain["own"]]
        /\ UNCHANGED <<disk, last, replay, tale>>
    BY <1>3 DEF CancelImessage
  <2>2. Present' = Present
    BY <2>1 DEF Present, disk
  <2>3. drain' \in [Workers -> [pc : Phases, from : {0} \cup Present, rows : SUBSET Present]]
    BY <2>1 DEF ImessageTypeOK
  <2>4. wal' \in BOOLEAN /\ watching' \in BOOLEAN
    BY <2>1
  <2>5. ImessageTypeOK'
    BY <2>1, <2>2, <2>3, <2>4 DEF ImessageTypeOK, disk, tale
  <2>6. \A r \in Present : ~(r <= 0)
    BY RowsAreNumbers, PresentAreRows
  <2>7. \A r : Settled(r)' <=> Settled(r)
    BY <2>1 DEF Settled, tale
  <2>8. CursorsArePassed'
    <3>1. CASE UNCHANGED drain
      BY <2>1, <2>2, <2>7, <3>1 DEF CursorsArePassed, disk
    <3>2. CASE drain' = [drain EXCEPT !["own"] = Idle, !["ghost"] = drain["own"]]
      <4>1. drain'["own"] = Idle /\ drain'["ghost"] = drain["own"]
        BY <3>2 DEF ImessageTypeOK
      <4> QED
        BY <2>1, <2>2, <2>6, <2>7, <4>1 DEF CursorsArePassed, disk
    <3> QED
      BY <2>1, <3>1, <3>2
  <2> QED
    BY <2>1, <2>5, <2>8 DEF ChatInOrder, ToldIsFiled, disk, tale
<1>4. CASE KernelDiesOnImessage
  <2>1. /\ imessageIn' = "dead" /\ watching' = FALSE /\ wal' = FALSE
        /\ drain' = [w \in Workers |-> Idle]
        /\ UNCHANGED <<disk, last, replay, tale>>
    BY <1>4 DEF KernelDiesOnImessage
  <2>2. Present' = Present
    BY <2>1 DEF Present, disk
  <2>3. drain' \in [Workers -> [pc : Phases, from : {0} \cup Present, rows : SUBSET Present]]
    BY <2>1
  <2>4. wal' \in BOOLEAN /\ watching' \in BOOLEAN
    BY <2>1
  <2>5. ImessageTypeOK'
    BY <2>1, <2>2, <2>3, <2>4 DEF ImessageTypeOK, disk, tale
  <2>6. \A r \in Present : ~(r <= 0)
    BY RowsAreNumbers, PresentAreRows
  <2>7. CursorsArePassed'
    BY <2>1, <2>2, <2>6 DEF CursorsArePassed, Settled, disk, tale
  <2> QED
    BY <2>1, <2>5, <2>7 DEF ChatInOrder, ToldIsFiled, disk, tale
<1>5. ASSUME NEW w \in Workers, QueryFails(w) PROVE ImessageInv'
  <2>1. /\ drain' = [drain EXCEPT ![w] = Idle]
        /\ UNCHANGED <<disk, imessageIn, last, watching, wal, replay, tale>>
    BY <1>5 DEF QueryFails
  <2>2. Present' = Present
    BY <2>1 DEF Present, disk
  <2>3. drain' \in [Workers -> [pc : Phases, from : {0} \cup Present, rows : SUBSET Present]]
    BY <2>1 DEF ImessageTypeOK
  <2>4. ImessageTypeOK'
    BY <2>1, <2>2, <2>3 DEF ImessageTypeOK, disk, tale
  <2>5. \A r \in Present : ~(r <= 0)
    BY RowsAreNumbers, PresentAreRows
  <2>6. CursorsArePassed'
    BY <2>1, <2>2, <2>5 DEF CursorsArePassed, ImessageTypeOK, Settled, disk, tale
  <2> QED
    BY <2>1, <2>4, <2>6 DEF ChatInOrder, ToldIsFiled, disk, tale
<1> QED
  BY <1>1, <1>2, <1>3, <1>4, <1>5

\* A drain moves the cursors to the newest row it knows, once it has told them all.
LEMMA DrainPasses ==
  ASSUME ImessageInv, NEW w \in Workers, QueryRows(w) \/ TellRows(w) \/ SaveRowCursor(w)
  PROVE  ImessageInv'
<1> USE DEF ImessageInv
<1> DEFINE d == drain[w]
<1>0. /\ d \in [pc : Phases, from : {0} \cup Present, rows : SUBSET Present]
      /\ d.from \in {0} \cup Rows /\ d.rows \in SUBSET Rows /\ d.from \in Nat
  <2>1. d \in [pc : Phases, from : {0} \cup Present, rows : SUBSET Present]
    BY DEF ImessageTypeOK
  <2>2. d.from \in {0} \cup Present
    BY <2>1
  <2> QED
    BY <2>1, <2>2, CursorIsNumber, PresentAreRows
<1>1. CASE QueryRows(w)
  <2>1. /\ drain' = [drain EXCEPT ![w].pc = "tell", ![w].rows = {r \in Present : r > d.from}]
        /\ UNCHANGED <<disk, imessageIn, last, watching, wal, replay, tale>>
    BY <1>1 DEF QueryRows
  <2>2. Present' = Present
    BY <2>1 DEF Present, disk
  <2>3. drain' \in [Workers -> [pc : Phases, from : {0} \cup Present, rows : SUBSET Present]]
    BY <1>0, <2>1 DEF ImessageTypeOK, Phases
  <2>4. ImessageTypeOK'
    BY <2>1, <2>2, <2>3 DEF ImessageTypeOK, disk, tale
  <2>5. drain'[w].from = d.from /\ drain'[w].pc = "tell"
        /\ \A r \in Present : d.from < r => r \in drain'[w].rows
    BY <1>0, <2>1, RowsAreNumbers, PresentAreRows DEF ImessageTypeOK
  <2>6. CursorsArePassed'
    BY <2>1, <2>2, <2>5 DEF CursorsArePassed, ImessageTypeOK, Settled, disk, tale
  <2> QED
    BY <2>1, <2>4, <2>6 DEF ChatInOrder, ToldIsFiled, disk, tale
<1>2. CASE TellRows(w)
  <2> DEFINE told == Readable(d.rows)
  <2>1. /\ drain' = [drain EXCEPT ![w].pc = "save"] /\ d.pc = "tell"
        /\ rowTold' = [r \in Rows |-> IF r \in told THEN rowTold[r] + 1 ELSE rowTold[r]]
        /\ overlooked' = overlooked \cup (d.rows \ told)
        /\ dayFiles' = dayFiles \cup told
        /\ UNCHANGED <<chat, rowCursor, imessageIn, last, watching, wal, replay, seeded, jumped,
                       cleared>>
    BY <1>2 DEF TellRows
  <2>2. told \subseteq d.rows /\ \A r \in told : chat[r] = "whole"
    BY DEF Readable, Decodable
  <2>3. Present' = Present
    BY <2>1 DEF Present
  <2>4. drain' \in [Workers -> [pc : Phases, from : {0} \cup Present, rows : SUBSET Present]]
    BY <1>0, <2>1 DEF ImessageTypeOK, Phases
  <2> HIDE DEF told
  <2>5. rowTold' \in [Rows -> Nat] /\ dayFiles' \subseteq Rows
    BY <1>0, <2>1, <2>2 DEF ImessageTypeOK
  <2>6. ImessageTypeOK'
    BY <2>1, <2>3, <2>4, <2>5 DEF ImessageTypeOK
  <2>7. /\ \A r \in Rows : Settled(r) => Settled(r)'
        /\ \A r \in d.rows : Settled(r)'
    BY <1>0, <2>1 DEF Settled, ImessageTypeOK
  <2>8. CursorsArePassed'
    <3>1. /\ drain'[w].from = d.from /\ drain'[w].rows = d.rows /\ drain'[w].pc = "save"
          /\ \A v \in Workers : v # w => drain'[v] = drain[v]
      BY <1>0, <2>1 DEF ImessageTypeOK
    <3>2. \A v \in Workers : drain[v].rows \subseteq Rows
      BY PresentAreRows DEF ImessageTypeOK
    <3> QED
      BY <2>1, <2>3, <2>7, <3>1, <3>2, PresentAreRows DEF CursorsArePassed
  <2>9. ToldIsFiled'
    BY <2>1, <2>2 DEF ToldIsFiled, ImessageTypeOK
  <2> QED
    BY <2>1, <2>6, <2>8, <2>9 DEF ChatInOrder
<1>3. CASE SaveRowCursor(w)
  <2> DEFINE top == NewLast(w)
  <2>1. top \in {d.from} \cup d.rows /\ \A y \in {d.from} \cup d.rows : y <= top
    BY <1>0, MaxOfRows DEF NewLast
  <2>2. top \in {0} \cup Present
    BY <1>0, <2>1
  <2>3. /\ d.pc = "save" /\ drain' = [drain EXCEPT ![w] = Idle]
        /\ rowCursor' \in {rowCursor, top} /\ last' \in {last, top}
        /\ UNCHANGED <<wal, chat, dayFiles, imessageIn, watching, replay, tale>>
    BY <1>3 DEF SaveRowCursor, ReturnLast, SaveCursorFile
  <2> HIDE DEF top
  <2>4. \A r \in Present : r <= top => Settled(r)
    <3> SUFFICES ASSUME NEW r \in Present, r <= top PROVE Settled(r)
      OBVIOUS
    <3>1. CASE r <= d.from
      BY <3>1 DEF CursorsArePassed
    <3>2. CASE r \in d.rows
      BY <2>3, <3>2 DEF CursorsArePassed
    <3>3. CASE d.from < r /\ r \notin d.rows
      <4>1. \A q \in d.rows : q < r
        BY <2>3, <3>3 DEF CursorsArePassed
      <4>2. top < r
        BY <2>1, <3>3, <4>1
      <4>3. top \in Nat /\ r \in Nat
        BY <2>2, CursorIsNumber
      <4> QED
        BY <4>2, <4>3
    <3>4. r \in Nat /\ d.from \in Nat
      BY <1>0, CursorIsNumber
    <3> QED
      BY <3>1, <3>2, <3>3, <3>4
  <2>5. Present' = Present /\ \A r : Settled(r)' <=> Settled(r)
    BY <2>3 DEF Present, Settled, tale
  <2>6. drain' \in [Workers -> [pc : Phases, from : {0} \cup Present, rows : SUBSET Present]]
    BY <2>3 DEF ImessageTypeOK, Idle, Phases
  <2>7. ImessageTypeOK'
    BY <2>2, <2>3, <2>5, <2>6 DEF ImessageTypeOK, tale
  <2>8. \A r \in Present : ~(r <= 0)
    BY RowsAreNumbers, PresentAreRows
  <2>9. CursorsArePassed'
    BY <2>3, <2>4, <2>5, <2>8 DEF CursorsArePassed, ImessageTypeOK, Idle
  <2> QED
    BY <2>3, <2>7, <2>9 DEF ChatInOrder, ToldIsFiled, tale
<1> QED
  BY <1>1, <1>2, <1>3

\* imessage-backfill: what it has cleared and read it files again.
LEMMA ReplayPasses ==
  ASSUME ImessageInv,
         \/ \E day \in ReplayedDays : ReadHistory(day)
         \/ ClearDayFiles \/ IngestHistory \/ AdvanceCursor
  PROVE  ImessageInv'
<1> USE DEF ImessageInv
<1>1. ASSUME NEW day \in ReplayedDays, ReadHistory(day) PROVE ImessageInv'
  <2>1. /\ replay.pc = "idle"
        /\ replay' = [pc |-> "clear", from |-> day, rows |-> {r \in Present : DayOf[r] = day}]
        /\ UNCHANGED <<disk, memory, tale>>
    BY <1>1 DEF ReadHistory
  <2>2. Present' = Present
    BY <2>1 DEF Present, disk
  <2>3. ImessageTypeOK'
    BY <2>1, <2>2 DEF ImessageTypeOK, disk, memory, tale
  <2> QED
    BY <2>1, <2>2, <2>3 DEF ChatInOrder, CursorsArePassed, Settled, ToldIsFiled, disk, memory, tale
<1>2. CASE ClearDayFiles
  <2> DEFINE gone == {r \in dayFiles : DayOf[r] = replay.from}
  <2>1. /\ replay' = [replay EXCEPT !.pc = "ingest"] /\ dayFiles' = dayFiles \ gone
        /\ cleared' = cleared \cup (gone \ replay.rows) /\ replay.pc = "clear"
        /\ UNCHANGED <<chat, rowCursor, memory, rowTold, seeded, overlooked, jumped>>
    BY <1>2 DEF ClearDayFiles
  <2>2. Present' = Present
    BY <2>1 DEF Present
  <2> HIDE DEF gone
  <2>3. ImessageTypeOK'
    BY <2>1, <2>2 DEF ImessageTypeOK, memory
  <2>4. ToldIsFiled'
    BY <2>1 DEF ToldIsFiled, ImessageTypeOK
  <2> QED
    BY <2>1, <2>2, <2>3, <2>4 DEF ChatInOrder, CursorsArePassed, Settled, memory
<1>3. CASE IngestHistory
  <2>1. /\ replay' = [replay EXCEPT !.pc = "advance"] /\ replay.pc = "ingest"
        /\ dayFiles' = dayFiles \cup Readable(replay.rows)
        /\ overlooked' = overlooked \cup (replay.rows \ Readable(replay.rows))
        /\ UNCHANGED <<chat, rowCursor, memory, rowTold, seeded, jumped, cleared>>
    BY <1>3 DEF IngestHistory
  <2>2. Present' = Present /\ \A r \in replay.rows : chat[r] = "whole" => r \in Readable(replay.rows)
    BY <2>1 DEF Present, Readable, Decodable
  <2>3. Readable(replay.rows) \subseteq Rows
    BY PresentAreRows DEF Readable, ImessageTypeOK
  <2>4. ImessageTypeOK'
    BY <2>1, <2>2, <2>3 DEF ImessageTypeOK, memory
  <2>5. ToldIsFiled'
    BY <2>1, <2>2 DEF ToldIsFiled, ImessageTypeOK
  <2>6. CursorsArePassed'
    BY <2>1, <2>2 DEF CursorsArePassed, Settled, memory
  <2> QED
    BY <2>1, <2>4, <2>5, <2>6 DEF ChatInOrder, memory
<1>4. CASE AdvanceCursor
  <2> DEFINE top == Top(replay.rows)
  <2>1. /\ IF top > rowCursor
           THEN /\ rowCursor' = top
                /\ jumped' = jumped \cup {r \in Rows : r > rowCursor /\ r <= top}
           ELSE UNCHANGED <<rowCursor, jumped>>
        /\ replay' = Idle /\ replay.pc = "advance"
        /\ UNCHANGED <<chat, dayFiles, memory, rowTold, seeded, overlooked, cleared>>
    BY <1>4 DEF AdvanceCursor
  <2>2. top \in {0} \cup Present
    <3>1. replay.rows \in SUBSET Rows /\ replay.rows \subseteq Present
      BY PresentAreRows DEF ImessageTypeOK
    <3> QED
      BY <3>1, TopOfRows
  <2> HIDE DEF top
  <2>3. Present' = Present /\ replay' \in [pc : {"idle"}, from : {0}, rows : {{}}]
    BY <2>1 DEF Present, Idle
  <2>4. ImessageTypeOK'
    BY <2>1, <2>2, <2>3 DEF ImessageTypeOK, memory
  <2>5. \A r \in Rows : Settled(r) => Settled(r)'
    BY <2>1 DEF Settled
  <2>6. \A r \in Present : r <= rowCursor' => Settled(r)'
    <3> SUFFICES ASSUME NEW r \in Present, r <= rowCursor' PROVE Settled(r)'
      OBVIOUS
    <3>1. CASE r <= rowCursor
      BY <2>5, <3>1, PresentAreRows DEF CursorsArePassed
    <3>2. CASE ~(r <= rowCursor)
      <4>1. rowCursor \in Int /\ r \in Int
        BY RowsAreNumbers, PresentAreRows DEF ImessageTypeOK, NoCursor
      <4>2. r \in jumped'
        BY <2>1, <3>2, <4>1, PresentAreRows
      <4> QED
        BY <4>2 DEF Settled
    <3> QED
      BY <3>1, <3>2
  <2>7. CursorsArePassed'
    BY <2>1, <2>3, <2>5, <2>6, PresentAreRows DEF CursorsArePassed, ImessageTypeOK, memory
  <2> QED
    BY <2>1, <2>4, <2>7 DEF ChatInOrder, ToldIsFiled, memory
<1> QED
  BY <1>1, <1>2, <1>3, <1>4

LEMMA ImessageStepPasses == ImessageInv /\ [ImessageNext]_imessageVars => ImessageInv'
<1>1. ASSUME ImessageInv, UNCHANGED imessageVars PROVE ImessageInv'
  <2>1. UNCHANGED <<disk, memory, replay, tale>> /\ Present' = Present
    BY <1>1 DEF imessageVars, disk, Present
  <2> QED
    BY <1>1, <2>1 DEF ImessageInv, ImessageTypeOK, ChatInOrder, CursorsArePassed, Settled,
                      ToldIsFiled, disk, memory, tale
<1> QED
  BY <1>1, AddRowPasses, ChatPasses, DriverPasses, DrainPasses, ReplayPasses
     DEF ImessageNext, ImessageTasks, Workers

LEMMA ImessageInvHolds == ImessageSpec => []ImessageInv
<1> QED
  BY ImessageStarts, ImessageStepPasses, PTL DEF ImessageSpec

\* The cursors of the iMessage driver, on disk, in memory and of each drain, point at rows
\* that exist, or at nothing yet.
THEOREM ImessageTypeCorrect == ImessageSpec => []ImessageTypeOK
<1>1. ImessageInv => ImessageTypeOK
  BY DEF ImessageInv
<1> QED
  BY <1>1, ImessageInvHolds, PTL

\* A row behind the saved cursor was told, was there at the bootstrap, could not be decoded,
\* or was passed by imessage-backfill, and what was told is in a day-file, through any
\* interleaving of drains, ghosts, deaths and replays.
THEOREM NoRowIsLost == ImessageSpec => []PassedIsTold
<1>1. ImessageInv => PassedIsTold
  BY PresentAreRows DEF ImessageInv, CursorsArePassed, Settled, ToldIsFiled, PassedIsTold
<1> QED
  BY <1>1, ImessageInvHolds, PTL
=============================================================================
