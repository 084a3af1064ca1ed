------------------------- MODULE EmailInboundProofs -------------------------
(***************************************************************************)
(* The safety of EmailInbound, for any rows, mails, late accounts and      *)
(* bounds: nothing is lost behind the saved cursor (CursorCoversMail) and  *)
(* a row is announced once per life of the kernel (ToldOnce).              *)
(***************************************************************************)
EXTENDS EmailInbound, TLAPS

LEMMA NoneBetween == \A a, b \in Int : ~(a < b /\ b <= a)
  OBVIOUS

USE EmailAssumption
    DEF vars, disk, drain, stale, fate, counts, Mails, Unset, NoTries, Bodies, Index, Visible,
        Larger, IsFirst, TypeOK, Filed

-----------------------------------------------------------------------------
(* Nothing is lost behind the cursor.                                      *)

\* Wherever row r's mail may be, given the parked map P.
Covered(r, P) ==
  Filed(r) \/ P[r] > 0 \/ mail[r] = "broken" \/ r \in abandoned \cup overlooked

\* Rowids are assigned in order, and the cursors have not run ahead of them.
InOrder ==
  /\ \A q, r \in Rows : q < r /\ mail[r] # "future" => mail[q] # "future"
  /\ \A r \in Rows : r <= cursor \/ r <= last \/ r <= base => mail[r] # "future"

\* The drain's phases: between drains memory and disk agree, after the parked map is
\* written they agree on it, and the saved cursor never runs ahead of the drain's.
InPhase ==
  /\ ~up => pc = "idle" /\ ~queried
  /\ cursor # Unset => announced # Unset
  /\ up => cursor # Unset /\ cursor <= last
  /\ up /\ pc \in {"idle", "begin"} => cursor = last
  /\ pc = "retry" => ~queried
  /\ pc = "rows" => queried
  /\ pc \in {"check2", "end2"} => parked = tries

\* The rows fetched are still ahead, and so is none that they leave out but late ones.
Fetched ==
  queried => \A t \in todo :
    /\ last < t /\ mail[t] # "future"
    /\ \A q \in Index : last < q /\ q < t => q \in todo \cup Late

\* The drain's map covers what its cursor has passed.
DrainCovers ==
  pc \notin {"idle", "begin"} => \A r \in Index : base < r /\ r <= last => Covered(r, tries)

NothingLost == TypeOK /\ InOrder /\ InPhase /\ Fetched /\ DrainCovers /\ CursorCoversMail

USE DEF Covered, InOrder, InPhase, Fetched, DrainCovers, CursorCoversMail

LEMMA NoTriesIsType == NoTries \in [Rows -> 0..(MaxAttempts - 1)]
<1>1. 0 \in 0..(MaxAttempts - 1)
  OBVIOUS
<1> QED
  BY <1>1

LEMMA InitLosesNothing == Init => NothingLost
<1> SUFFICES ASSUME Init PROVE NothingLost
  OBVIOUS
<1>1. TypeOK
  BY NoTriesIsType DEF Init
<1>2. InOrder /\ InPhase /\ Fetched /\ DrainCovers
  BY DEF Init
<1>3. CursorCoversMail
  BY DEF Init
<1> QED
  BY <1>1, <1>2, <1>3 DEF NothingLost

\* Mail.app, the boot and the accounts lose nothing.
LEMMA OutsideLosesNothing ==
  ASSUME NothingLost,
         \/ \E r \in Rows, state \in Bodies \cup {"partial"} : Arrive(r, state)
         \/ \E r \in Rows, state \in Bodies : Download(r, state)
         \/ \E r \in Rows : Discard(r)
         \/ Boot \/ Tick \/ RefreshAccounts \/ Crash \/ Flusher
  PROVE  NothingLost'
<1> USE DEF NothingLost
<1>1. ASSUME NEW r \in Rows, NEW state \in Bodies \cup {"partial"}, Arrive(r, state)
      PROVE  NothingLost'
  BY <1>1 DEF Arrive
<1>2. ASSUME NEW r \in Rows, NEW state \in Bodies, Download(r, state) PROVE NothingLost'
  BY <1>2 DEF Download
<1>3. ASSUME NEW r \in Rows, Discard(r) PROVE NothingLost'
  BY <1>3 DEF Discard
<1>4. CASE Boot
  <2>1. TypeOK'
    BY <1>4 DEF Boot
  <2>2. InOrder'
    BY <1>4 DEF Boot
  <2>3. (InPhase /\ Fetched /\ DrainCovers)'
    BY <1>4 DEF Boot
  <2>4. CursorCoversMail'
    <3>1. CASE cursor = Unset
      <4>1. PICK top \in {0} \cup Index : cursor' = top /\ base' = top
        BY <1>4, <3>1 DEF Boot
      <4>2. \A r \in Rows : ~(top < r /\ r <= top)
        <5> HIDE DEF NothingLost
        <5>1. top \in {0} \cup Rows /\ Rows \subseteq Nat
          OBVIOUS
        <5> QED
          BY <5>1, NoneBetween
      <4> QED
        BY <4>1, <4>2
    <3>2. CASE cursor # Unset
      BY <1>4, <3>2 DEF Boot
    <3> QED
      BY <3>1, <3>2
  <2> QED
    BY <2>1, <2>2, <2>3, <2>4
<1>5. CASE Tick
  BY <1>5 DEF Tick
<1>6. CASE RefreshAccounts
  BY <1>6 DEF RefreshAccounts
<1>7. CASE Crash
  <2>1. /\ tries' \in [Rows -> 0..(MaxAttempts - 1)] /\ crashes' \in Nat
        /\ last' = 0 /\ lastAnn' = 0 /\ bucket' = {} /\ flushing' = {} /\ todo' = {} /\ news' = {}
        /\ up' = FALSE /\ boot' = FALSE /\ queried' = FALSE /\ woken' = FALSE /\ pc' = "idle"
    BY <1>7, NoTriesIsType DEF Crash
  <2>2. UNCHANGED <<mail, known, cursor, announced, parked, spool, base, told, faults>>
    BY <1>7 DEF Crash
  <2>3. TypeOK'
    BY <2>1, <2>2
  <2>4. InOrder'
    BY <2>1, <2>2
  <2>5. (InPhase /\ Fetched /\ DrainCovers)'
    BY <2>1, <2>2
  <2>6. CursorCoversMail'
    BY <1>7, <2>2 DEF Crash
  <2> QED
    BY <2>3, <2>4, <2>5, <2>6
<1>8. CASE FlushEmit
  <2>1. told' \in [Rows -> Nat] /\ flushing' = bucket
    BY <1>8 DEF FlushEmit
  <2>2. UNCHANGED <<mail, known, disk, up, drain, bucket, woken, base, fate, counts>>
    BY <1>8 DEF FlushEmit
  <2>3. TypeOK'
    BY <2>1, <2>2
  <2>4. (InOrder /\ InPhase /\ Fetched /\ DrainCovers /\ CursorCoversMail)'
    BY <2>2
  <2> QED
    BY <2>3, <2>4
<1>9. CASE FlushReset
  <2>1. TypeOK'
    BY <1>9 DEF FlushReset
  <2>2. (InOrder /\ InPhase /\ Fetched /\ DrainCovers /\ CursorCoversMail)'
    BY <1>9 DEF FlushReset
  <2> QED
    BY <2>1, <2>2
<1> HIDE DEF NothingLost
<1> QED
  BY <1>1, <1>2, <1>3, <1>4, <1>5, <1>6, <1>7, <1>8, <1>9 DEF Flusher

\* What becomes of one row: nothing else changes, and afterwards it is covered.
LEMMA IngestCovers ==
  ASSUME TypeOK, NEW r \in Rows, IngestRow(r), mail' = mail, overlooked \subseteq overlooked'
  PROVE  /\ tries' \in [Rows -> 0..(MaxAttempts - 1)]
         /\ spool' \subseteq Mails /\ spool \subseteq spool'
         /\ news' \subseteq news \cup {r} /\ news' \subseteq Rows
         /\ lastAnn' \in Rows \cup {0}
         /\ abandoned \subseteq abandoned'
         /\ \A q \in Rows : q # r => tries'[q] = tries[q]
         /\ Covered(r, tries)'
<1>1. CASE ParkFailure(r)
  <2>1. CASE tries[r] + 1 >= MaxAttempts
    <3>1. 0 \in 0..(MaxAttempts - 1)
      OBVIOUS
    <3> QED
      BY <1>1, <2>1, <3>1 DEF ParkFailure
  <2>2. CASE ~(tries[r] + 1 >= MaxAttempts)
    <3>1. tries[r] \in 0..(MaxAttempts - 1)
      OBVIOUS
    <3>2. tries[r] + 1 \in 0..(MaxAttempts - 1) /\ tries[r] + 1 > 0
      BY <2>2, <3>1
    <3> QED
      BY <1>1, <2>2, <3>2 DEF ParkFailure
  <2> QED
    BY <2>1, <2>2
<1>2. CASE SkipRow(r)
  <2>1. 0 \in 0..(MaxAttempts - 1)
    OBVIOUS
  <2> QED
    BY <1>2, <2>1 DEF SkipRow
<1>3. CASE File(r)
  <2>1. 0 \in 0..(MaxAttempts - 1)
    OBVIOUS
  <2> QED
    BY <1>3, <2>1 DEF File
<1> QED
  BY <1>1, <1>2, <1>3 DEF IngestRow

\* The drain working on the parked rows loses nothing.
LEMMA RetryLosesNothing ==
  ASSUME NothingLost,
         \/ Wake \/ FetchParked \/ FetchParkedFails \/ RetryDone
         \/ \E r \in Rows : RetryRow(r)
  PROVE  NothingLost'
<1> USE DEF NothingLost
<1>1. CASE Wake
  BY <1>1 DEF Wake
<1>2. CASE FetchParked
  <2>1. TypeOK'
    <3>1. tries' \in [Rows -> 0..(MaxAttempts - 1)]
      BY <1>2 DEF FetchParked
    <3> QED
      BY <1>2, <3>1 DEF FetchParked
  <2>2. (InOrder /\ InPhase /\ Fetched /\ CursorCoversMail)'
    BY <1>2 DEF FetchParked
  <2>3. DrainCovers'
    BY <1>2 DEF FetchParked
  <2> QED
    BY <2>1, <2>2, <2>3
<1>3. CASE FetchParkedFails
  <2>1. TypeOK'
    <3>1. faults' \in Nat
      BY <1>3 DEF FetchParkedFails
    <3>2. /\ tries' = parked /\ todo' = {} /\ news' = {} /\ pc' = "retry" /\ queried' = FALSE
          /\ UNCHANGED <<mail, known, disk, up, boot, last, lastAnn, stale, woken, base, told,
                         crashes>>
      BY <1>3 DEF FetchParkedFails
    <3> QED
      BY <3>1, <3>2
  <2>2. (InOrder /\ InPhase /\ Fetched /\ DrainCovers /\ CursorCoversMail)'
    BY <1>3 DEF FetchParkedFails
  <2> QED
    BY <2>1, <2>2
<1>4. CASE RetryDone
  BY <1>4 DEF RetryDone
<1>5. ASSUME NEW r \in Rows, RetryRow(r) PROVE NothingLost'
  <2>1. /\ IngestRow(r) /\ mail' = mail /\ overlooked \subseteq overlooked'
        /\ todo' = todo \ {r} /\ pc = "retry"
        /\ UNCHANGED <<mail, known, cursor, announced, parked, up, pc, boot, last, queried,
                       stale, woken, base, told, overlooked, slipped, counts>>
    BY <1>5 DEF RetryRow
  <2>2. /\ tries' \in [Rows -> 0..(MaxAttempts - 1)]
        /\ spool' \subseteq Mails /\ spool \subseteq spool'
        /\ news' \subseteq Rows /\ lastAnn' \in Rows \cup {0} /\ abandoned \subseteq abandoned'
        /\ \A q \in Rows : q # r => tries'[q] = tries[q]
        /\ Covered(r, tries)'
    BY <2>1, IngestCovers
  <2>3. TypeOK'
    BY <2>1, <2>2
  <2>4. (InOrder /\ InPhase /\ Fetched)'
    BY <2>1
  <2>5. (DrainCovers /\ CursorCoversMail)'
    BY <2>1, <2>2
  <2> QED
    BY <2>3, <2>4, <2>5
<1> HIDE DEF NothingLost
<1> QED
  BY <1>1, <1>2, <1>3, <1>4, <1>5

\* The drain working on the rows past its cursor loses nothing.
LEMMA RowsLoseNothing ==
  ASSUME NothingLost,
         \/ FetchRows \/ FetchRowsFails \/ TellBacklog \/ RowsDone \/ SaveParked \/ SaveCursor
         \/ \E r \in Rows : NextRow(r) \/ Tell(r)
  PROVE  NothingLost'
<1> USE DEF NothingLost
<1>1. CASE FetchRows
  <2>1. TypeOK'
    BY <1>1 DEF FetchRows
  <2>2. (InOrder /\ InPhase /\ DrainCovers /\ CursorCoversMail)'
    BY <1>1 DEF FetchRows
  <2>3. Fetched'
    BY <1>1 DEF FetchRows
  <2> QED
    BY <2>1, <2>2, <2>3
<1>2. CASE FetchRowsFails
  BY <1>2 DEF FetchRowsFails
<1>3. CASE TellBacklog
  BY <1>3 DEF TellBacklog
<1>4. CASE RowsDone
  BY <1>4 DEF RowsDone
<1>5. CASE SaveParked
  <2>1. TypeOK'
    BY <1>5 DEF SaveParked
  <2>2. (InOrder /\ InPhase /\ Fetched /\ DrainCovers)'
    BY <1>5 DEF SaveParked
  <2>3. CursorCoversMail'
    BY <1>5 DEF SaveParked
  <2> QED
    BY <2>1, <2>2, <2>3
<1>6. CASE SaveCursor
  <2>1. TypeOK'
    BY <1>6 DEF SaveCursor
  <2>2. (InOrder /\ InPhase /\ Fetched /\ DrainCovers)'
    BY <1>6 DEF SaveCursor
  <2>3. CursorCoversMail'
    BY <1>6 DEF SaveCursor
  <2> QED
    BY <2>1, <2>2, <2>3
<1>7. ASSUME NEW r \in Rows, NextRow(r) PROVE NothingLost'
  <2>1. /\ IngestRow(r) /\ mail' = mail /\ pc = "rows" /\ pc' \in {"rows", "tell"}
        /\ IsFirst(r, todo) /\ todo' = todo \ {r} /\ last' = r
        /\ overlooked' = overlooked \cup {q \in Late : last < q /\ q < r}
        /\ UNCHANGED <<known, cursor, announced, parked, up, boot, queried, stale, woken,
                       base, told, slipped, counts>>
    BY <1>7 DEF NextRow
  <2>2. /\ tries' \in [Rows -> 0..(MaxAttempts - 1)]
        /\ spool' \subseteq Mails /\ spool \subseteq spool'
        /\ news' \subseteq Rows /\ lastAnn' \in Rows \cup {0} /\ abandoned \subseteq abandoned'
        /\ \A q \in Rows : q # r => tries'[q] = tries[q]
        /\ Covered(r, tries)'
    BY <2>1, IngestCovers
  <2>3. TypeOK'
    BY <2>1, <2>2
  <2>4. /\ queried /\ last < r /\ mail[r] # "future"
        /\ \A q \in Index : last < q /\ q < r => q \in Late
    <3>1. queried /\ last < r /\ mail[r] # "future"
      BY <2>1
    <3>2. ASSUME NEW q \in Index, last < q, q < r PROVE q \in Late
      <4>1. q \in todo \cup Late
        BY <2>1, <3>1, <3>2
      <4>2. q \notin todo
        BY <2>1, <3>2
      <4> QED
        BY <4>1, <4>2
    <3> QED
      BY <3>1, <3>2
  <2>5. (InOrder /\ InPhase)'
    BY <2>1, <2>4
  <2>6. Fetched'
    BY <2>1, <2>4
  <2>7. CursorCoversMail'
    BY <2>1, <2>2
  <2>8. DrainCovers'
    BY <2>1, <2>2, <2>4
  <2> QED
    BY <2>3, <2>5, <2>6, <2>7, <2>8
<1>8. ASSUME NEW r \in Rows, Tell(r) PROVE NothingLost'
  <2>1. TypeOK'
    <3>1. bucket' \subseteq Rows /\ bucket \subseteq bucket'
      BY <1>8 DEF Tell
    <3>2. told' = [told EXCEPT ![r] = told[r] + 1] \/ told' = told
      BY <1>8 DEF Tell
    <3>3. told' \in [Rows -> Nat]
      BY <3>2
    <3> QED
      BY <1>8, <3>1, <3>3 DEF Tell
  <2>2. (InOrder /\ InPhase /\ Fetched /\ DrainCovers /\ CursorCoversMail)'
    BY <1>8 DEF Tell
  <2> QED
    BY <2>1, <2>2
<1> HIDE DEF NothingLost
<1> QED
  BY <1>1, <1>2, <1>3, <1>4, <1>5, <1>6, <1>7, <1>8

LEMMA StepLosesNothing ==
  ASSUME NothingLost, [Next]_vars PROVE NothingLost'
<1>1. CASE Next
  BY <1>1, OutsideLosesNothing, RetryLosesNothing, RowsLoseNothing DEF Next, Drain
<1>2. CASE UNCHANGED vars
  <2> USE <1>2 DEF NothingLost
  <2>1. TypeOK'
    OBVIOUS
  <2>2. (InOrder /\ InPhase /\ Fetched)'
    OBVIOUS
  <2>3. (DrainCovers /\ CursorCoversMail)'
    OBVIOUS
  <2> QED
    BY <2>1, <2>2, <2>3
<1> QED
  BY <1>1, <1>2

LEMMA NothingIsLost == Spec => []NothingLost
  BY InitLosesNothing, StepLosesNothing, PTL DEF Spec

\* The drain, the cursor files and the parked map keep their types: no number of
\* attempts reaches MAX_PARK_ATTEMPTS, whatever the index holds.
THEOREM TypeCorrect == Spec => []TypeOK
<1>1. NothingLost => TypeOK
  BY DEF NothingLost
<1> QED
  BY <1>1, NothingIsLost, PTL

\* For any rows and bounds, a mail the saved cursor has passed is filed, parked, broken,
\* given up or of an account that was not known, wherever the kernel dies.
THEOREM NoMailBehindTheCursor == Spec => []CursorCoversMail
<1>1. NothingLost => CursorCoversMail
  BY DEF NothingLost
<1> QED
  BY <1>1, NothingIsLost, PTL

-----------------------------------------------------------------------------
(* A row is announced once per life of the kernel.                         *)

\* What has been announced, or is on its way to be, has been filed.
ToldIsFiled == \A r \in Rows : told[r] > 0 \/ r \in news \cup bucket => Filed(r)

\* What is still to be announced can be: this life has not announced it.
ToldIsOver ==
  /\ \A r \in news : told[r] <= crashes
  /\ \A r \in bucket \ flushing : told[r] <= crashes
  /\ news \cap bucket = {}

\* The catch-up comes before any other announcement of the same life.
CatchUpFirst ==
  /\ ~up \/ (boot /\ pc \in {"begin", "retry", "query", "rows"}) =>
        bucket = {} /\ \A r \in Rows : told[r] <= crashes
  /\ boot => pc \notin {"tell", "check1", "check2"}

TellsOnce == ToldOnce /\ ToldIsFiled /\ ToldIsOver /\ CatchUpFirst

USE DEF ToldOnce, ToldIsFiled, ToldIsOver, CatchUpFirst

\* A row comes to the news filed, and in a live drain for the first time.
LEMMA IngestNews ==
  ASSUME TypeOK, NEW r \in Rows, IngestRow(r)
  PROVE  /\ spool \subseteq spool'
         /\ news' \subseteq news \cup {r}
         /\ r \in news' \ news => Filed(r)' /\ (boot \/ ~Filed(r))
<1>1. CASE ParkFailure(r)
  BY <1>1 DEF ParkFailure
<1>2. CASE SkipRow(r)
  BY <1>2 DEF SkipRow
<1>3. CASE File(r)
  BY <1>3 DEF File
<1> QED
  BY <1>1, <1>2, <1>3 DEF IngestRow

\* Working on a row announces nothing, and spoils nothing of what is to be.
LEMMA RowTellsOnce ==
  ASSUME NothingLost, TellsOnce, NEW r \in Rows, IngestRow(r), pc \in {"retry", "rows"},
         UNCHANGED <<told, bucket, flushing, crashes, up, boot>>,
         boot => pc' = pc, pc' \in {"retry", "rows", "tell"}
  PROVE  TellsOnce'
<1> USE DEF TellsOnce, NothingLost
<1>1. /\ spool \subseteq spool' /\ news' \subseteq news \cup {r}
      /\ r \in news' \ news => Filed(r)' /\ (boot \/ ~Filed(r))
  BY IngestNews
<1>2. r \in news' \ news => r \notin bucket /\ told[r] <= crashes
  <2>1. CASE boot
    BY <2>1
  <2>2. CASE ~boot
    BY <1>1, <2>2
  <2> QED
    BY <2>1, <2>2
<1>3. ToldIsFiled'
  BY <1>1
<1>4. ToldIsOver'
  BY <1>1, <1>2
<1>5. (ToldOnce /\ CatchUpFirst)'
  OBVIOUS
<1> QED
  BY <1>3, <1>4, <1>5

LEMMA DrainTellsOnce ==
  ASSUME NothingLost, TellsOnce, Drain \/ FetchParkedFails \/ FetchRowsFails
  PROVE  TellsOnce'
<1> USE DEF TellsOnce, NothingLost
<1>1. CASE Wake
  BY <1>1 DEF Wake
<1>2. CASE FetchParked \/ FetchParkedFails
  <2>1. /\ pc = "begin" /\ pc' = "retry" /\ news' = {}
        /\ UNCHANGED <<told, bucket, flushing, spool, crashes, up, boot>>
    BY <1>2 DEF FetchParked, FetchParkedFails
  <2> QED
    BY <2>1
<1>3. CASE RetryDone
  BY <1>3 DEF RetryDone
<1>4. CASE FetchRows \/ FetchRowsFails
  <2>1. /\ pc = "query" /\ pc' \in {"rows", "end1"} /\ news' \subseteq news
        /\ UNCHANGED <<told, bucket, flushing, spool, crashes, up, boot>>
    BY <1>4 DEF FetchRows, FetchRowsFails
  <2> QED
    BY <2>1
<1>5. ASSUME NEW r \in Rows, RetryRow(r) PROVE TellsOnce'
  BY <1>5, RowTellsOnce DEF RetryRow
<1>6. ASSUME NEW r \in Rows, NextRow(r) PROVE TellsOnce'
  BY <1>6, RowTellsOnce DEF NextRow
<1>7. ASSUME NEW r \in Rows, Tell(r) PROVE TellsOnce'
  <2>1. /\ r \in news /\ news' = news \ {r} /\ pc = "tell" /\ pc' = "check1" /\ ~boot /\ up
        /\ UNCHANGED <<spool, up, boot, flushing, crashes>>
    BY <1>7 DEF Tell
  <2>2. CASE told' = [told EXCEPT ![r] = @ + 1] /\ bucket' = bucket
    BY <2>1, <2>2
  <2>3. CASE bucket' = bucket \cup {r} /\ told' = told
    BY <2>1, <2>3
  <2> QED
    BY <1>7, <2>2, <2>3 DEF Tell
<1>8. CASE TellBacklog
  BY <1>8 DEF TellBacklog
<1>9. CASE RowsDone
  BY <1>9 DEF RowsDone
<1>10. CASE SaveParked
  BY <1>10 DEF SaveParked
<1>11. CASE SaveCursor
  BY <1>11 DEF SaveCursor
<1> HIDE DEF TellsOnce, NothingLost
<1> QED
  BY <1>1, <1>2, <1>3, <1>4, <1>5, <1>6, <1>7, <1>8, <1>9, <1>10, <1>11 DEF Drain

LEMMA OutsideTellsOnce ==
  ASSUME NothingLost, TellsOnce,
         \/ \E r \in Rows, state \in Bodies \cup {"partial"} : Arrive(r, state)
         \/ \E r \in Rows, state \in Bodies : Download(r, state)
         \/ \E r \in Rows : Discard(r)
         \/ Boot \/ Tick \/ RefreshAccounts \/ Crash \/ Flusher
  PROVE  TellsOnce'
<1> USE DEF TellsOnce, NothingLost
<1>1. ASSUME \/ \E r \in Rows, state \in Bodies \cup {"partial"} : Arrive(r, state)
             \/ \E r \in Rows, state \in Bodies : Download(r, state)
             \/ \E r \in Rows : Discard(r)
             \/ Tick \/ RefreshAccounts
      PROVE  TellsOnce'
  <2>1. UNCHANGED <<told, news, bucket, flushing, spool, crashes, up, boot, pc>>
    BY <1>1 DEF Arrive, Download, Discard, Tick, RefreshAccounts
  <2> QED
    BY <2>1
<1>2. CASE Boot
  <2>1. /\ ~up /\ boot' = TRUE /\ pc' = "begin"
        /\ UNCHANGED <<told, news, bucket, flushing, spool, crashes>>
    BY <1>2 DEF Boot
  <2> HIDE DEF NothingLost
  <2>2. (ToldOnce /\ ToldIsFiled /\ ToldIsOver)'
    BY <2>1
  <2>3. CatchUpFirst'
    BY <2>1
  <2> QED
    BY <2>2, <2>3
<1>3. CASE Crash
  BY <1>3 DEF Crash
<1>4. CASE FlushEmit
  BY <1>4 DEF FlushEmit
<1>5. CASE FlushReset
  BY <1>5 DEF FlushReset
<1> HIDE DEF TellsOnce, NothingLost
<1> QED
  BY <1>1, <1>2, <1>3, <1>4, <1>5 DEF Flusher

LEMMA StepTellsOnce ==
  ASSUME NothingLost, TellsOnce, [Next]_vars PROVE TellsOnce'
<1>1. CASE Next
  BY <1>1, DrainTellsOnce, OutsideTellsOnce DEF Next
<1>2. CASE UNCHANGED vars
  BY <1>2 DEF TellsOnce
<1> QED
  BY <1>1, <1>2

\* For any rows and bounds, a row is announced once, and once more at most for every
\* death of the kernel: neither the bucket, nor the catch-up, nor a parked row that is
\* filed late makes two events of one row.
THEOREM RowsAreToldOnce == Spec => []ToldOnce
<1>1. Init => TellsOnce
  BY DEF Init, TellsOnce
<1>2. TellsOnce => ToldOnce
  BY DEF TellsOnce
<1> QED
  BY <1>1, <1>2, NothingIsLost, StepTellsOnce, PTL DEF Spec

=============================================================================
