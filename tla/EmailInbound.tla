---------------------------- MODULE EmailInbound ----------------------------
(***************************************************************************)
(* The inbound email driver: it follows Mail.app's Envelope Index with a   *)
(* rowid cursor, files every mail as a yaml and announces it to the PAIs.  *)
(* A row whose body Mail has not downloaded yet is parked and tried again. *)
(* At boot one catch-up drain coalesces what came meanwhile into a single  *)
(* event; later drains announce row by row, or put old mail in a bucket    *)
(* that the flusher announces when it is quiet.                            *)
(*                                                                         *)
(* One drain runs at a time, in a worker thread; Mail, the event loop's    *)
(* flusher and the death of the kernel interleave with each of its writes. *)
(***************************************************************************)
EXTENDS Integers, FiniteSets

CONSTANTS Rows,        \* rowids of the index, in the order Mail assigns them
          MailOf,      \* the mail (Message-ID) of each: one mail may have two rows
          Late,        \* rows of an account that discovery finds only later
          MaxAttempts, \* MAX_PARK_ATTEMPTS
          MaxGone,     \* bound: rows Mail discards
          MaxFaults,   \* bound: queries that fail
          MaxCrashes   \* bound: kernel deaths

ASSUME EmailAssumption ==
  /\ Rows \subseteq Nat \ {0}
  /\ DOMAIN MailOf = Rows
  /\ Late \subseteq Rows
  /\ MaxAttempts \in Nat \ {0} /\ {MaxGone, MaxFaults, MaxCrashes} \subseteq Nat

Mails == {MailOf[r] : r \in Rows}
Unset == -1                           \* there is no cursor.yaml yet

VARIABLES
  mail,              \* per row: "future"; its body "partial", "full" or "broken"; "gone"
  known,             \* does the account list have the late account?
  cursor, announced, \* cursor.yaml: last_rowid, last_announced_rowid
  parked,            \* parked.yaml: the attempts of each parked row, else 0
  spool,             \* the mails filed as yaml
  up, pc, boot,      \* where the drain stands; is it the catch-up?
  last, lastAnn,     \* its last_rowid (with max_processed) and last_announced
  tries,             \* its copy of the parked map
  todo, queried,     \* rows it has fetched; are they the rows past the cursor?
  news,              \* rows it has filed and not announced yet
  bucket, flushing,  \* the stale bucket, and what the flusher has announced of it
  woken              \* is there something in the queue?

VARIABLES            \* observers
  base,              \* the cursor the first boot started from
  told,              \* how many events have announced each row
  abandoned,         \* rows given up: too many attempts, or discarded by Mail
  overlooked,        \* rows the cursor passed while their account was unknown
  delayed,           \* rows that were parked
  slipped,           \* rows that got out of the bucket unannounced
  faults, crashes

disk   == <<cursor, announced, parked, spool>>
drain  == <<pc, boot, last, lastAnn, tries, todo, queried, news>>
stale  == <<bucket, flushing>>
fate   == <<abandoned, overlooked, delayed>>
counts == <<faults, crashes>>
vars   == <<mail, known, disk, up, drain, stale, woken, base, told, fate, slipped, counts>>

NoTries == [r \in Rows |-> 0]

Larger(a, b) == IF a > b THEN a ELSE b

\* Rows are worked on in rowid order.
IsFirst(r, S) == r \in S /\ \A q \in S : r <= q

Init ==
  /\ mail = [r \in Rows |-> "future"] /\ known = FALSE
  /\ cursor = Unset /\ announced = Unset /\ parked = NoTries /\ spool = {}
  /\ up = FALSE /\ pc = "idle" /\ boot = FALSE /\ last = 0 /\ lastAnn = 0
  /\ tries = NoTries /\ todo = {} /\ queried = FALSE /\ news = {}
  /\ bucket = {} /\ flushing = {} /\ woken = FALSE
  /\ base = 0 /\ told = [r \in Rows |-> 0]
  /\ abandoned = {} /\ overlooked = {} /\ delayed = {} /\ slipped = {}
  /\ faults = 0 /\ crashes = 0

Bodies  == {"full", "broken"}                     \* "broken" does not parse
Index   == {r \in Rows : mail[r] \in Bodies \cup {"partial"}}
Visible == {r \in Index : r \in Late => known}    \* what a query can match

-----------------------------------------------------------------------------
(* Mail.app.                                                               *)

Arrive(r, state) ==
  /\ mail[r] = "future" /\ state \in Bodies \cup {"partial"}
  /\ \A q \in Rows : q < r => mail[q] # "future"
  /\ mail' = [mail EXCEPT ![r] = state]
  /\ woken' = (woken \/ up)
  /\ UNCHANGED <<known, disk, up, drain, stale, base, told, fate, slipped, counts>>

\* The body is on disk; the WAL, which is what is watched, need not be touched.
Download(r, state) ==
  /\ mail[r] = "partial" /\ state \in Bodies
  /\ mail' = [mail EXCEPT ![r] = state]
  /\ UNCHANGED <<known, disk, up, drain, stale, woken, base, told, fate, slipped, counts>>

Discard(r) ==
  /\ r \in Index /\ Cardinality({q \in Rows : mail[q] = "gone"}) < MaxGone
  /\ mail' = [mail EXCEPT ![r] = "gone"]
  /\ woken' = (woken \/ up)
  /\ UNCHANGED <<known, disk, up, drain, stale, base, told, fate, slipped, counts>>

-----------------------------------------------------------------------------
(* Boot, ticks, the accounts.                                              *)

\* The first boot puts the cursor at the end of the index.
Boot ==
  /\ ~up
  /\ up' = TRUE
  /\ IF cursor = Unset
       THEN \E top \in {0} \cup Index :
              /\ \A r \in Index : r <= top
              /\ cursor' = top /\ announced' = top
              /\ last' = top /\ lastAnn' = top /\ base' = top
       ELSE /\ last' = cursor /\ lastAnn' = announced
            /\ UNCHANGED <<cursor, announced, base>>
  /\ pc' = "begin" /\ boot' = TRUE
  /\ UNCHANGED <<mail, known, parked, spool, tries, todo, queried, news, stale, woken,
                 told, fate, slipped, counts>>

\* Every minute, whatever Mail does.
Tick ==
  /\ up /\ woken' = TRUE
  /\ UNCHANGED <<mail, known, disk, up, drain, stale, base, told, fate, slipped, counts>>

\* The refresh of the account list, awaited at boot and, hourly, between two drains.
RefreshAccounts ==
  /\ pc = "idle" /\ known' = TRUE
  /\ UNCHANGED <<mail, disk, up, drain, stale, woken, base, told, fate, slipped, counts>>

-----------------------------------------------------------------------------
(* A drain.                                                                *)

Wake ==
  /\ up /\ pc = "idle" /\ woken
  /\ woken' = FALSE
  /\ pc' = "begin" /\ boot' = FALSE
  /\ UNCHANGED <<mail, known, disk, up, last, lastAnn, tries, todo, queried, news, stale,
                 base, told, fate, slipped, counts>>

\* The parked rows are looked up; those Mail discarded are dropped.
FetchParked ==
  LET held == {r \in Rows : parked[r] > 0}
  IN  /\ pc = "begin"
      /\ pc' = "retry" /\ queried' = FALSE /\ news' = {}
      /\ todo' = held \cap Visible
      /\ tries' = [r \in Rows |-> IF r \in Visible THEN parked[r] ELSE 0]
      /\ abandoned' = abandoned \cup (held \ Visible)
      /\ UNCHANGED <<mail, known, disk, up, boot, last, lastAnn, stale, woken, base, told,
                     overlooked, delayed, slipped, counts>>

\* The index cannot be read: the parked rows are left for the next time.
FetchParkedFails ==
  /\ pc = "begin" /\ faults < MaxFaults
  /\ pc' = "retry" /\ queried' = FALSE /\ news' = {}
  /\ todo' = {} /\ tries' = parked
  /\ faults' = faults + 1
  /\ UNCHANGED <<mail, known, disk, up, boot, last, lastAnn, stale, woken, base, told, fate,
                 slipped, crashes>>

\* The body is not there (any more): one attempt more, or given up.
ParkFailure(r) ==
  /\ mail[r] \notin Bodies
  /\ delayed' = delayed \cup {r}
  /\ IF tries[r] + 1 >= MaxAttempts
       THEN /\ tries' = [tries EXCEPT ![r] = 0]
            /\ abandoned' = abandoned \cup {r}
       ELSE /\ tries' = [tries EXCEPT ![r] = @ + 1]
            /\ UNCHANGED abandoned
  /\ UNCHANGED <<spool, news, lastAnn>>

SkipRow(r) ==
  /\ mail[r] = "broken"
  /\ tries' = [tries EXCEPT ![r] = 0]
  /\ UNCHANGED <<spool, news, lastAnn, abandoned, delayed>>

MutFile(r) ==                                      \* the catch-up, too, goes by `created`
  /\ mail[r] = "full"
  /\ tries' = [tries EXCEPT ![r] = 0]
  /\ spool' = spool \cup {MailOf[r]}
  /\ news' = IF MailOf[r] \notin spool THEN news \cup {r} ELSE news
  /\ lastAnn' = IF boot /\ queried THEN Larger(lastAnn, r) ELSE lastAnn
  /\ UNCHANGED <<abandoned, delayed>>

\* The yaml is written unless the mail has one.  The catch-up announces by rowid,
\* the live drain whatever it created.
File(r) ==
  /\ mail[r] = "full"
  /\ tries' = [tries EXCEPT ![r] = 0]
  /\ spool' = spool \cup {MailOf[r]}
  /\ news' = IF (IF boot THEN r > lastAnn ELSE MailOf[r] \notin spool) THEN news \cup {r}
                                                                      ELSE news
  /\ lastAnn' = IF boot /\ queried THEN Larger(lastAnn, r) ELSE lastAnn
  /\ UNCHANGED <<abandoned, delayed>>

IngestRow(r) == ParkFailure(r) \/ SkipRow(r) \/ File(r)

RetryRow(r) ==
  /\ pc = "retry" /\ IsFirst(r, todo)
  /\ todo' = todo \ {r}
  /\ IngestRow(r)
  /\ UNCHANGED <<mail, known, cursor, announced, parked, up, pc, boot, last, queried, stale,
                 woken, base, told, overlooked, slipped, counts>>

RetryDone ==
  /\ pc = "retry" /\ todo = {}
  /\ pc' = IF ~boot /\ news # {} THEN "tell" ELSE "query"
  /\ UNCHANGED <<mail, known, disk, up, boot, last, lastAnn, tries, todo, queried, news,
                 stale, woken, base, told, fate, slipped, counts>>

MutFetchRows ==                                    \* `>=` a cursor it has not reached
  /\ pc = "query"
  /\ pc' = "rows" /\ queried' = TRUE
  /\ todo' = {r \in Visible : r > last + 1}
  /\ UNCHANGED <<mail, known, disk, up, boot, last, lastAnn, tries, news, stale, woken,
                 base, told, fate, slipped, counts>>

\* The rows past the cursor, of the accounts the driver knows.
FetchRows ==
  /\ pc = "query"
  /\ pc' = "rows" /\ queried' = TRUE
  /\ todo' = {r \in Visible : r > last}
  /\ UNCHANGED <<mail, known, disk, up, boot, last, lastAnn, tries, news, stale, woken,
                 base, told, fate, slipped, counts>>

\* The index cannot be read: what the catch-up was to announce is dropped.
FetchRowsFails ==
  /\ pc = "query" /\ faults < MaxFaults
  /\ pc' = "end1" /\ news' = {}
  /\ faults' = faults + 1
  /\ UNCHANGED <<mail, known, disk, up, boot, last, lastAnn, tries, todo, queried, stale,
                 woken, base, told, fate, slipped, crashes>>

\* The next row; what a live drain files it announces at once.
NextRow(r) ==
  /\ pc = "rows" /\ IsFirst(r, todo)
  /\ todo' = todo \ {r}
  /\ IngestRow(r)
  /\ last' = r
  /\ overlooked' = overlooked \cup {q \in Late : last < q /\ q < r}
  /\ pc' = IF ~boot /\ news' # {} THEN "tell" ELSE "rows"
  /\ UNCHANGED <<mail, known, cursor, announced, parked, up, boot, queried, stale, woken,
                 base, told, slipped, counts>>

\* A live drain announces a mail, or buckets it if it is older than the boot.
Tell(r) ==
  /\ pc = "tell" /\ IsFirst(r, news)
  /\ news' = news \ {r}
  /\ lastAnn' = Larger(lastAnn, r)
  /\ pc' = "check1"
  /\ \/ told' = [told EXCEPT ![r] = @ + 1] /\ UNCHANGED bucket
     \/ bucket' = bucket \cup {r} /\ UNCHANGED told
  /\ UNCHANGED <<mail, known, disk, up, boot, last, tries, todo, queried, flushing, woken,
                 base, fate, slipped, counts>>

\* One event for all that came while the driver was down.
TellBacklog ==
  /\ pc = "rows" /\ todo = {} /\ news # {}
  /\ told' = [r \in Rows |-> IF r \in news THEN told[r] + 1 ELSE told[r]]
  /\ news' = {}
  /\ pc' = "end1"
  /\ UNCHANGED <<mail, known, disk, up, boot, last, lastAnn, tries, todo, queried, stale,
                 woken, base, fate, slipped, counts>>

RowsDone ==
  /\ pc = "rows" /\ todo = {} /\ news = {}
  /\ pc' = "end1"
  /\ UNCHANGED <<mail, known, disk, up, boot, last, lastAnn, tries, todo, queried, news, stale,
                 woken, base, told, fate, slipped, counts>>

MutSaveParked ==                                   \* only at the end of a drain
  /\ pc \in {"check1", "end1"}
  /\ parked' = IF pc = "end1" THEN tries ELSE parked
  /\ pc' = IF pc = "check1" THEN "check2" ELSE "end2"
  /\ UNCHANGED <<mail, known, cursor, announced, spool, up, boot, last, lastAnn, tries, todo,
                 queried, news, stale, woken, base, told, fate, slipped, counts>>

\* _checkpoint after each announcement and the saves at the end: parked map first ...
SaveParked ==
  /\ pc \in {"check1", "end1"}
  /\ parked' = tries
  /\ pc' = IF pc = "check1" THEN "check2" ELSE "end2"
  /\ UNCHANGED <<mail, known, cursor, announced, spool, up, boot, last, lastAnn, tries, todo,
                 queried, news, stale, woken, base, told, fate, slipped, counts>>

\* ... then the cursor.
SaveCursor ==
  /\ pc \in {"check2", "end2"}
  /\ cursor' = last /\ announced' = lastAnn
  /\ pc' = CASE pc = "end2" -> "idle"
             [] pc = "check2" /\ news # {} -> "tell"
             [] pc = "check2" /\ news = {} -> IF queried THEN "rows" ELSE "query"
  /\ UNCHANGED <<mail, known, parked, spool, up, boot, last, lastAnn, tries, todo, queried,
                 news, stale, woken, base, told, fate, slipped, counts>>

-----------------------------------------------------------------------------
(* The flusher, on the event loop.                                         *)

FlushEmit ==
  /\ up /\ bucket # {} /\ flushing = {}
  /\ flushing' = bucket
  /\ told' = [r \in Rows |-> IF r \in bucket THEN told[r] + 1 ELSE told[r]]
  /\ UNCHANGED <<mail, known, disk, up, drain, bucket, woken, base, fate, slipped, counts>>

MutFlushReset ==                                   \* keeps the bucket
  /\ flushing # {}
  /\ flushing' = {}
  /\ UNCHANGED <<mail, known, disk, up, drain, bucket, woken, base, told, fate, slipped,
                 counts>>

\* The bucket is emptied, with what the worker put in meanwhile.
FlushReset ==
  /\ flushing # {}
  /\ slipped' = slipped \cup (bucket \ flushing)
  /\ bucket' = {} /\ flushing' = {}
  /\ UNCHANGED <<mail, known, disk, up, drain, woken, base, told, fate, counts>>

Crash ==
  /\ up /\ crashes < MaxCrashes
  /\ crashes' = crashes + 1
  /\ slipped' = slipped \cup (bucket \ flushing)
  /\ up' = FALSE /\ pc' = "idle" /\ boot' = FALSE /\ last' = 0 /\ lastAnn' = 0
  /\ tries' = NoTries /\ todo' = {} /\ queried' = FALSE /\ news' = {}
  /\ bucket' = {} /\ flushing' = {} /\ woken' = FALSE
  /\ UNCHANGED <<mail, known, disk, base, told, fate, faults>>

Drain == \/ Wake \/ FetchParked \/ RetryDone \/ FetchRows
         \/ \E r \in Rows : RetryRow(r) \/ NextRow(r) \/ Tell(r)
         \/ TellBacklog \/ RowsDone \/ SaveParked \/ SaveCursor

Flusher == FlushEmit \/ FlushReset

Next == \/ \E r \in Rows, state \in Bodies \cup {"partial"} : Arrive(r, state)
        \/ \E r \in Rows, state \in Bodies : Download(r, state)
        \/ \E r \in Rows : Discard(r)
        \/ Boot \/ Tick \/ RefreshAccounts \/ Crash
        \/ Drain \/ FetchParkedFails \/ FetchRowsFails
        \/ Flusher

Spec == Init /\ [][Next]_vars

\* The worker and the loop run, the ticker ticks, and a dead kernel is booted.
FairSpec == Spec /\ WF_vars(Boot) /\ WF_vars(Tick) /\ WF_vars(Drain) /\ WF_vars(Flusher)

-----------------------------------------------------------------------------
(* Properties.                                                             *)

\* The cursor and the parked map hold what the next boot can use.
TypeOK ==
  /\ mail \in [Rows -> Bodies \cup {"future", "partial", "gone"}] /\ known \in BOOLEAN
  /\ cursor \in Rows \cup {0, Unset} /\ announced \in Rows \cup {0, Unset}
  /\ parked \in [Rows -> 0..(MaxAttempts - 1)] /\ tries \in [Rows -> 0..(MaxAttempts - 1)]
  /\ spool \subseteq Mails
  /\ up \in BOOLEAN /\ boot \in BOOLEAN /\ queried \in BOOLEAN /\ woken \in BOOLEAN
  /\ pc \in {"idle", "begin", "retry", "query", "rows", "tell", "check1", "check2",
             "end1", "end2"}
  /\ last \in Rows \cup {0} /\ lastAnn \in Rows \cup {0}
  /\ todo \subseteq Rows /\ news \subseteq Rows
  /\ bucket \subseteq Rows /\ flushing \subseteq bucket
  /\ base \in Rows \cup {0} /\ told \in [Rows -> Nat] /\ faults \in Nat /\ crashes \in Nat

Filed(r) == MailOf[r] \in spool

\* Nothing is lost behind the saved cursor, wherever the kernel dies: a mail it has
\* passed is filed, parked, broken, given up, or of an account that was not known.
CursorCoversMail ==
  \A r \in Index : base < r /\ r <= cursor =>
    Filed(r) \/ parked[r] > 0 \/ mail[r] = "broken" \/ r \in abandoned \cup overlooked

\* A row is announced once, and once more at most for every death of the kernel.
ToldOnce == \A r \in Rows : told[r] <= 1 + crashes

\* A mail that is there is filed in the end, whether or not Mail says anything again.
MailIsFiled ==
  \A r \in Rows :
    mail[r] = "full" /\ cursor # Unset /\ base < r ~>
      \/ Filed(r) \/ mail[r] = "gone" \/ r \in abandoned \cup overlooked
      \/ r \in Late /\ ~known

Twins(r)   == {q \in Rows : MailOf[q] = MailOf[r]}
IsTold(r)  == \E q \in Twins(r) : told[q] > 0
Excused(r) == \E q \in Twins(r) : q \in slipped \/ mail[q] = "gone"

\* A mail that is filed is announced in the end, over kernel deaths as well, unless it
\* got out of the bucket, or the kernel died and either the mail had been parked
\* or an index could not be read (the next catch-up would have announced it).
FiledIsTold ==
  \A r \in Rows :
    Filed(r) ~> \/ IsTold(r) \/ Excused(r)
                \/ crashes > 0 /\ (faults > 0 \/ Twins(r) \cap delayed # {})

-----------------------------------------------------------------------------
(* What the repository says and the code does not keep (README, findings). *)

\* A crash between the write of the yaml and the event recovers on the next boot.
RecoveredIsTold ==
  \A r \in Rows : Filed(r) ~> IsTold(r) \/ Excused(r)
=============================================================================
