---------------------------- MODULE SlackInbound ----------------------------
(***************************************************************************)
(* The inbound slack driver: one timestamp cursor for all conversations, a *)
(* catch-up over their histories at start, then Socket Mode events, each   *)
(* handled by a thread of the SDK: acknowledge, file, emit, move the       *)
(* cursor.  Messages are numbered by their timestamps.                     *)
(***************************************************************************)
EXTENDS Integers, FiniteSets, FiniteSetsExt

CONSTANTS Posts,          \* the messages, 1..n in order of their ts
          ConvOf,         \* the conversation of each
          DirectConvs,    \* the conversations that are DMs
          Mentions,       \* the messages that mention the bot
          HistoryLimit,   \* messages one conversations_history call returns
          MaxSlackFaults, \* bound: failed histories and lost acknowledgements
          MaxSlackDeaths  \* bound: deaths of the kernel

Convs == {ConvOf[m] : m \in Posts}
NoTs  == -1

VARIABLES
  posted,             \* the messages on slack
  tsCursor,           \* last_ts in cursor.yaml
  slackIn,            \* "dead", "catchup", "connecting", "live"
  base, todo,         \* last_ts of _catchup; the conversations it has yet to read
  newest, records,    \* newest ts it has seen; what it has filed
  envelopes,          \* events on their way to a listener thread: <<message, type>>
  listener,           \* per envelope: "none", "filed", "told"
  \* observers
  lines, heard,       \* per message: entries in day-files, events that told of it
  unread,             \* posts whose history failed or was cut, or that fell between
                      \* the reading of their conversation and the connection
  dropped,            \* posts behind the cursor that a listener held when the kernel died
  slackFaults, slackDeaths

slackVars == <<posted, tsCursor, slackIn, base, todo, newest, records, envelopes, listener,
               lines, heard, unread, dropped, slackFaults, slackDeaths>>

catchup == <<base, todo, newest, records>>
live    == <<envelopes, listener>>
slackCounts == <<slackFaults, slackDeaths>>
Types   == {"message", "app_mention"}

SlackInit ==
  /\ posted = {} /\ tsCursor = NoTs /\ slackIn = "dead"
  /\ base = NoTs /\ todo = {} /\ newest = NoTs /\ records = {}
  /\ envelopes = {} /\ listener = [e \in Posts \X Types |-> "none"]
  /\ lines = [m \in Posts |-> 0] /\ heard = [m \in Posts |-> 0]
  /\ unread = {} /\ dropped = {} /\ slackFaults = 0 /\ slackDeaths = 0

\* A DM, or a mention in a channel.
Wakeable == {m \in Posts : ConvOf[m] \in DirectConvs \/ m \in Mentions}

\* slack sends a mention twice, under two types.
EventsOf(m) == {m} \X ({"message"} \cup IF m \in Mentions THEN {"app_mention"} ELSE {})

\* slack delivers events while the socket is open; what is posted after its conversation
\* was read and before that is left to the next catch-up.
Post(m) ==
  /\ m \notin posted /\ \A l \in Posts : l < m => l \in posted
  /\ posted' = posted \cup {m}
  /\ envelopes' = IF slackIn = "live" THEN envelopes \cup EventsOf(m) ELSE envelopes
  /\ unread' = IF slackIn = "connecting" \/ (slackIn = "catchup" /\ ConvOf[m] \notin todo)
               THEN unread \cup {m} ELSE unread
  /\ UNCHANGED <<tsCursor, slackIn, catchup, listener, lines, heard, dropped, slackCounts>>

-----------------------------------------------------------------------------
\* _advance_cursor, under its lock: only ever forward.
AdvanceTo(ts) == tsCursor' = Max({ts, tsCursor})

\* _record_message: person or channel, thread directory, a line in the day-file.
RecordAll(ms) == lines' = [m \in Posts |-> IF m \in ms THEN lines[m] + 1 ELSE lines[m]]

\* A fresh install starts from now.
StartSlack ==
  /\ slackIn = "dead"
  /\ IF tsCursor = NoTs
     THEN /\ slackIn' = "connecting" /\ tsCursor' = Max({0} \cup posted)
          /\ unread' = unread \cup posted
          /\ UNCHANGED catchup
     ELSE /\ slackIn' = "catchup" /\ base' = tsCursor /\ newest' = tsCursor
          /\ todo' = Convs /\ records' = {}
          /\ UNCHANGED <<tsCursor, unread>>
  /\ UNCHANGED <<posted, live, lines, heard, dropped, slackCounts>>

\* The boundary message is one the driver already has.
History(c) == {m \in posted : ConvOf[m] = c /\ m > base}

\* The newest of them, up to the limit of one call.
Page(c) == {m \in History(c) : Cardinality({l \in History(c) : l > m}) < HistoryLimit}

ReadConversation(c) ==
  /\ slackIn = "catchup" /\ c \in todo
  /\ todo' = todo \ {c}
  /\ newest' = Max({newest} \cup Page(c))
  /\ records' = records \cup (Page(c) \cap Wakeable)
  /\ RecordAll(Page(c) \cap Wakeable)
  /\ unread' = unread \cup (History(c) \ Page(c))
  /\ UNCHANGED <<posted, tsCursor, slackIn, base, live, heard, dropped, slackCounts>>

\* users_conversations or conversations_history fails: the next one is tried.
ReadFails(c) ==
  /\ slackIn = "catchup" /\ c \in todo /\ slackFaults < MaxSlackFaults
  /\ slackFaults' = slackFaults + 1
  /\ todo' = todo \ {c}
  /\ unread' = unread \cup History(c)
  /\ UNCHANGED <<posted, tsCursor, slackIn, base, newest, records, live, lines, heard, dropped,
                 slackDeaths>>

EmitSlackBacklog ==
  /\ slackIn = "catchup" /\ todo = {} /\ records # {}
  /\ heard' = [m \in Posts |-> IF m \in records THEN heard[m] + 1 ELSE heard[m]]
  /\ records' = {}
  /\ UNCHANGED <<posted, tsCursor, slackIn, base, todo, newest, live, lines, unread, dropped,
                 slackCounts>>

EndCatchup ==
  /\ slackIn = "catchup" /\ todo = {} /\ records = {}
  /\ AdvanceTo(newest)
  /\ slackIn' = "connecting"
  /\ UNCHANGED <<posted, catchup, live, lines, heard, unread, dropped, slackCounts>>

ConnectSocket ==
  /\ slackIn = "connecting"
  /\ slackIn' = "live"
  /\ UNCHANGED <<posted, tsCursor, catchup, live, lines, heard, unread, dropped, slackCounts>>

-----------------------------------------------------------------------------
(* A listener thread.                                                      *)

MutWanted2(e) == e[2] = "message" /\ ConvOf[e[1]] \in DirectConvs   \* DMs only

\* The channel firehose is ignored, and so is the mention inside a DM.
Wanted(e) == (e[2] = "message") = (ConvOf[e[1]] \in DirectConvs)

\* Acknowledged first; if that is lost, slack sends the envelope again.
HandleEvent(e) ==
  /\ e \in envelopes /\ listener[e] = "none"
  /\ \/ envelopes' = envelopes \ {e} /\ UNCHANGED slackFaults
     \/ slackFaults < MaxSlackFaults /\ slackFaults' = slackFaults + 1 /\ UNCHANGED envelopes
  /\ IF Wanted(e)
     THEN RecordAll({e[1]}) /\ listener' = [listener EXCEPT ![e] = "filed"]
     ELSE UNCHANGED <<lines, listener>>
  /\ UNCHANGED <<posted, tsCursor, slackIn, catchup, heard, unread, dropped, slackDeaths>>

EmitEvent(e) ==
  /\ listener[e] = "filed"
  /\ listener' = [listener EXCEPT ![e] = "told"]
  /\ heard' = [heard EXCEPT ![e[1]] = @ + 1]
  /\ UNCHANGED <<posted, tsCursor, slackIn, catchup, envelopes, lines, unread, dropped,
                 slackCounts>>

EndEvent(e) ==
  /\ listener[e] = "told"
  /\ listener' = [listener EXCEPT ![e] = "none"]
  /\ AdvanceTo(e[1])
  /\ UNCHANGED <<posted, slackIn, catchup, envelopes, lines, heard, unread, dropped, slackCounts>>

KernelDiesOnSlack ==
  /\ slackIn # "dead" /\ slackDeaths < MaxSlackDeaths
  /\ slackDeaths' = slackDeaths + 1
  /\ slackIn' = "dead"
  /\ dropped' = dropped \cup
       {m \in Posts : m <= tsCursor /\ \E t \in Types :
                        <<m, t>> \in envelopes \/ listener[<<m, t>>] = "filed"}
  /\ envelopes' = {} /\ listener' = [e \in Posts \X Types |-> "none"]
  /\ records' = {}
  /\ UNCHANGED <<posted, tsCursor, base, todo, newest, lines, heard, unread, slackFaults>>

SlackTasks ==
  \/ EmitSlackBacklog \/ EndCatchup \/ ConnectSocket \/ StartSlack
  \/ \E c \in Convs : ReadConversation(c)
  \/ \E e \in Posts \X Types : HandleEvent(e) \/ EmitEvent(e) \/ EndEvent(e)

SlackNext ==
  \/ SlackTasks \/ KernelDiesOnSlack
  \/ \E m \in Posts : Post(m)
  \/ \E c \in Convs : ReadFails(c)

SlackSpec == SlackInit /\ [][SlackNext]_slackVars

-----------------------------------------------------------------------------
\* Every message the bot should wake for is told in the end, with the same exceptions.
PostIsTold ==
  \A m \in Wakeable : (m \in posted) ~> (heard[m] > 0 \/ m \in unread \cup dropped)
=============================================================================
