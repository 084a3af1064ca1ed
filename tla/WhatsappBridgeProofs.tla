------------------------ MODULE WhatsappBridgeProofs ------------------------
(***************************************************************************)
(* The safety of the sends over the WhatsApp bridge, for any messages,     *)
(* sends and bounds: what waits, waits on the bridge that is read          *)
(* (PendingIsRead), and what is reported as delivered was                  *)
(* (OkMeansDeparted).                                                      *)
(***************************************************************************)
EXTENDS WhatsappBridge, TLAPS

Lines == ({"message"} \X Texts \X BOOLEAN) \cup ({"long"} \X {0}) \cup
         ({"result"} \X Sends \X BOOLEAN)

BridgeTypeOK ==
  /\ supervisor \in {"off", "starting", "reading", "filed", "backoff"}
  /\ reading \in Bridges \cup {0}
  /\ bridge \in [Bridges -> {"none", "connecting", "open", "exited"}]
  /\ auth \in BOOLEAN /\ pairing \in BOOLEAN
  /\ pipe \in Seq(Lines) /\ stdin \subseteq Sends
  /\ issued \in Nat /\ pending \subseteq Sends
  /\ answer \in [Sends -> {"none", "ok", "failed", "rejected"}]
  /\ buffer \in [Bridges -> SUBSET Texts] /\ quiet \in [Bridges -> BOOLEAN]
  /\ dayFiled \subseteq Texts /\ announced \subseteq Texts /\ forgotten \subseteq Texts
  /\ sentOn \in [Sends -> Bridges \cup {0}] /\ departed \subseteq Sends
  /\ longLines \in Nat /\ driverStops \in Nat

\* A bridge is read exactly while its reader runs, and a line is being filed only there.
ReaderHasBridge ==
  /\ reading # 0 <=> supervisor \in {"reading", "filed"}
  /\ supervisor = "filed" => pipe # <<>> /\ Head(pipe)[1] = "message"

\* A result that says ok, wherever it is in the pipe, is of a send that departed.
ResultsAreTrue ==
  \A i \in 1..Len(pipe) :
    pipe[i][1] = "result" /\ pipe[i][3] = TRUE => pipe[i][2] \in departed

BridgeInv == BridgeTypeOK /\ ReaderHasBridge /\ ResultsAreTrue /\ PendingIsRead /\ OkMeansDeparted

USE BridgeAssumption DEF Bridges, Live, messages, sending, history, bounds, bridgeVars

-----------------------------------------------------------------------------
(* The lines on a pipe: what is true of the head, and of what is kept.     *)

LEMMA HeadIsLine ==
  ASSUME NEW q \in Seq(Lines), q # <<>>
  PROVE  /\ Head(q) \in Lines /\ Head(q) = q[1] /\ 1 \in 1..Len(q) /\ Tail(q) \in Seq(Lines)
         /\ Head(q)[1] = "message" => Head(q)[2] \in Texts /\ Head(q)[3] \in BOOLEAN
         /\ Head(q)[1] = "result" => Head(q)[2] \in Sends /\ Head(q)[3] \in BOOLEAN
<1>1. Head(q) \in Lines /\ Head(q) = q[1] /\ 1 \in 1..Len(q) /\ Tail(q) \in Seq(Lines)
  OBVIOUS
<1>2. \A l \in Lines : /\ l[1] = "message" => l[2] \in Texts /\ l[3] \in BOOLEAN
                       /\ l[1] = "result" => l[2] \in Sends /\ l[3] \in BOOLEAN
  BY DEF Lines
<1> QED
  BY <1>1, <1>2

LEMMA TailIsTrue ==
  ASSUME pipe \in Seq(Lines), pipe # <<>>, pipe' = Tail(pipe), ResultsAreTrue,
         departed \subseteq departed'
  PROVE  ResultsAreTrue'
  BY DEF ResultsAreTrue

\* A line reaches the reader, or is lost; either way what was there stays.
LEMMA EmitKeeps ==
  ASSUME BridgeInv, NEW b, NEW line \in Lines, Emit(b, line), UNCHANGED <<reading, supervisor>>,
         departed \subseteq departed',
         line[1] = "result" /\ line[3] = TRUE => line[2] \in departed'
  PROVE  pipe' \in Seq(Lines) /\ ReaderHasBridge' /\ ResultsAreTrue'
<1> USE DEF BridgeInv, BridgeTypeOK, Emit
<1>1. CASE b # reading
  BY <1>1 DEF ReaderHasBridge, ResultsAreTrue
<1>2. CASE b = reading
  <2>1. pipe' = Append(pipe, line) /\ pipe \in Seq(Lines)
    BY <1>2
  <2>2. pipe' \in Seq(Lines) /\ Len(pipe') = Len(pipe) + 1 /\ pipe'[Len(pipe) + 1] = line
    BY <2>1
  <2>3. \A i \in 1..Len(pipe) : pipe'[i] = pipe[i]
    BY <2>1
  <2>4. pipe # <<>> => pipe' # <<>> /\ Head(pipe') = Head(pipe)
    BY <2>1
  <2>5. ReaderHasBridge'
    BY <2>4 DEF ReaderHasBridge
  <2>6. ResultsAreTrue'
    <3> SUFFICES ASSUME NEW i \in 1..Len(pipe'), pipe'[i][1] = "result", pipe'[i][3] = TRUE
                 PROVE  pipe'[i][2] \in departed'
      BY DEF ResultsAreTrue
    <3>1. i = Len(pipe) + 1 \/ i \in 1..Len(pipe)
      BY <2>1, <2>2
    <3>2. CASE i = Len(pipe) + 1
      BY <2>2, <3>2
    <3>3. CASE i \in 1..Len(pipe)
      BY <2>3, <3>3 DEF ResultsAreTrue
    <3> QED
      BY <3>1, <3>2, <3>3
  <2> QED
    BY <2>2, <2>5, <2>6
<1> QED
  BY <1>1, <1>2

-----------------------------------------------------------------------------
LEMMA InitIsSound == BridgeInit => BridgeInv
<1> SUFFICES ASSUME BridgeInit PROVE BridgeInv
  OBVIOUS
<1>1. pipe \in Seq(Lines) /\ quiet \in [Bridges -> BOOLEAN]
  BY DEF BridgeInit
<1>2. BridgeTypeOK
  BY <1>1 DEF BridgeInit, BridgeTypeOK
<1> QED
  BY <1>2 DEF BridgeInit, BridgeInv, ReaderHasBridge, ResultsAreTrue, PendingIsRead,
              OkMeansDeparted

\* The supervisor and its reader.
LEMMA ReaderIsSound ==
  ASSUME BridgeInv,
         \/ ReapStaleBridges \/ LaunchBridge \/ ReadEof \/ ReadError \/ ReadMessage
         \/ EmitMessage \/ ReadResult
  PROVE  BridgeInv'
<1> USE DEF BridgeInv, BridgeTypeOK, ReaderHasBridge, PendingIsRead, OkMeansDeparted
<1>1. CASE ReapStaleBridges
  BY <1>1 DEF ReapStaleBridges, ResultsAreTrue
<1>2. CASE LaunchBridge
  BY <1>2 DEF LaunchBridge, ResultsAreTrue
<1>3. CASE ReadEof
  BY <1>3 DEF ReadEof, FlushAtEof, RejectAll, ResultsAreTrue
<1>4. CASE ReadError
  BY <1>4 DEF ReadError, NextIs, RejectAll, ResultsAreTrue
<1>5. CASE ReadMessage
  <2>1. /\ Head(pipe)[2] \in Texts /\ Tail(pipe) \in Seq(Lines) /\ supervisor = "reading"
        /\ pipe # <<>> /\ Head(pipe)[1] = "message" /\ reading \in Bridges
    BY <1>5, HeadIsLine DEF ReadMessage, NextIs
  <2>2. CASE Head(pipe)[3]
    <3> DEFINE m == Head(pipe)[2]
    <3>1. /\ pipe' = Tail(pipe) /\ dayFiled' = dayFiled \cup {m} /\ UNCHANGED supervisor
          /\ buffer' = [buffer EXCEPT ![reading] = @ \cup {m}]
          /\ quiet' = [quiet EXCEPT ![reading] = TRUE]
          /\ UNCHANGED <<reading, bridge, auth, pairing, stdin, sending, announced, forgotten,
                         bounds>>
      BY <1>5, <2>2 DEF ReadMessage, FileMessage
    <3>2. ResultsAreTrue'
      BY <2>1, <3>1, TailIsTrue
    <3>3. /\ pipe' \in Seq(Lines) /\ dayFiled' \subseteq Texts
          /\ buffer' \in [Bridges -> SUBSET Texts] /\ quiet' \in [Bridges -> BOOLEAN]
      BY <2>1, <3>1
    <3> QED
      BY <2>1, <3>1, <3>2, <3>3
  <2>3. CASE ~Head(pipe)[3]
    BY <1>5, <2>1, <2>3 DEF ReadMessage, FileMessage, ResultsAreTrue
  <2> QED
    BY <2>2, <2>3
<1>6. CASE EmitMessage
  <2>1. Head(pipe)[2] \in Texts /\ Tail(pipe) \in Seq(Lines)
    BY <1>6, HeadIsLine DEF EmitMessage
  <2>2. ResultsAreTrue'
    BY <1>6, TailIsTrue DEF EmitMessage
  <2> QED
    BY <1>6, <2>1, <2>2 DEF EmitMessage
<1>7. CASE ReadResult
  <2>1. /\ Head(pipe)[2] \in Sends /\ Tail(pipe) \in Seq(Lines) /\ Head(pipe) = pipe[1]
        /\ 1 \in 1..Len(pipe) /\ Head(pipe)[1] = "result" /\ Head(pipe)[3] \in BOOLEAN
    BY <1>7, HeadIsLine DEF ReadResult, NextIs
  <2>2. ResultsAreTrue'
    BY <1>7, TailIsTrue DEF ReadResult, NextIs
  <2>3. Head(pipe)[3] => Head(pipe)[2] \in departed
    BY <2>1 DEF ResultsAreTrue
  <2> DEFINE s == Head(pipe)[2]
             ok == Head(pipe)[3]
  <2>4. /\ pending' \subseteq pending /\ UNCHANGED <<departed, sentOn, reading, supervisor>>
        /\ answer' \in [Sends -> {"none", "ok", "failed", "rejected"}]
        /\ \A t \in Sends : answer'[t] = "ok" => answer[t] = "ok" \/ (t = s /\ ok)
    BY <1>7, <2>1 DEF ReadResult, Resolve
  <2>5. OkMeansDeparted'
    BY <2>3, <2>4
  <2> QED
    BY <1>7, <2>1, <2>2, <2>4, <2>5 DEF ReadResult
<1> QED
  BY <1>1, <1>2, <1>3, <1>4, <1>5, <1>6, <1>7

\* The flush task, the client, and what stops the reader.
LEMMA ClientIsSound ==
  ASSUME BridgeInv,
         \/ \E b \in Bridges : FlushAfterQuiesce(b)
         \/ StopDriver \/ KernelDiesOnBridge \/ IssueSend \/ \E s \in Sends : SendTimesOut(s)
  PROVE  BridgeInv'
<1> USE DEF BridgeInv, BridgeTypeOK, ReaderHasBridge, PendingIsRead, OkMeansDeparted
<1>1. ASSUME NEW b \in Bridges, FlushAfterQuiesce(b) PROVE BridgeInv'
  BY <1>1 DEF FlushAfterQuiesce, ResultsAreTrue
<1>2. CASE StopDriver
  BY <1>2 DEF StopDriver, RejectAll, ResultsAreTrue
<1>3. CASE KernelDiesOnBridge
  BY <1>3 DEF KernelDiesOnBridge, ResultsAreTrue
<1>4. CASE IssueSend
  <2> DEFINE s == issued + 1
  <2>1. /\ reading # 0 /\ s \in Sends /\ issued' = s
        /\ UNCHANGED <<supervisor, reading, bridge, auth, pairing, pipe, departed, history,
                       messages, bounds>>
    BY <1>4 DEF IssueSend
  <2>2. CASE bridge[reading] = "exited"
    BY <1>4, <2>1, <2>2 DEF IssueSend, ResultsAreTrue
  <2>3. CASE bridge[reading] # "exited"
    <3>1. /\ pending' = pending \cup {s} /\ stdin' = stdin \cup {s}
          /\ sentOn' = [sentOn EXCEPT ![s] = reading] /\ UNCHANGED answer
      BY <1>4, <2>3 DEF IssueSend
    <3> QED
      BY <2>1, <3>1 DEF ResultsAreTrue
  <2> QED
    BY <2>2, <2>3
<1>5. ASSUME NEW s \in Sends, SendTimesOut(s) PROVE BridgeInv'
  BY <1>5 DEF SendTimesOut, ResultsAreTrue
<1> QED
  BY <1>1, <1>2, <1>3, <1>4, <1>5

\* The bridge itself, and the pairing command.
LEMMA BridgeIsSound ==
  ASSUME BridgeInv,
         \/ \E b \in Bridges : Connect(b) \/ ReceiveLong(b)
         \/ \E b \in Bridges, loggedOut \in BOOLEAN : Close(b, loggedOut)
         \/ \E b \in Bridges, m \in Texts, hist \in BOOLEAN : Receive(b, m, hist)
         \/ \E b \in Bridges, s \in Sends : HandleSend(b, s)
         \/ BeginPairing \/ ScanCode
  PROVE  BridgeInv'
<1> USE DEF BridgeInv, BridgeTypeOK, PendingIsRead, OkMeansDeparted
<1>1. ASSUME NEW b \in Bridges, Connect(b) PROVE BridgeInv'
  BY <1>1 DEF Connect, ReaderHasBridge, ResultsAreTrue
<1>2. ASSUME NEW b \in Bridges, NEW loggedOut \in BOOLEAN, Close(b, loggedOut) PROVE BridgeInv'
  BY <1>2 DEF Close, ReaderHasBridge, ResultsAreTrue
<1>3. ASSUME NEW b \in Bridges, NEW m \in Texts, NEW hist \in BOOLEAN, Receive(b, m, hist)
      PROVE  BridgeInv'
  <2>1. <<"message", m, hist>> \in Lines /\ UNCHANGED <<reading, supervisor, departed>>
    BY <1>3 DEF Lines, Receive
  <2>2. pipe' \in Seq(Lines) /\ ReaderHasBridge' /\ ResultsAreTrue'
    BY <1>3, <2>1, EmitKeeps DEF Receive
  <2> QED
    BY <1>3, <2>2 DEF Receive
<1>4. ASSUME NEW b \in Bridges, ReceiveLong(b) PROVE BridgeInv'
  <2>1. <<"long", 0>> \in Lines /\ UNCHANGED <<reading, supervisor, departed>>
    BY <1>4 DEF Lines, ReceiveLong
  <2>2. pipe' \in Seq(Lines) /\ ReaderHasBridge' /\ ResultsAreTrue'
    BY <1>4, <2>1, EmitKeeps DEF ReceiveLong
  <2> QED
    BY <1>4, <2>2 DEF ReceiveLong
<1>5. ASSUME NEW b \in Bridges, NEW s \in Sends, HandleSend(b, s) PROVE BridgeInv'
  <2>1. PICK ok \in {FALSE, bridge[b] = "open"} :
          /\ departed' = IF ok THEN departed \cup {s} ELSE departed
          /\ Emit(b, <<"result", s, ok>>)
    BY <1>5 DEF HandleSend
  <2>2. ok \in BOOLEAN /\ <<"result", s, ok>> \in Lines /\ UNCHANGED <<reading, supervisor>>
    BY <1>5 DEF Lines, HandleSend
  <2>3. departed \subseteq departed' /\ departed' \subseteq Sends /\ (ok = TRUE => s \in departed')
    BY <2>1
  <2>4. pipe' \in Seq(Lines) /\ ReaderHasBridge' /\ ResultsAreTrue'
    BY <2>1, <2>2, <2>3, EmitKeeps
  <2> QED
    BY <1>5, <2>3, <2>4 DEF HandleSend
<1>6. CASE BeginPairing
  BY <1>6 DEF BeginPairing, ReaderHasBridge, ResultsAreTrue
<1>7. CASE ScanCode
  BY <1>7 DEF ScanCode, ReaderHasBridge, ResultsAreTrue
<1> QED
  BY <1>1, <1>2, <1>3, <1>4, <1>5, <1>6, <1>7

LEMMA StutterIsSound == ASSUME BridgeInv, UNCHANGED bridgeVars PROVE BridgeInv'
  BY DEF BridgeInv, BridgeTypeOK, ReaderHasBridge, ResultsAreTrue, PendingIsRead, OkMeansDeparted

LEMMA StepIsSound == BridgeInv /\ [BridgeNext]_bridgeVars => BridgeInv'
  BY ReaderIsSound, ClientIsSound, BridgeIsSound, StutterIsSound DEF BridgeNext

LEMMA BridgeInvHolds == BridgeSpec => []BridgeInv
<1> QED
  BY InitIsSound, StepIsSound, PTL DEF BridgeSpec

-----------------------------------------------------------------------------
\* Type correctness, and that a reader has a bridge: the states of the supervisor.
THEOREM BridgeTypeCorrect == BridgeSpec => []BridgeTypeOK
<1>1. BridgeInv => BridgeTypeOK
  BY DEF BridgeInv
<1> QED
  BY <1>1, BridgeInvHolds, PTL

\* No send waits for an answer that nobody can read any more, whichever way its bridge or
\* its reader ended.  (BridgeClient, _run_bridge.)
THEOREM NoSendHangs == BridgeSpec => []PendingIsRead
<1>1. BridgeInv => PendingIsRead
  BY DEF BridgeInv
<1> QED
  BY <1>1, BridgeInvHolds, PTL

\* A send answered with ok has left the machine.  (BridgeClient.resolve, handleSend.)
THEOREM OkIsTrue == BridgeSpec => []OkMeansDeparted
<1>1. BridgeInv => OkMeansDeparted
  BY DEF BridgeInv
<1> QED
  BY <1>1, BridgeInvHolds, PTL
=============================================================================
