---------------------------- MODULE MCMessaging ----------------------------
(***************************************************************************)
(* The messaging components that share no state, checked side by side: a   *)
(* behaviour is one of the component that `active` names, the others stay  *)
(* in their initial state.                                                 *)
(***************************************************************************)
EXTENDS WhatsappBridge, Threads, ImessageInbound, SlackInbound, SendCommands

VARIABLE active     \* the component a behaviour is about

Init ==
  /\ active \in {"whatsapp", "threads", "imessage", "slack", "commands"}
  /\ BridgeInit /\ ThreadsInit /\ ImessageInit /\ SlackInit /\ SendInit
  /\ active # "whatsapp" => auth
  /\ active # "commands" => kind = "peer"

Next ==
  /\ UNCHANGED active
  /\ IF active = "whatsapp" THEN BridgeNext ELSE UNCHANGED bridgeVars
  /\ IF active = "threads" THEN ThreadsNext ELSE UNCHANGED threadVars
  /\ IF active = "imessage" THEN ImessageNext ELSE UNCHANGED imessageVars
  /\ IF active = "slack" THEN SlackNext ELSE UNCHANGED slackVars
  /\ IF active = "commands" THEN SendNext ELSE UNCHANGED sendVars

allVars == <<active, bridgeVars, threadVars, imessageVars, slackVars, sendVars>>

\* Tasks of a running event loop go on, and a dead kernel is booted.
Spec ==
  /\ Init /\ [][Next]_allVars
  /\ WF_bridgeVars(active = "whatsapp" /\ BridgeTasks)
  /\ WF_imessageVars(active = "imessage" /\ ImessageTasks)
  /\ WF_imessageVars(active = "imessage" /\ BootImessage)
  /\ WF_slackVars(active = "slack" /\ SlackTasks)

-----------------------------------------------------------------------------
\* The instance: h1 is in the address book as alex, h2 is not; two private messages and one
\* to a group; two rows of different days; posts of a DM and a channel;
\* two sends of one text.
MCHandles  == {"h1", "h2"}
MCNames    == {"alex", "bob"}
MCNameOf   == [h1 |-> "alex", h2 |-> "none"]
MCIncoming == {[id |-> 1, from |-> "h1", guid |-> "no"], [id |-> 2, from |-> "h2", guid |-> "no"],
               [id |-> 3, from |-> "h2", guid |-> "g"]}
MCDayOf    == [r \in Rows |-> r]
MCConvOf   == <<"D", "C", "D">>
MCTextOf   == [c1 |-> "t", c2 |-> "t"]
=============================================================================
