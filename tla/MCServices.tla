----------------------------- MODULE MCServices -----------------------------
(***************************************************************************)
(* The components that share no state with the messaging drivers nor with  *)
(* each other, checked side by side: a behaviour is one of the component   *)
(* that `active` names, the others stay in one initial state of theirs.    *)
(***************************************************************************)
EXTENDS Subagents, Fleet, Packages, NotificationInbound, CalendarInbound, Browse, Notetaker,
        BuiltDocs, Releases, Console, Cowork, Voice

VARIABLE active     \* the component a behaviour is about

Components == {"subagents", "fleet", "packages", "notification", "calendar", "browse",
               "notetaker", "docs", "releases", "console", "cowork", "voice"}

Init ==
  /\ active \in Components
  /\ SubInit /\ FleetInit /\ PkgInit /\ NoteInit /\ CalInit /\ BrowseInit /\ CallInit
  /\ DocsInit /\ ReleaseInit /\ ConsoleInit /\ CoworkInit /\ VoiceInit
  /\ active # "calendar" => mayWrite /\ \A u \in Uids : calendar[u] = 0
  /\ active # "browse" => daemonProc = "none"
  /\ active # "notetaker" => ~frozen
  /\ active # "docs" => docSlot = "none"
  /\ active # "releases" => shaMarker = NoBuild
  /\ active # "cowork" => freeze = {}

Next ==
  /\ UNCHANGED active
  /\ IF active = "subagents" THEN SubNext ELSE UNCHANGED subVars
  /\ IF active = "fleet" THEN FleetNext ELSE UNCHANGED fleetVars
  /\ IF active = "packages" THEN PkgNext ELSE UNCHANGED pkgVars
  /\ IF active = "notification" THEN NoteNext ELSE UNCHANGED noteVars
  /\ IF active = "calendar" THEN CalNext ELSE UNCHANGED calVars
  /\ IF active = "browse" THEN BrowseNext ELSE UNCHANGED browseVars
  /\ IF active = "notetaker" THEN CallNext ELSE UNCHANGED callVars
  /\ IF active = "docs" THEN DocsNext ELSE UNCHANGED docVars
  /\ IF active = "releases" THEN ReleaseNext ELSE UNCHANGED releaseVars
  /\ IF active = "console" THEN ConsoleNext ELSE UNCHANGED consoleVars
  /\ IF active = "cowork" THEN CoworkNext ELSE UNCHANGED coworkVars
  /\ IF active = "voice" THEN VoiceNext ELSE UNCHANGED voiceVars

allVars == <<active, subVars, fleetVars, pkgVars, noteVars, calVars, browseVars, callVars,
             docVars, releaseVars, consoleVars, coworkVars, voiceVars>>

\* Tasks of a running event loop go on, a dead kernel is booted, and the processes a verb
\* starts come up.
Spec ==
  /\ Init /\ [][Next]_allVars
  /\ WF_calVars(active = "calendar" /\ CalTasks)
  /\ \A v \in Verbs : WF_browseVars(active = "browse" /\ RunVerb(v))
  /\ WF_browseVars(active = "browse" /\ StartBrowser)
  /\ WF_browseVars(active = "browse" /\ StartDaemon)
  /\ WF_callVars(active = "notetaker" /\ CallTasks)
  /\ WF_callVars(active = "notetaker" /\ BootRecorder)
  /\ WF_coworkVars(active = "cowork" /\ CoworkTasks)
  /\ WF_voiceVars(active = "voice" /\ HearFrame)
  /\ WF_voiceVars(active = "voice" /\ Transcribe)

-----------------------------------------------------------------------------
\* The instance: a diamond of packages; three builds of two versions.
MCDepsOf    == [p |-> <<"d", "b">>, d |-> <<"b">>, b |-> <<>>]
MCVersionOf == <<"v1", "v1", "v2">>
=============================================================================
