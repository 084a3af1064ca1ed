------------------------------- MODULE Browse -------------------------------
(***************************************************************************)
(* Browser sessions: one-shot verbs (bin/browse/browse.py) against one     *)
(* daemon (bin/browse/sidecar/server.mjs), a process the kernel keeps while *)
(* /proc/browse-daemon is active.  The daemon owns one Chrome and a page,  *)
(* with a promise chain for a lock, per slug.  Every await of a verb is a  *)
(* step boundary: verbs of the same and of other slugs come in between.    *)
(***************************************************************************)
EXTENDS Naturals, Sequences, FiniteSets

CONSTANTS Verbs,            \* commands that may run at the same time
          BrowseSlugs,      \* subagents that browse
          MaxBrowseFaults   \* bound on deaths, failures and closed pages

NoPage  == 0
PageIds == 1..(Cardinality(BrowseSlugs) + 3 * Cardinality(Verbs))
NoVerb  == [at |-> "idle"]

VARIABLES daemonProc,   \* /proc/browse-daemon: none, active, stopped
          specTmp,      \* its spec.yaml.tmp is there
          daemon,       \* the node process: down, or up (it listens)
          chrome,       \* none, closing .. attaching (a launch), alive
          pageOf,       \* pages: the page of a slug, or NoPage
          closedPages,  \* pages that are closed
          chain,        \* the verbs on the promise chain of a page's record
          verb,         \* each command
          present,      \* the slugs that are in /proc
          browseFaults

browseVars == <<daemonProc, specTmp, daemon, chrome, pageOf, closedPages, chain, verb, present,
                browseFaults>>
browseDir  == <<daemonProc, specTmp>>
browser    == <<daemon, chrome>>
pageVars   == <<pageOf, closedPages, chain>>
world      == <<present, browseFaults>>

BrowseInit ==
  /\ daemonProc \in {"none", "stopped"} /\ specTmp = FALSE
  /\ daemon = "down" /\ chrome = "none"
  /\ pageOf = [s \in BrowseSlugs |-> NoPage] /\ closedPages = {} /\ chain = [i \in PageIds |-> <<>>]
  /\ verb = [v \in Verbs |-> NoVerb] /\ present = BrowseSlugs /\ browseFaults = 0

BrowseFault == browseFaults < MaxBrowseFaults /\ browseFaults' = browseFaults + 1

VerbAt(v, place)  == verb[v].at = place
VerbTo(v, place)  == verb' = [verb EXCEPT ![v].at = place]
Left(place)       == [at |-> place]   \* nothing of it is left in the daemon
LeaveTo(v, place) == verb' = [verb EXCEPT ![v] = Left(place)]
InDaemon(rec)     == rec.at \in {"context", "prune", "pruning", "newpage", "queued",
                                 "again", "acting", "closing"}

-----------------------------------------------------------------------------
NewVerb(s, kind) == [at |-> IF daemon = "up" THEN "send" ELSE "status", slug |-> s, kind |-> kind,
                     rec |-> NoPage, page |-> NoPage, stale |-> FALSE, todo |-> {}, gone |-> s]

\* _request, _ensure_daemon: a verb of a slug's subagent, and is the daemon alive?  The verb
\* close counts against the bound: it takes the page from under other verbs.
BeginVerb(v, s) ==
  /\ VerbAt(v, "idle") /\ s \in present
  /\ \/ verb' = [verb EXCEPT ![v] = NewVerb(s, "act")] /\ UNCHANGED browseFaults
     \/ verb' = [verb EXCEPT ![v] = NewVerb(s, "close")] /\ BrowseFault
  /\ UNCHANGED <<browseDir, browser, pageVars, present>>


\* _spawn_daemon_proc: a proc that has ended is reaped, then a spec is written.
ReadDaemonStatus(v) ==
  /\ VerbAt(v, "status")
  /\ VerbTo(v, IF daemonProc = "stopped" THEN "reap" ELSE "spawn")
  /\ UNCHANGED <<browseDir, browser, pageVars, world>>

ReapDaemon(v) ==
  /\ VerbAt(v, "reap") /\ VerbTo(v, "spawn")
  /\ daemonProc' = "none" /\ specTmp' = FALSE
  /\ UNCHANGED <<browser, pageVars, world>>

\* P.spawn; a proc that exists (by now) is left alone.
SpawnDaemon(v) ==
  /\ VerbAt(v, "spawn") /\ VerbTo(v, "poll")
  /\ daemonProc' = IF daemonProc = "none" THEN "active" ELSE daemonProc
  /\ UNCHANGED <<specTmp, browser, pageVars, world>>

\* The daemon answers a connect; or it does not, within the limit: a proc that is active
\* comes up in time.
PollDaemon(v) ==
  /\ VerbAt(v, "poll")
  /\ \/ daemon = "up" /\ VerbTo(v, "send")
     \/ daemon = "down" /\ daemonProc # "active" /\ LeaveTo(v, "failed")
  /\ UNCHANGED <<browseDir, browser, pageVars, world>>

SendVerb(v) ==
  /\ VerbAt(v, "send")
  /\ IF daemon = "up" THEN VerbTo(v, "context") ELSE LeaveTo(v, "failed")
  /\ UNCHANGED <<browseDir, browser, pageVars, world>>

\* The command of a verb that failed, or broke, exits.
EndVerb(v) ==
  /\ verb[v].at \in {"failed", "broken"}
  /\ verb' = [verb EXCEPT ![v] = NoVerb]
  /\ UNCHANGED <<browseDir, browser, pageVars, world>>

-----------------------------------------------------------------------------
Referred == ({pageOf[s] : s \in BrowseSlugs} \cup
             UNION {{verb[v].rec, verb[v].page} \cup {e[2] : e \in verb[v].todo} :
                      v \in {w \in Verbs : InDaemon(verb[w])}}) \ {NoPage}
\* A page nothing refers to any more is of no account.
Tidy     == closedPages' = closedPages \cap Referred'

\* getContext: the context there is, or one launch, which all wait for; pages of the dead
\* context are forgotten when it begins.
GetContext(v) ==
  /\ VerbAt(v, "context")
  /\ \/ /\ chrome = "alive"
        /\ verb' = [verb EXCEPT ![v].at = "prune", ![v].todo =
                      {<<s, pageOf[s]>> : s \in {t \in BrowseSlugs \ {verb[v].slug} : pageOf[t] # NoPage}}]
        /\ UNCHANGED <<chrome, pageOf>>
     \/ /\ chrome = "none" /\ chrome' = "closing" /\ pageOf' = [s \in BrowseSlugs |-> NoPage]
        /\ UNCHANGED verb
  /\ UNCHANGED <<browseDir, daemon, chain, world>>
  /\ Tidy

\* startBrowser: a Chrome of an earlier daemon is closed, the profile is seeded and the cookies
\* refreshed while none runs, Chrome is launched behind the keychain gate and attached to.
CloseOwnChrome ==
  /\ chrome = "closing" /\ chrome' = "seeding"
  /\ UNCHANGED <<browseDir, daemon, pageVars, verb, world>>

SeedProfile ==
  /\ chrome = "seeding" /\ chrome' = "launching"
  /\ UNCHANGED <<browseDir, daemon, pageVars, verb, world>>

LaunchChrome ==
  /\ chrome = "launching" /\ chrome' = "attaching"
  /\ UNCHANGED <<browseDir, daemon, pageVars, verb, world>>

AttachBrowser ==
  /\ chrome = "attaching" /\ chrome' = "alive"
  /\ UNCHANGED <<browseDir, daemon, pageVars, verb, world>>

StartBrowser == CloseOwnChrome \/ SeedProfile \/ LaunchChrome \/ AttachBrowser

\* A launch that fails fails every verb that waits for it.
LaunchFails ==
  /\ chrome \in {"launching", "attaching"} /\ BrowseFault /\ chrome' = "none"
  /\ verb' = [v \in Verbs |-> IF VerbAt(v, "context") THEN Left("failed") ELSE verb[v]]
  /\ UNCHANGED <<browseDir, daemon, pageVars, present>>

\* pruneOrphanPages: the pages there were of other slugs that are not in /proc are closed,
\* one after the other, and the slug's entry is deleted after each.
PrunePage(v) ==
  /\ VerbAt(v, "prune")
  /\ \E entry \in verb[v].todo :
       /\ verb' = [verb EXCEPT ![v].todo = @ \ {entry}, ![v].gone = entry[1],
                               ![v].at = IF entry[1] \in present THEN "prune" ELSE "pruning"]
       /\ closedPages' = closedPages \cup (IF entry[1] \in present THEN {} ELSE {entry[2]})
  /\ UNCHANGED <<browseDir, browser, pageOf, chain, world>>

ForgetPage(v) ==
  /\ VerbAt(v, "pruning") /\ VerbTo(v, "prune")
  /\ pageOf' = [pageOf EXCEPT ![verb[v].gone] = NoPage]
  /\ UNCHANGED <<browseDir, browser, chain, world>>
  /\ Tidy

\* dispatch goes on to its verb.
Pruned(v, kind) == VerbAt(v, "prune") /\ verb[v].todo = {} /\ verb[v].kind = kind

-----------------------------------------------------------------------------
\* A verb runs when those before it on the promise chain of its record have ended.
Queue(v, i) ==
  /\ chain' = [chain EXCEPT ![i] = Append(@, v)]
  /\ verb' = [verb EXCEPT ![v].at = "queued", ![v].rec = i]

\* getPage: the page of the slug while it is open, or newPage.
GetPage(v) ==
  LET i == pageOf[verb[v].slug]
  IN  /\ Pruned(v, "act")
      /\ IF i # NoPage /\ i \notin closedPages THEN Queue(v, i)
         ELSE VerbTo(v, "newpage") /\ UNCHANGED chain
      /\ UNCHANGED <<browseDir, browser, pageOf, closedPages, world>>

\* handle, in its turn: the slug's page again, which may be another one by now.
Handle(v) ==
  LET i == pageOf[verb[v].slug]
  IN  /\ VerbAt(v, "queued") /\ Head(chain[verb[v].rec]) = v
      /\ IF i # NoPage /\ i \notin closedPages
         THEN verb' = [verb EXCEPT ![v].at = "acting", ![v].page = i]
         ELSE VerbTo(v, "again")
      /\ UNCHANGED <<browseDir, browser, pageVars, world>>

\* The chain goes on after a verb that threw.
Leave(v) == [i \in PageIds |-> IF chain[i] # <<>> /\ Head(chain[i]) = v THEN Tail(chain[i])
                               ELSE chain[i]]

\* context.newPage() and pages.set: a context that has died since makes no page.
NewPage(v) ==
  LET i == CHOOSE k \in PageIds \ Referred : \A l \in PageIds \ Referred : k <= l
  IN  /\ verb[v].at \in {"newpage", "again"}
      /\ IF verb[v].stale
         THEN LeaveTo(v, "failed") /\ chain' = Leave(v) /\ UNCHANGED <<pageOf, closedPages>>
         ELSE /\ pageOf' = [pageOf EXCEPT ![verb[v].slug] = i] /\ closedPages' = closedPages \ {i}
              /\ IF VerbAt(v, "newpage") THEN Queue(v, i)
                 ELSE verb' = [verb EXCEPT ![v].at = "acting", ![v].page = i] /\ UNCHANGED chain
      /\ UNCHANGED <<browseDir, browser, world>>

\* The verb's calls on its page come to an end: a page that is closed throws.
EndAct(v) ==
  /\ VerbAt(v, "acting") /\ chain' = Leave(v)
  /\ LeaveTo(v, IF verb[v].page \in closedPages THEN "failed" ELSE "refresh")
  /\ UNCHANGED <<browseDir, browser, pageOf, world>>
  /\ Tidy

ActFails(v) ==
  /\ VerbAt(v, "acting") /\ BrowseFault /\ chain' = Leave(v) /\ LeaveTo(v, "failed")
  /\ UNCHANGED <<browseDir, browser, pageOf, present>>
  /\ Tidy

\* handleClose waits for no lock.
ClosePage(v) ==
  LET i == pageOf[verb[v].slug]
  IN  /\ Pruned(v, "close")
      /\ IF i = NoPage THEN LeaveTo(v, "refresh") /\ UNCHANGED closedPages
         ELSE VerbTo(v, "closing") /\ closedPages' = closedPages \cup {i}
      /\ UNCHANGED <<browseDir, browser, pageOf, chain, world>>

EndClose(v) ==
  /\ VerbAt(v, "closing") /\ LeaveTo(v, "refresh")
  /\ pageOf' = [pageOf EXCEPT ![verb[v].slug] = NoPage]
  /\ UNCHANGED <<browseDir, browser, chain, world>>
  /\ Tidy

-----------------------------------------------------------------------------
\* _refresh_daemon_deadline, after an ok: read_spec, spec.yaml.tmp, replace.  A proc or a
\* .tmp that is gone breaks the verb, but for a proc gone when it is read.
ReadDeadline(v) ==
  /\ VerbAt(v, "refresh")
  /\ verb' = [verb EXCEPT ![v] = IF daemonProc = "none" THEN NoVerb ELSE [@ EXCEPT !.at = "write"]]
  /\ UNCHANGED <<browseDir, browser, pageVars, world>>

WriteDeadline(v) ==
  /\ VerbAt(v, "write")
  /\ IF daemonProc = "none" THEN VerbTo(v, "broken") /\ UNCHANGED specTmp
     ELSE VerbTo(v, "replace") /\ specTmp' = TRUE
  /\ UNCHANGED <<daemonProc, browser, pageVars, world>>

ReplaceSpec(v) ==
  /\ VerbAt(v, "replace") /\ specTmp' = FALSE
  /\ verb' = [verb EXCEPT ![v] = IF specTmp THEN NoVerb ELSE [@ EXCEPT !.at = "broken"]]
  /\ UNCHANGED <<daemonProc, browser, pageVars, world>>

-----------------------------------------------------------------------------
\* The kernel runs the daemon of an active proc; it listens, then warms the browser.
StartDaemon ==
  /\ daemonProc = "active" /\ daemon = "down"
  /\ daemon' = "up" /\ chrome' = "closing"
  /\ UNCHANGED <<browseDir, pageVars, verb, world>>

\* Its deadline, or a restart of the kernel, stops it; or it crashes.
DaemonDies(how) ==
  /\ daemon = "up" /\ BrowseFault
  /\ daemon' = "down" /\ chrome' = "none"
  /\ daemonProc' = IF daemonProc = "none" THEN "none" ELSE how
  /\ pageOf' = [s \in BrowseSlugs |-> NoPage] /\ closedPages' = {}
  /\ chain' = [i \in PageIds |-> <<>>]
  /\ verb' = [v \in Verbs |-> IF InDaemon(verb[v]) THEN Left("failed") ELSE verb[v]]
  /\ UNCHANGED <<specTmp, present>>

\* The owner quits Chrome, or it crashes: disconnected.
ChromeDies ==
  /\ chrome = "alive" /\ BrowseFault /\ chrome' = "none"
  /\ closedPages' = closedPages \cup Referred
  /\ verb' = [v \in Verbs |-> IF InDaemon(verb[v]) /\ ~VerbAt(v, "context")
                              THEN [verb[v] EXCEPT !.stale = TRUE] ELSE verb[v]]
  /\ UNCHANGED <<browseDir, daemon, pageOf, chain, present>>

\* A subagent is resolved, which counts against the bound; its slug is used again.
SlugGoes(s) ==
  /\ s \in present /\ BrowseFault /\ present' = present \ {s}
  /\ UNCHANGED <<browseDir, browser, pageVars, verb>>

SlugReturns(s) ==
  /\ s \notin present /\ present' = present \cup {s}
  /\ UNCHANGED <<browseDir, browser, pageVars, verb, browseFaults>>

RunVerb(v) ==
  \/ ReadDaemonStatus(v) \/ ReapDaemon(v) \/ SpawnDaemon(v) \/ PollDaemon(v)
  \/ SendVerb(v) \/ EndVerb(v) \/ GetContext(v) \/ PrunePage(v) \/ ForgetPage(v)
  \/ GetPage(v) \/ Handle(v) \/ NewPage(v) \/ EndAct(v) \/ ClosePage(v) \/ EndClose(v)
  \/ ReadDeadline(v) \/ WriteDeadline(v) \/ ReplaceSpec(v)

BrowseNext ==
  \/ \E v \in Verbs : RunVerb(v) \/ ActFails(v) \/ \E s \in BrowseSlugs : BeginVerb(v, s)
  \/ StartBrowser \/ StartDaemon
  \/ LaunchFails \/ ChromeDies \/ \E how \in {"active", "stopped"} : DaemonDies(how)
  \/ \E s \in BrowseSlugs : SlugGoes(s) \/ SlugReturns(s)

BrowseSpec == BrowseInit /\ [][BrowseNext]_browseVars

-----------------------------------------------------------------------------
=============================================================================
