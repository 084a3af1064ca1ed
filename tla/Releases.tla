------------------------------ MODULE Releases ------------------------------
(***************************************************************************)
(* pai update on an installed release (bin/pai/pai.py): the published      *)
(* tarball replaces opt/pai/<version>, paifs-init wires the root to it, and *)
(* markers record what was installed; --rollback goes to the newest other   *)
(* version, --no-reprovision only stages.  A command may die at any step,   *)
(* and a new build may be published at any time, under the same version     *)
(* or a new one.                                                            *)
(***************************************************************************)
EXTENDS Naturals, Sequences, FiniteSets

CONSTANTS VersionOf,          \* the version of each build, in the order they are published
          MaxUpdates,         \* bound on update commands
          MaxUpdateFaults     \* bound on commands that die

Builds   == 1..Len(VersionOf)
VersionNames == {VersionOf[b] : b \in Builds}
NoBuild  == 0

ASSUME ReleasesAssumption == VersionOf \in Seq(VersionNames) /\ VersionOf # <<>>

Linked   == {"sources", "docs"}       \* links into a version's directory
Built    == {"venv", "shims"}         \* made from a build
NoUpdate     == [at |-> "idle", ver |-> VersionOf[1], sha |-> NoBuild, build |-> NoBuild,
             staged |-> FALSE, back |-> FALSE]

VARIABLES published,    \* the build the release server has
          trees,        \* opt/pai/<version>: the build it holds, or none
          torn,         \* versions whose directory is not whole
          age,          \* the versions there are, newest first
          current,      \* what opt/pai/current links to
          marker,       \* var/lib/.release
          shaMarker,    \* var/lib/.release.sha256, by the build it is the sum of
          links, made,  \* what paifs-init wired: versions, and builds
          update,       \* the command that runs
          claim,        \* "current" while a command has just said so, having read a sum
          unsettled,    \* a rollback is under way or died, or an update was only staged
          updates, updateFaults

releaseVars == <<published, trees, torn, age, current, marker, shaMarker, links, made, update,
                 claim, unsettled, updates, updateFaults>>
tree        == <<trees, torn, age>>
markers     == <<marker, shaMarker>>
wiring      == <<links, made>>
counts      == <<updates, updateFaults>>

ReleaseInit ==
  /\ published = 1 /\ trees = [v \in VersionNames |-> IF v = VersionOf[1] THEN 1 ELSE NoBuild]
  /\ torn = {} /\ age = <<VersionOf[1]>> /\ current = VersionOf[1]
  /\ marker = VersionOf[1] /\ shaMarker \in {1, NoBuild}
  /\ links = [p \in Linked |-> VersionOf[1]] /\ made = [p \in Built |-> 1]
  /\ update = NoUpdate /\ claim = "none" /\ unsettled = FALSE /\ updates = 0 /\ updateFaults = 0

Publish ==
  /\ published < Len(VersionOf) /\ published' = published + 1
  /\ UNCHANGED <<tree, current, markers, wiring, update, claim, unsettled, counts>>

-----------------------------------------------------------------------------
Newest(v)   == <<v>> \o SelectSeq(age, LAMBDA w : w # v)
GoesTo(place) == update' = [update EXCEPT !.at = place]

\* cmd_update: the marker, the published version.
BeginUpdate(staged) ==
  /\ update = NoUpdate /\ updates < MaxUpdates /\ updates' = updates + 1 /\ claim' = "none"
  /\ update' = [NoUpdate EXCEPT !.at = "sum", !.ver = VersionOf[published], !.staged = staged]
  /\ UNCHANGED <<published, tree, current, markers, wiring, unsettled, updateFaults>>

\* _latest_release_sha: no answer counts as no sum.
ReadSum ==
  /\ update.at = "sum"
  /\ \/ update' = [update EXCEPT !.at = "compare", !.sha = published]
     \/ update' = [update EXCEPT !.at = "compare"]
  /\ UNCHANGED <<published, tree, current, markers, wiring, claim, unsettled, counts>>

\* The version alone.
MutUpToDate == update.ver = marker

\* _tarball_up_to_date.
UpToDate == update.ver = marker /\ update.sha \in {NoBuild, shaMarker}

AlreadyLatest ==
  /\ update.at = "compare" /\ UpToDate
  /\ update' = NoUpdate
  /\ claim' = IF update.sha = NoBuild THEN "none" ELSE "current"
  /\ UNCHANGED <<published, tree, current, markers, wiring, unsettled, counts>>

\* _download_and_extract, the tarball: its sum is checked, if there is one now or was before.
Download ==
  /\ update.at = "compare" /\ ~UpToDate
  /\ update.sha \in {NoBuild, published}
  /\ update' = [update EXCEPT !.at = "clear", !.build = published]
  /\ UNCHANGED <<published, tree, current, markers, wiring, claim, unsettled, counts>>

\* The version's directory is removed, be it the one in use, and made anew.
ClearTree ==
  /\ update.at = "clear" /\ GoesTo("extract")
  /\ torn' = torn \cup {update.ver} /\ trees' = [trees EXCEPT ![update.ver] = update.build]
  /\ age' = Newest(update.ver)
  /\ UNCHANGED <<published, current, markers, wiring, claim, unsettled, counts>>

Extract ==
  /\ update.at = "extract" /\ GoesTo(IF update.staged THEN "repoint" ELSE "sync")
  /\ torn' = torn \ {update.ver}
  /\ UNCHANGED <<published, trees, age, current, markers, wiring, claim, unsettled, counts>>

\* --rollback: the newest other version.
BeginRollback ==
  /\ update = NoUpdate /\ updates < MaxUpdates /\ updates' = updates + 1 /\ claim' = "none"
  /\ LET prior == SelectSeq(age, LAMBDA v : v # marker)
     IN  /\ prior # <<>>
         /\ update' = [NoUpdate EXCEPT !.at = "sync", !.ver = Head(prior), !.back = TRUE,
                                   !.build = trees[Head(prior)]]
  /\ UNCHANGED <<published, tree, current, markers, wiring, unsettled, updateFaults>>

-----------------------------------------------------------------------------
\* _reprovision_tarball: uv sync, then paifs-init, run from the version's directory.
SyncEnv ==
  /\ update.at = "sync" /\ GoesTo("sources")
  /\ unsettled' = (unsettled \/ update.back)
  /\ UNCHANGED <<published, tree, current, markers, wiring, claim, counts>>

\* lay_out: one part after the other is wired to it.
WireLinks(p, next) ==
  /\ update.at = p /\ GoesTo(next) /\ links' = [links EXCEPT ![p] = update.ver]
  /\ UNCHANGED <<published, tree, current, markers, made, claim, unsettled, counts>>

LinkSources == WireLinks("sources", "docs")
LinkDocs    == WireLinks("docs", "venv")

MakeFrom(p, next) ==
  /\ update.at = p /\ GoesTo(next) /\ made' = [made EXCEPT ![p] = update.build]
  /\ UNCHANGED <<published, tree, current, markers, links, claim, unsettled, counts>>

BuildVenv    == MakeFrom("venv", "shims")
InstallShims == MakeFrom("shims", "seed")

\* seed_kernel_essentials installs what is missing; the root is wired.
SeedEssentials ==
  /\ update.at = "seed" /\ GoesTo("repoint") /\ unsettled' = update.back
  /\ UNCHANGED <<published, tree, current, markers, wiring, claim, counts>>

-----------------------------------------------------------------------------
\* _repoint_current.
RepointCurrent ==
  /\ update.at = "repoint" /\ GoesTo("marker") /\ current' = update.ver
  /\ unsettled' = (unsettled \/ update.staged)
  /\ UNCHANGED <<published, tree, markers, wiring, claim, counts>>

WriteMarker ==
  /\ update.at = "marker" /\ GoesTo("record") /\ marker' = update.ver
  /\ UNCHANGED <<published, tree, current, shaMarker, wiring, claim, unsettled, counts>>

\* The sum of what was downloaded; none after a rollback.
RecordSum ==
  /\ update.at = "record" /\ GoesTo("gc")
  /\ shaMarker' = IF update.back THEN NoBuild ELSE update.build
  /\ unsettled' = (unsettled /\ ~update.back)
  /\ UNCHANGED <<published, tree, current, marker, wiring, claim, counts>>

\* _gc_versions: the two newest stay, and the current one.  A rollback removes nothing.
EndUpdate ==
  /\ update.at = "gc" /\ update' = NoUpdate
  /\ claim' = IF update.back THEN "none" ELSE "current"
  /\ LET keep == {age[i] : i \in DOMAIN age \cap 1..2} \cup {current}
     IN  IF update.back THEN UNCHANGED tree
         ELSE /\ age' = SelectSeq(age, LAMBDA v : v \in keep)
              /\ trees' = [v \in VersionNames |-> IF v \in keep THEN trees[v] ELSE NoBuild]
              /\ torn' = torn \cap keep
  /\ UNCHANGED <<published, current, markers, wiring, unsettled, counts>>

\* The command fails or is killed; a current that was unlinked stays so until the next one.
UpdateDies ==
  /\ update # NoUpdate /\ update' = NoUpdate
  /\ updateFaults < MaxUpdateFaults /\ updateFaults' = updateFaults + 1
  /\ UNCHANGED <<published, tree, current, markers, wiring, claim, unsettled, updates>>

ReleaseNext ==
  \/ Publish \/ (\E staged \in BOOLEAN : BeginUpdate(staged)) \/ BeginRollback
  \/ ReadSum \/ AlreadyLatest \/ Download \/ ClearTree \/ Extract
  \/ SyncEnv \/ LinkSources \/ LinkDocs \/ BuildVenv \/ InstallShims \/ SeedEssentials
  \/ RepointCurrent \/ WriteMarker \/ RecordSum \/ EndUpdate \/ UpdateDies

ReleaseSpec == ReleaseInit /\ [][ReleaseNext]_releaseVars

-----------------------------------------------------------------------------
\* When pai update says that the root is on the latest release, having just installed it or
\* having compared the published sum with the recorded one, the release's directory is
\* whole and everything paifs-init wires is wired to it, whatever updates died before; but
\* for a rollback that died after it began to rewire the root and an update that was only
\* staged (_cmd_update_tarball, _rollback_tarball: "re-syncs rather than trusting a sha
\* from the rolled-forward version").
CurrentIsWhole ==
  claim = "current" /\ ~unsettled =>
    /\ marker \notin torn /\ trees[marker] # NoBuild /\ current = marker
    /\ \A p \in Linked : links[p] = marker
    /\ \A p \in Built : made[p] = trees[marker]
=============================================================================
