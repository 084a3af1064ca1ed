------------------------------ MODULE Packages ------------------------------
(***************************************************************************)
(* paiman install and remove: bundles are copied from the registry into    *)
(* /opt/paiman and activated by a link or a shim, dependencies first; an   *)
(* installed dependency is left alone only when its files are those of the *)
(* registry.  Commands are processes and may overlap or be killed.         *)
(***************************************************************************)
EXTENDS Integers, Sequences, SequencesExt

CONSTANTS Bundles,          \* the bundles of the registry
          DepsOf,           \* per bundle: the sequence of its deps
          PaiBundles,       \* those of kind pai
          Managers,         \* where paiman commands run, one at a time in each
          MaxPaimanRuns,    \* bound: commands started
          MaxEdits,         \* bound: edits of the registry
          MaxPaimanFaults   \* bound: lookups that fail, hooks that alter a file, kills

ASSUME PackagesAssumption == DepsOf \in [Bundles -> Seq(Bundles)]

VARIABLES
  registry,   \* per bundle: the version in the registry
  staged,     \* per bundle: what /opt/paiman holds: a version, or one of the three below
  copier,     \* per bundle: who made that directory
  slot,       \* the activated bundles
  paiman,     \* per manager: its command
  paimanRuns, edits, paimanFaults

pkgVars == <<registry, staged, copier, slot, paiman, paimanRuns, edits, paimanFaults>>
pkgCounts == <<paimanRuns, edits, paimanFaults>>

Absent == -1   \* no directory, or one without a package.yaml
Partly == -2   \* a copy that is not complete
Hooked == -3   \* complete, and an install hook has changed a file the registry ships
NoRun  == [op |-> "none"]
Frame(b) == [bundle |-> b, left |-> DepsOf[b], at |-> "deps"]

PkgInit ==
  /\ registry = [b \in Bundles |-> 0]
  /\ staged = [b \in Bundles |-> Absent] /\ copier = [b \in Bundles |-> "nobody"]
  /\ slot = {} /\ paiman = [p \in Managers |-> NoRun]
  /\ paimanRuns = 0 /\ edits = 0 /\ paimanFaults = 0

-----------------------------------------------------------------------------
Overlap == \E p \in Managers : paiman[p] # NoRun

\* A command that overlaps another, or whose lookup failed, is not clean; nor are those
\* it overlaps.
BeginPaiman(p, cmd) ==
  /\ paiman[p] = NoRun /\ paimanRuns < MaxPaimanRuns /\ paimanRuns' = paimanRuns + 1
  /\ paiman' = [q \in Managers |->
       IF q = p THEN cmd
       ELSE IF paiman[q] = NoRun THEN NoRun ELSE [paiman[q] EXCEPT !.clean = FALSE]]

EndPaiman(p) == paiman' = [paiman EXCEPT ![p] = NoRun]
Installs(p)  == paiman[p].op = "install"
Top(p)       == Last(paiman[p].stack)
TopAt(p, at) == Installs(p) /\ Top(p).at = at
SetTop(p, frame) == paiman' = [paiman EXCEPT ![p].stack = Append(Front(@), frame)]
Turn(p, at)  == SetTop(p, [Top(p) EXCEPT !.at = at])
Fault        == paimanFaults < MaxPaimanFaults /\ paimanFaults' = paimanFaults + 1

\* cmd_install of a name, a path or a url the registry resolves.
BeginInstall(p, b) ==
  /\ BeginPaiman(p, [op |-> "install", root |-> b, stack |-> <<Frame(b)>>, seen |-> {b},
                     clean |-> ~Overlap])
  /\ UNCHANGED <<registry, staged, copier, slot, edits, paimanFaults>>

-----------------------------------------------------------------------------
\* Installed is taken for current.
MutStale(d) == staged[d] = Absent

\* _installed_copy_stale: a file the registry owns is missing or differs.
Stale(d) == staged[d] # registry[d]

SkipDep(p) == [Top(p) EXCEPT !.left = Tail(@)]

\* The next dep: left alone when its copy is the registry's, else installed first; one
\* whose source this command has already visited is taken for a cycle.
NextDep(p) ==
  /\ TopAt(p, "deps") /\ Top(p).left # <<>>
  /\ LET d == Head(Top(p).left)
     IN  IF ~Stale(d)
         THEN SetTop(p, SkipDep(p))
         ELSE IF d \in paiman[p].seen
         THEN EndPaiman(p)
         ELSE paiman' = [paiman EXCEPT ![p].stack = Append(Append(Front(@), SkipDep(p)), Frame(d)),
                                       ![p].seen = @ \cup {d}]
  /\ UNCHANGED <<registry, staged, copier, slot, pkgCounts>>

\* lookup fails: an installed copy is kept, with a warning; without one it is an error.
DepNotFound(p) ==
  /\ TopAt(p, "deps") /\ Top(p).left # <<>> /\ Fault
  /\ IF staged[Head(Top(p).left)] # Absent
     THEN paiman' = [paiman EXCEPT ![p].stack = Append(Front(@), SkipDep(p)), ![p].clean = FALSE]
     ELSE EndPaiman(p)
  /\ UNCHANGED <<registry, staged, copier, slot, paimanRuns, edits>>

\* rmtree of what is there; then copytree, which refuses a directory that exists.
ClearStaging(p) ==
  /\ TopAt(p, "deps") /\ Top(p).left = <<>>
  /\ staged' = [staged EXCEPT ![Top(p).bundle] = Absent]
  /\ Turn(p, "copy")
  /\ UNCHANGED <<registry, copier, slot, pkgCounts>>

BeginCopy(p) ==
  LET b == Top(p).bundle
  IN  /\ TopAt(p, "copy")
      /\ IF staged[b] # Absent
         THEN EndPaiman(p) /\ UNCHANGED <<staged, copier>>
         ELSE /\ staged' = [staged EXCEPT ![b] = Partly] /\ copier' = [copier EXCEPT ![b] = p]
              /\ Turn(p, "copying")
      /\ UNCHANGED <<registry, slot, pkgCounts>>

EndCopy(p) ==
  LET b == Top(p).bundle
  IN  /\ TopAt(p, "copying")
      /\ IF staged[b] = Partly /\ copier[b] = p
         THEN staged' = [staged EXCEPT ![b] = registry[b]] /\ Turn(p, "activate")
         ELSE EndPaiman(p) /\ UNCHANGED staged
      /\ UNCHANGED <<registry, copier, slot, pkgCounts>>

\* _activation_slot, and a shim for a bin, a link for the rest.
Activate(p) ==
  /\ TopAt(p, "activate")
  /\ slot' = slot \cup {Top(p).bundle}
  /\ Turn(p, "hooks")
  /\ UNCHANGED <<registry, staged, copier, pkgCounts>>

Pop(p) == IF Len(paiman[p].stack) = 1 THEN EndPaiman(p)
          ELSE paiman' = [paiman EXCEPT ![p].stack = Front(@)]

\* Install hooks; one that fails does not end the install.
RunHooks(p) ==
  /\ TopAt(p, "hooks") /\ Pop(p)
  /\ UNCHANGED <<registry, staged, copier, slot, pkgCounts>>

HookAlters(p) ==
  /\ TopAt(p, "hooks") /\ Fault /\ staged[Top(p).bundle] # Absent
  /\ staged' = [staged EXCEPT ![Top(p).bundle] = Hooked]
  /\ Pop(p)
  /\ UNCHANGED <<registry, copier, slot, paimanRuns, edits>>

-----------------------------------------------------------------------------
\* _bundles_depending_on: only bundles of kind pai hold a dep back.
Dependents(b) == {c \in PaiBundles \ {b} : staged[c] # Absent /\ Contains(DepsOf[c], b)}

BeginRemove(p, b, force) ==
  /\ staged[b] # Absent /\ (force \/ Dependents(b) = {})
  /\ BeginPaiman(p, [op |-> "unlink", root |-> b, clean |-> ~Overlap])
  /\ UNCHANGED <<registry, staged, copier, slot, edits, paimanFaults>>

\* cmd_remove: the slot, then the directory.
Unlink(p) ==
  /\ paiman[p].op = "unlink"
  /\ slot' = slot \ {paiman[p].root}
  /\ paiman' = [paiman EXCEPT ![p].op = "rmtree"]
  /\ UNCHANGED <<registry, staged, copier, pkgCounts>>

RemoveStaging(p) ==
  /\ paiman[p].op = "rmtree"
  /\ staged' = [staged EXCEPT ![paiman[p].root] = Absent]
  /\ EndPaiman(p)
  /\ UNCHANGED <<registry, copier, slot, pkgCounts>>

EditRegistry(b) ==
  /\ ~Overlap /\ edits < MaxEdits /\ edits' = edits + 1
  /\ registry' = [registry EXCEPT ![b] = @ + 1]
  /\ UNCHANGED <<staged, copier, slot, paiman, paimanRuns, paimanFaults>>

KillPaiman(p) ==
  /\ paiman[p] # NoRun /\ Fault /\ EndPaiman(p)
  /\ UNCHANGED <<registry, staged, copier, slot, paimanRuns, edits>>

PkgNext ==
  \/ \E p \in Managers :
       \/ \E b \in Bundles :
            BeginInstall(p, b) \/ \E force \in BOOLEAN : BeginRemove(p, b, force)
       \/ NextDep(p) \/ DepNotFound(p) \/ ClearStaging(p) \/ BeginCopy(p) \/ EndCopy(p)
       \/ Activate(p) \/ RunHooks(p) \/ HookAlters(p)
       \/ Unlink(p) \/ RemoveStaging(p) \/ KillPaiman(p)
  \/ \E b \in Bundles : EditRegistry(b)

PkgSpec == PkgInit /\ [][PkgNext]_pkgVars

-----------------------------------------------------------------------------
Current(b) == staged[b] \in {registry[b], Hooked}

\* When an install that nothing disturbed ends well, every bundle it installed and every dep
\* of these is a complete copy of what the registry ships, whatever earlier installs left
\* half-done (_install_from_source: "Exists" is not "current").
InstallIsCurrent ==
  [][\A p \in Managers :
       /\ TopAt(p, "hooks") /\ paiman'[p] = NoRun /\ paiman[p].clean
       /\ paimanFaults' = paimanFaults
       => \A b \in paiman[p].seen : \A x \in {b} \cup ToSet(DepsOf[b]) : Current(x)]_pkgVars
=============================================================================
