---------------------------- MODULE SystemProofs ----------------------------
(***************************************************************************)
(* The commands that keep a root going: no kernel outlives its console     *)
(* (NoKernelSurvives), what pai update calls current is whole              *)
(* (CurrentIsWhole), and paifs-init keeps what PAIs wrote (DocsAreKept),   *)
(* for any number of kernels, builds, releases, documents and deaths.      *)
(***************************************************************************)
EXTENDS Console, Releases, BuiltDocs, TLAPS

-----------------------------------------------------------------------------
(* The console.                                                            *)

ConsoleTypeOK ==
  /\ console \in {"down", "starting", "serving", "ending", "adopted"}
  /\ {child, adopted, handed, lock} \subseteq Pids \cup {NoPid}
  /\ kernelAt \in [Pids -> {"none", "starting", "running", "wedged", "gone"}]
  /\ restartAsked \in BOOLEAN /\ forsaken \subseteq Pids /\ kernelFaults \in Nat

\* Where the console knows a kernel from, in each of its states.
Known == CASE console = "starting" -> {handed}
           [] console \in {"serving", "ending"} -> {child, adopted}
           [] console = "adopted" -> {adopted}
           [] OTHER -> {}

\* A kernel that is up is known to the console, or was forsaken.
KernelsAreKnown ==
  /\ \A p \in Pids : Up(p) => p \in Known \cup forsaken
  /\ console # "starting" => handed = NoPid

ConsoleInv == ConsoleTypeOK /\ KernelsAreKnown

-----------------------------------------------------------------------------
(* The releases.                                                           *)

Places == {"idle", "sum", "compare", "clear", "extract", "sync", "sources", "docs", "venv", "shims",
           "seed", "repoint", "marker", "record", "gc"}

\* The places a command that installs has yet to come to, once it is in one of them.
Marked    == {"record", "gc"}
Pointed   == {"marker"} \cup Marked
Staged    == {"repoint"} \cup Pointed
Shimmed   == {"seed"} \cup Staged
Venved    == {"shims"} \cup Shimmed
Docked    == {"venv"} \cup Venved
Sourced   == {"docs"} \cup Docked
Extracted == {"sync", "sources"} \cup Sourced
Cleared   == {"extract"} \cup Extracted
Installs  == ~update.back

ReleaseTypeOK ==
  /\ published \in Builds /\ shaMarker \in 0..published
  /\ trees = [v \in VersionNames |-> trees[v]]
  /\ links = [p \in Linked |-> links[p]] /\ made = [p \in Built |-> made[p]]
  /\ update = [at |-> update.at, ver |-> update.ver, sha |-> update.sha, build |-> update.build,
               staged |-> update.staged, back |-> update.back]
  /\ update.at \in Places /\ update.staged \in BOOLEAN /\ update.back \in BOOLEAN
  /\ update.at = "idle" => update = NoUpdate
  /\ update.sha \in 0..published
  /\ Installs => update.ver \in VersionNames
  /\ claim \in {"none", "current"} /\ unsettled \in BOOLEAN

\* The next pai update that learns the published sum will not say that all is well.
Stale == published > shaMarker \/ VersionOf[published] # marker

Whole ==
  /\ marker \in VersionNames \ torn /\ trees[marker] # NoBuild /\ current = marker
  /\ \A p \in Linked : links[p] = marker
  /\ \A p \in Built : made[p] = trees[marker]

\* Before a command changes anything, and after it died: if the recorded sum is the published
\* one under the version of the marker, everything is whole.
SumIsTrue ==
  /\ update.at \in {"idle", "sum", "compare"} \/ (update.back /\ update.at = "sync") =>
       Stale \/ unsettled \/ Whole
  /\ update.at \in {"sum", "compare"} =>
       Installs /\ (update.ver = VersionOf[published] \/ published > shaMarker)
  /\ update.at = "sum" => update.sha = NoBuild
  /\ update.at = "compare" /\ update.sha # NoBuild /\ update.sha = shaMarker /\ update.ver = marker =>
       unsettled \/ Whole

\* What an installing command has done, place by place; until the marker moves the recorded sum
\* is stale.
InstallsInOrder ==
  Installs =>
    /\ update.at \in ({"clear"} \cup Cleared) \ Marked => Stale
    /\ update.at \in {"clear"} \cup Cleared => update.build \in 1..published
    /\ update.at \in Cleared => trees[update.ver] = update.build
    /\ update.at \in Extracted => update.ver \notin torn
    /\ update.staged => /\ update.at \notin Extracted \ Staged
                        /\ update.at \in Pointed => unsettled
    /\ ~update.staged =>
         /\ update.at \in Sourced => links["sources"] = update.ver
         /\ update.at \in Docked  => links["docs"] = update.ver
         /\ update.at \in Venved  => made["venv"] = update.build
         /\ update.at \in Shimmed => made["shims"] = update.build
    /\ update.at \in Pointed => current = update.ver
    /\ update.at \in Marked  => marker = update.ver

\* A rollback that began to rewire the root has not settled before it forgot the sum.
RollbackForgets ==
  update.back => /\ update.at \in Extracted
                 /\ update.at \in ({"sources"} \cup Sourced) \ {"gc"} => unsettled
                 /\ update.at = "gc" => shaMarker = NoBuild

ClaimIsTrue == claim = "current" => update = NoUpdate /\ (unsettled \/ Whole)

ReleaseInv == ReleaseTypeOK /\ SumIsTrue /\ InstallsInOrder /\ RollbackForgets /\ ClaimIsTrue

-----------------------------------------------------------------------------
(* The documents.                                                          *)

Slots == {"none", "dir"} \cup Releases
Pages == [Docs -> Contents \cup {NoDoc}]

DocsTypeOK ==
  /\ docSlot \in Slots /\ built \in {"none", "link", "real"}
  /\ durable \in Pages /\ stray \in [Releases \cup {Here} -> Pages]
  /\ kept \subseteq Releases /\ (docSlot \in Releases => docSlot \in kept)
  /\ run \in [at : {"idle", "rescue", "unlink", "wire", "wipe", "copy", "again", "expose"},
              mode : {"none", "checkout", "bundle"}, todo : SUBSET Docs]
  /\ run.at = "idle" => run = NoLayout
  /\ owed \subseteq Docs \X Contents /\ excused \subseteq Docs \X (Contents \cup {NoDoc})

\* A directory of documents at usr/share/doc/built itself is never behind a link; only the bundle's
\* run wipes.
StrayIsReal ==
  /\ stray[Here] # Empty => docSlot = "dir" /\ built = "real"
  /\ docSlot # "dir" => built = "none"
  /\ run.at \in {"wire", "copy", "again"} => docSlot \notin Releases
  /\ run.at = "wipe" => run.mode = "bundle"

\* What was at usr/share/doc/built is safe, or was excused.
Rescued(d) ==
  LET x == <<d, stray[Legacy][d]>> IN x \in owed => x \in excused \/ durable[d] = x[2]

\* Before a run takes away where the documents were, all it has listed are rescued.
RescueFirst ==
  run.at \in {"rescue", "unlink", "wipe"} /\ (run.mode = "bundle" \/ docSlot \in Releases) =>
    /\ \A d \in Docs \ run.todo : Rescued(d)
    /\ run.at # "rescue" => run.todo = {}

\* What is owed is in the durable directory or where usr/share/doc/built leads, and not in a
\* release that was left.
OwedIsReached ==
  \A x \in owed : \/ x \in excused \/ durable[x[1]] = x[2] \/ stray[Here][x[1]] = x[2]
                  \/ docSlot \in Releases /\ stray[docSlot][x[1]] = x[2]

DocsInv == DocsTypeOK /\ StrayIsReal /\ RescueFirst /\ OwedIsReached

-----------------------------------------------------------------------------
(* No kernel survives.                                                     *)

LEMMA ConsoleStarts == ConsoleInit => ConsoleInv
<1> SUFFICES ASSUME ConsoleInit PROVE ConsoleInv
  OBVIOUS
<1>1. kernelAt \in [Pids -> {"none", "starting", "running", "wedged", "gone"}]
  BY DEF ConsoleInit
<1>2. ConsoleTypeOK
  BY <1>1 DEF ConsoleInit, ConsoleTypeOK
<1>3. KernelsAreKnown
  BY DEF ConsoleInit, KernelsAreKnown, Up
<1> QED
  BY <1>2, <1>3 DEF ConsoleInv

\* A kernel that ends, takes the lock or meets it again is still known if it is still up.
LEMMA KernelSteps ==
  ASSUME ConsoleInv, NEW p \in Pids, NEW state \in {"starting", "running", "wedged", "gone"},
         Up(p), kernelAt' = [kernelAt EXCEPT ![p] = state], UNCHANGED <<console, holding, forsaken>>,
         lock' \in Pids \cup {NoPid}, restartAsked' \in BOOLEAN, kernelFaults' \in Nat
  PROVE  ConsoleInv'
<1>1. ConsoleTypeOK'
  BY DEF ConsoleInv, ConsoleTypeOK, holding
<1>2. ASSUME NEW q \in Pids, Up(q)' PROVE Up(q)
  BY <1>2 DEF Up, ConsoleInv, ConsoleTypeOK
<1>3. Known' = Known
  BY DEF Known, holding
<1>4. KernelsAreKnown'
  BY <1>2, <1>3 DEF ConsoleInv, KernelsAreKnown, holding
<1> QED
  BY <1>1, <1>4 DEF ConsoleInv

LEMMA KernelsKeep ==
  ASSUME ConsoleInv,
         \/ \E p \in Pids : TakeLock(p) \/ GiveWay(p) \/ KernelFails(p) \/ KernelRestarts(p)
         \/ AskRestart
  PROVE  ConsoleInv'
<1>1. \A p \in Pids : p # NoPid
  BY DEF Pids, NoPid
<1>2. ASSUME NEW p \in Pids, TakeLock(p) \/ GiveWay(p) \/ KernelFails(p) \/ KernelRestarts(p)
      PROVE  ConsoleInv'
  <2>1. Up(p)
    BY <1>1, <1>2 DEF Up, TakeLock, GiveWay, KernelFails, KernelRestarts
  <2>2. \E state \in {"starting", "running", "wedged", "gone"} :
          kernelAt' = [kernelAt EXCEPT ![p] = state]
    BY <1>2 DEF TakeLock, GiveWay, KernelFails, KernelRestarts
  <2>3. UNCHANGED <<console, holding, forsaken>>
    BY <1>2 DEF TakeLock, GiveWay, KernelFails, KernelRestarts
  <2>4. lock' \in Pids \cup {NoPid}
    BY <1>2 DEF TakeLock, GiveWay, KernelFails, KernelRestarts, ConsoleInv, ConsoleTypeOK
  <2>5. restartAsked' \in BOOLEAN
    BY <1>2 DEF TakeLock, GiveWay, KernelFails, KernelRestarts, ConsoleInv, ConsoleTypeOK
  <2>6. kernelFaults' \in Nat
    BY <1>2 DEF TakeLock, GiveWay, KernelFails, KernelRestarts, ConsoleInv, ConsoleTypeOK
  <2> QED
    BY <2>1, <2>2, <2>3, <2>4, <2>5, <2>6, KernelSteps
<1>3. CASE AskRestart
  BY <1>3 DEF AskRestart, ConsoleInv, ConsoleTypeOK, KernelsAreKnown, Known, Up, holding
<1> QED
  BY <1>2, <1>3

LEMMA StartConsoleKeeps == ASSUME ConsoleInv, StartConsole PROVE ConsoleInv'
<1>1. PICK p \in Pids : child' = p /\ kernelAt' = [kernelAt EXCEPT ![p] = "starting"]
  BY DEF StartConsole
<1>2. /\ console \in {"down", "starting"} /\ (console = "down" => \A q \in Pids : ~Up(q))
      /\ adopted' = (IF Up(handed) THEN handed ELSE NoPid)
      /\ handed' = NoPid /\ console' = "serving" /\ UNCHANGED <<lock, restartAsked, forsaken, kernelFaults>>
  BY DEF StartConsole
<1>3. ConsoleTypeOK'
  <2>1. adopted' \in Pids \cup {NoPid}
    BY <1>2 DEF ConsoleInv, ConsoleTypeOK
  <2> QED
    BY <1>1, <1>2, <2>1 DEF ConsoleInv, ConsoleTypeOK
<1>4. ASSUME NEW q \in Pids, Up(q)', q # p PROVE q \in {adopted'} \cup forsaken
  <2>1. Up(q)
    BY <1>1, <1>4 DEF Up, ConsoleInv, ConsoleTypeOK
  <2>2. q \in {handed} \cup forsaken
    BY <1>2, <2>1 DEF ConsoleInv, KernelsAreKnown, Known
  <2> QED
    BY <1>2, <2>1, <2>2
<1>5. Known' = {p, adopted'}
  BY <1>1, <1>2 DEF Known
<1>6. KernelsAreKnown'
  BY <1>2, <1>4, <1>5 DEF KernelsAreKnown
<1> QED
  BY <1>3, <1>6 DEF ConsoleInv

\* An image hands over the kernel it has, or forgets one; one that refuses forgets it too.
LEMMA ImageKeeps == ASSUME ConsoleInv, RefuseStart \/ ReplaceImage \/ EndServing PROVE ConsoleInv'
<1>1. \A q \in Pids : Up(q)' <=> Up(q)
  BY DEF RefuseStart, ReplaceImage, EndServing, Up
<1>2. CASE RefuseStart
  <2>1. /\ console = "starting" /\ console' = "down" /\ handed' = NoPid
        /\ forsaken' = (IF Up(handed) THEN forsaken \cup {handed} ELSE forsaken)
        /\ UNCHANGED <<child, adopted, kernelAt, lock, restartAsked, kernelFaults>>
    BY <1>2 DEF RefuseStart
  <2>2. ConsoleTypeOK'
    BY <2>1 DEF ConsoleInv, ConsoleTypeOK, Up
  <2>3. \A q \in Pids : Up(q) => q = handed \/ q \in forsaken
    BY <2>1 DEF ConsoleInv, KernelsAreKnown, Known
  <2>4. KernelsAreKnown'
    BY <1>1, <2>1, <2>3 DEF KernelsAreKnown
  <2> QED
    BY <2>2, <2>4 DEF ConsoleInv
<1>3. CASE ReplaceImage
  <2>1. /\ console = "serving" /\ console' = "starting" /\ handed' = Live
        /\ child' = NoPid /\ adopted' = NoPid
        /\ forsaken' = (IF Up(child) /\ Up(adopted) THEN forsaken \cup {adopted} ELSE forsaken)
        /\ UNCHANGED <<kernelAt, lock, restartAsked, kernelFaults>>
    BY <1>3 DEF ReplaceImage
  <2>2. ConsoleTypeOK'
    BY <2>1 DEF ConsoleInv, ConsoleTypeOK, Up, Live
  <2>3. \A q \in Pids : Up(q) => q \in {child, adopted} \/ q \in forsaken
    BY <2>1 DEF ConsoleInv, KernelsAreKnown, Known
  <2>4. \A q \in Pids : Up(q) => q = handed' \/ q \in forsaken'
    BY <2>1, <2>3 DEF Live
  <2>5. Known' = {handed'}
    BY <2>1 DEF Known
  <2>6. KernelsAreKnown'
    BY <1>1, <2>1, <2>4, <2>5 DEF KernelsAreKnown
  <2> QED
    BY <2>2, <2>6 DEF ConsoleInv
<1>4. CASE EndServing
  <2>1. console = "serving" /\ console' = "ending" /\ UNCHANGED <<child, adopted, handed, kernelAt, lock,
                                                                  restartAsked, forsaken, kernelFaults>>
    BY <1>4 DEF EndServing, holding
  <2>2. Known' = Known
    BY <2>1 DEF Known
  <2> QED
    BY <1>1, <2>1, <2>2 DEF ConsoleInv, ConsoleTypeOK, KernelsAreKnown
<1> QED
  BY <1>2, <1>3, <1>4

\* What it tears down is not up any more.
LEMMA TearDownKeeps == ASSUME ConsoleInv, EndChild \/ EndAdopted PROVE ConsoleInv'
<1>1. ASSUME NEW p \in Pids \cup {NoPid}, NEW next \in {"adopted", "down"}, TearDown(p, next)
      PROVE  /\ ConsoleTypeOK' /\ console' = next /\ UNCHANGED <<child, adopted, handed, forsaken>>
             /\ \A q \in Pids : Up(q)' => Up(q) /\ q # p
  <2>1. /\ console' = next /\ kernelAt' = (IF Up(p) THEN [kernelAt EXCEPT ![p] = "gone"] ELSE kernelAt)
        /\ lock' = (IF lock = p THEN NoPid ELSE lock)
        /\ UNCHANGED <<child, adopted, handed, restartAsked, forsaken, kernelFaults>>
    BY <1>1 DEF TearDown, holding
  <2>2. CASE Up(p)
    <3>1. p \in Pids
      BY <2>2 DEF Up
    <3>2. kernelAt' = [kernelAt EXCEPT ![p] = "gone"]
      BY <2>1, <2>2
    <3>3. \A q \in Pids : Up(q)' => Up(q) /\ q # p
      BY <3>1, <3>2 DEF Up, ConsoleInv, ConsoleTypeOK
    <3> QED
      BY <2>1, <3>2, <3>3 DEF ConsoleInv, ConsoleTypeOK
  <2>3. CASE ~Up(p)
    <3>1. \A q \in Pids : Up(q)' => Up(q) /\ q # p
      BY <2>1, <2>3 DEF Up
    <3> QED
      BY <2>1, <2>3, <3>1 DEF ConsoleInv, ConsoleTypeOK
  <2> QED
    BY <2>2, <2>3
<1>2. {child, adopted} \subseteq Pids \cup {NoPid}
  BY DEF ConsoleInv, ConsoleTypeOK
<1>3. CASE EndChild
  <2>1. /\ console = "ending" /\ console' = "adopted" /\ ConsoleTypeOK'
        /\ UNCHANGED <<child, adopted, handed, forsaken>> /\ \A q \in Pids : Up(q)' => Up(q) /\ q # child
    BY <1>1, <1>2, <1>3 DEF EndChild
  <2>2. Known = {child, adopted} /\ Known' = {adopted}
    BY <2>1 DEF Known
  <2> QED
    BY <2>1, <2>2 DEF ConsoleInv, KernelsAreKnown
<1>4. CASE EndAdopted
  <2>1. /\ console = "adopted" /\ console' = "down" /\ ConsoleTypeOK'
        /\ UNCHANGED <<child, adopted, handed, forsaken>> /\ \A q \in Pids : Up(q)' => Up(q) /\ q # adopted
    BY <1>1, <1>2, <1>4 DEF EndAdopted
  <2>2. Known = {adopted}
    BY <2>1 DEF Known
  <2> QED
    BY <2>1, <2>2 DEF ConsoleInv, KernelsAreKnown
<1> QED
  BY <1>3, <1>4

LEMMA ConsoleStep == ConsoleInv /\ [ConsoleNext]_consoleVars => ConsoleInv'
<1>1. ASSUME ConsoleInv, UNCHANGED consoleVars PROVE ConsoleInv'
  BY <1>1 DEF ConsoleInv, ConsoleTypeOK, KernelsAreKnown, Known, Up, consoleVars
<1> QED
  BY <1>1, KernelsKeep, StartConsoleKeeps, ImageKeeps, TearDownKeeps DEF ConsoleNext

\* When the console has ended, every kernel still up is one it forsook: through any number of
\* kernels, replaced images, restarts and deaths.
THEOREM KernelsEndWithConsole == ConsoleSpec => []NoKernelSurvives
<1>1. ConsoleInv => NoKernelSurvives
  BY DEF ConsoleInv, KernelsAreKnown, Known, NoKernelSurvives
<1> QED
  BY <1>1, ConsoleStarts, ConsoleStep, PTL DEF ConsoleSpec

-----------------------------------------------------------------------------
(* What is called current is whole.                                        *)

LEMMA ReleaseStarts == ReleaseInit => ReleaseInv
<1> SUFFICES ASSUME ReleaseInit PROVE ReleaseInv
  OBVIOUS
<1>1. 1 \in Builds /\ VersionOf[1] \in VersionNames /\ NoBuild = 0
  BY ReleasesAssumption DEF Builds, VersionNames, NoBuild
<1>2. ReleaseTypeOK
  <2>1. trees = [v \in VersionNames |-> trees[v]] /\ links = [p \in Linked |-> links[p]]
    BY DEF ReleaseInit
  <2>2. made = [p \in Built |-> made[p]]
    BY DEF ReleaseInit
  <2>3. /\ update = [at |-> update.at, ver |-> update.ver, sha |-> update.sha, build |-> update.build,
                     staged |-> update.staged, back |-> update.back]
        /\ update.at \in Places /\ update.staged \in BOOLEAN /\ update.back \in BOOLEAN
        /\ update.ver \in VersionNames /\ update.sha = 0
    BY <1>1 DEF ReleaseInit, NoUpdate, Places
  <2>4. claim \in {"none", "current"} /\ unsettled \in BOOLEAN
    BY DEF ReleaseInit
  <2>5. published \in Builds /\ shaMarker \in 0..published /\ 0 \in 0..published
    BY <1>1 DEF ReleaseInit
  <2> QED
    BY <2>1, <2>2, <2>3, <2>4, <2>5 DEF ReleaseTypeOK, ReleaseInit
<1>3. Whole
  BY <1>1 DEF ReleaseInit, Whole
<1>4. SumIsTrue /\ InstallsInOrder /\ RollbackForgets /\ ClaimIsTrue
  BY <1>3 DEF ReleaseInit, NoUpdate, SumIsTrue, InstallsInOrder, RollbackForgets, ClaimIsTrue, Cleared,
              Extracted, Sourced, Docked, Venved, Shimmed, Staged, Pointed, Marked
<1> QED
  BY <1>2, <1>4 DEF ReleaseInv

\* A build published makes the recorded sum stale.
LEMMA PublishKeeps == ASSUME ReleaseInv, Publish PROVE ReleaseInv'
<1>1. /\ published' = published + 1 /\ published' <= Len(VersionOf)
      /\ UNCHANGED <<trees, torn, age, current, marker, shaMarker, links, made, update, claim, unsettled>>
  BY ReleasesAssumption DEF Publish, tree, markers, wiring, counts, ReleaseInv, ReleaseTypeOK, Builds
<1>2. published \in Nat /\ published' \in Builds /\ shaMarker \in Nat /\ published' > shaMarker
  BY <1>1, ReleasesAssumption DEF ReleaseInv, ReleaseTypeOK, Builds
<1>3. 0..published \subseteq 0..published' /\ 1..published \subseteq 1..published'
  BY <1>1, <1>2
<1>4. ReleaseTypeOK'
  BY <1>1, <1>2, <1>3 DEF ReleaseInv, ReleaseTypeOK, Installs
<1>5. Stale' /\ (Whole' <=> Whole)
  BY <1>1, <1>2 DEF Stale, Whole
<1>6. SumIsTrue'
  BY <1>1, <1>2, <1>5 DEF ReleaseInv, SumIsTrue, Installs
<1>7. InstallsInOrder'
  BY <1>1, <1>3, <1>5 DEF ReleaseInv, InstallsInOrder, Installs
<1>8. RollbackForgets' /\ ClaimIsTrue'
  BY <1>1, <1>5 DEF ReleaseInv, RollbackForgets, ClaimIsTrue
<1> QED
  BY <1>4, <1>6, <1>7, <1>8 DEF ReleaseInv

\* Only the place of a command changes.
LEMMA GoesOn ==
  ASSUME ReleaseTypeOK, NEW place \in Places \ {"idle"}, GoesTo(place)
  PROVE  /\ update' = [at |-> update'.at, ver |-> update'.ver, sha |-> update'.sha,
                       build |-> update'.build, staged |-> update'.staged, back |-> update'.back]
         /\ update'.at = place /\ update'.ver = update.ver /\ update'.sha = update.sha
         /\ update'.build = update.build /\ update'.staged = update.staged
         /\ update'.back = update.back /\ (Installs' <=> Installs)
BY DEF ReleaseTypeOK, GoesTo, Installs

\* A command looks at the release server and the markers.
LEMMA ChecksKeep ==
  ASSUME ReleaseInv, (\E staged \in BOOLEAN : BeginUpdate(staged)) \/ ReadSum \/ AlreadyLatest \/ Download
  PROVE  ReleaseInv'
<1> USE DEF Cleared, Extracted, Sourced, Docked, Venved, Shimmed, Staged, Pointed, Marked
<1>1. UNCHANGED <<published, trees, torn, age, current, marker, shaMarker, links, made, unsettled>>
  BY DEF BeginUpdate, ReadSum, AlreadyLatest, Download, tree, markers, wiring
<1>2. /\ published \in Nat /\ published \in Builds /\ shaMarker \in 0..published /\ 0 \in 0..published
      /\ published # 0 /\ published \in 1..published /\ published \in 0..published /\ NoBuild = 0
      /\ VersionOf[published] \in VersionNames
  BY ReleasesAssumption DEF ReleaseInv, ReleaseTypeOK, Builds, VersionNames, NoBuild
<1>3. (Stale' <=> Stale) /\ (Whole' <=> Whole)
  BY <1>1 DEF Stale, Whole
<1>4. CASE \E staged \in BOOLEAN : BeginUpdate(staged)
  <2>1. PICK staged \in BOOLEAN : BeginUpdate(staged)
    BY <1>4
  <2>2. /\ update.at = "idle" /\ claim' = "none"
        /\ update' = [at |-> "sum", ver |-> VersionOf[published], sha |-> 0, build |-> 0,
                      staged |-> staged, back |-> FALSE]
    BY <1>2, <2>1 DEF BeginUpdate, NoUpdate
  <2>3. ReleaseTypeOK'
    BY <1>1, <1>2, <2>2 DEF ReleaseInv, ReleaseTypeOK, Places, Installs
  <2>4. SumIsTrue'
    BY <1>1, <1>2, <1>3, <2>2 DEF ReleaseInv, SumIsTrue, Installs
  <2> QED
    BY <2>2, <2>3, <2>4 DEF ReleaseInv, InstallsInOrder, RollbackForgets, ClaimIsTrue
<1>5. CASE ReadSum
  <2>1. PICK sha \in {update.sha, published} : update' = [update EXCEPT !.at = "compare", !.sha = sha]
    BY <1>5 DEF ReadSum, ReleaseInv, ReleaseTypeOK
  <2>2. /\ update.at = "sum" /\ Installs /\ claim' = claim
        /\ update' = [at |-> "compare", ver |-> update.ver, sha |-> sha, build |-> update.build,
                      staged |-> update.staged, back |-> update.back]
        /\ update.ver = VersionOf[published] \/ published > shaMarker
    BY <1>5, <2>1 DEF ReadSum, ReleaseInv, ReleaseTypeOK, SumIsTrue
  <2>3. ReleaseTypeOK'
    BY <1>1, <1>2, <2>2 DEF ReleaseInv, ReleaseTypeOK, Places, Installs
  <2>4. Stale \/ unsettled \/ Whole
    BY <2>2 DEF ReleaseInv, SumIsTrue
  <2>5. claim' # "current"
    BY <2>2 DEF ReleaseInv, ClaimIsTrue, NoUpdate, ReleaseTypeOK
  <2>6. SumIsTrue'
    <3>1. update.ver = marker /\ shaMarker = published => unsettled \/ Whole
      BY <1>2, <2>2, <2>4 DEF Stale
    <3>2. ASSUME sha = shaMarker, sha # 0, update.ver = marker PROVE unsettled \/ Whole
      <4>1. CASE sha = published
        BY <3>1, <3>2, <4>1
      <4>2. CASE sha = update.sha
        BY <1>2, <1>5, <3>2, <4>2 DEF ReadSum, ReleaseInv, SumIsTrue
      <4> QED
        BY <4>1, <4>2
    <3> QED
      BY <1>1, <1>2, <1>3, <2>2, <2>4, <3>2 DEF SumIsTrue, Installs
  <2> QED
    BY <2>2, <2>3, <2>5, <2>6 DEF ReleaseInv, InstallsInOrder, RollbackForgets, ClaimIsTrue, Installs
<1>6. CASE AlreadyLatest
  <2>1. /\ update.at = "compare" /\ update' = NoUpdate /\ update.ver = marker
        /\ update.sha \in {NoBuild, shaMarker}
        /\ claim' = (IF update.sha = NoBuild THEN "none" ELSE "current")
    BY <1>6 DEF AlreadyLatest, UpToDate
  <2>2. update'.at = "idle" /\ update'.back = FALSE /\ update'.sha = 0 /\ update'.staged = FALSE
        /\ update'.ver = VersionOf[1]
    BY <1>2, <2>1 DEF NoUpdate
  <2>3. VersionOf[1] \in VersionNames
    BY ReleasesAssumption DEF VersionNames, Builds
  <2>4. ReleaseTypeOK'
    BY <1>1, <1>2, <2>1, <2>2, <2>3 DEF ReleaseInv, ReleaseTypeOK, Places, Installs, NoUpdate
  <2>5. claim' = "current" => unsettled \/ Whole
    BY <2>1 DEF ReleaseInv, SumIsTrue
  <2>6. SumIsTrue'
    BY <1>1, <1>3, <2>1, <2>2 DEF ReleaseInv, SumIsTrue, Installs
  <2> QED
    BY <1>1, <1>3, <2>1, <2>2, <2>4, <2>5, <2>6
       DEF ReleaseInv, InstallsInOrder, RollbackForgets, ClaimIsTrue
<1>7. CASE Download
  <2>1. /\ update.at = "compare" /\ ~UpToDate /\ update.sha \in {NoBuild, published}
        /\ update' = [update EXCEPT !.at = "clear", !.build = published] /\ claim' = claim
    BY <1>7 DEF Download
  <2>2. update' = [at |-> "clear", ver |-> update.ver, sha |-> update.sha, build |-> published,
                   staged |-> update.staged, back |-> update.back] /\ Installs
    BY <2>1 DEF ReleaseInv, ReleaseTypeOK, SumIsTrue
  <2>3. ReleaseTypeOK'
    BY <1>1, <1>2, <2>1, <2>2 DEF ReleaseInv, ReleaseTypeOK, Places, Installs
  <2>4. Stale
    <3>1. update.ver = VersionOf[published] \/ published > shaMarker
      BY <2>1 DEF ReleaseInv, SumIsTrue
    <3>2. CASE update.ver # marker
      BY <3>1, <3>2 DEF Stale
    <3>3. CASE update.ver = marker
      <4>1. published # shaMarker
        BY <2>1, <3>3 DEF UpToDate
      <4> QED
        BY <1>2, <4>1 DEF Stale
    <3> QED
      BY <3>2, <3>3
  <2>5. claim' # "current"
    BY <2>1 DEF ReleaseInv, ClaimIsTrue, NoUpdate, ReleaseTypeOK
  <2>6. SumIsTrue' /\ RollbackForgets' /\ ClaimIsTrue'
    BY <2>2, <2>5 DEF SumIsTrue, RollbackForgets, ClaimIsTrue, Installs
  <2>7. InstallsInOrder'
    BY <1>1, <1>2, <1>3, <2>2, <2>4 DEF InstallsInOrder, Installs
  <2> QED
    BY <2>3, <2>6, <2>7 DEF ReleaseInv
<1> QED
  BY <1>4, <1>5, <1>6, <1>7

\* The release's directory is cleared and filled.
LEMMA ExtractKeeps == ASSUME ReleaseInv, ClearTree \/ Extract PROVE ReleaseInv'
<1> USE DEF Cleared, Extracted, Sourced, Docked, Venved, Shimmed, Staged, Pointed, Marked
<1>1. /\ UNCHANGED <<published, current, marker, shaMarker, links, made, claim, unsettled>>
      /\ update.at \in {"clear", "extract"} /\ Installs /\ update.ver \in VersionNames
      /\ update.build \in 1..published
  BY DEF ClearTree, Extract, markers, wiring, ReleaseInv, ReleaseTypeOK, RollbackForgets, InstallsInOrder,
         Installs
<1>2. Stale /\ (Stale' <=> Stale) /\ claim # "current"
  BY <1>1 DEF Stale, ReleaseInv, InstallsInOrder, ClaimIsTrue, NoUpdate
<1>3. CASE ClearTree
  <2>1. /\ update.at = "clear" /\ GoesTo("extract")
        /\ torn' = torn \cup {update.ver} /\ trees' = [trees EXCEPT ![update.ver] = update.build]
    BY <1>3 DEF ClearTree
  <2>2. /\ update' = [at |-> update'.at, ver |-> update'.ver, sha |-> update'.sha,
                      build |-> update'.build, staged |-> update'.staged, back |-> update'.back]
        /\ update'.at = "extract" /\ update'.ver = update.ver /\ update'.sha = update.sha
        /\ update'.build = update.build /\ update'.staged = update.staged
        /\ update'.back = update.back /\ (Installs' <=> Installs)
    BY <2>1, GoesOn DEF ReleaseInv, Places
  <2>3. trees' = [v \in VersionNames |-> trees'[v]] /\ trees'[update.ver] = update.build
    BY <1>1, <2>1 DEF ReleaseInv, ReleaseTypeOK
  <2>4. ReleaseTypeOK'
    BY <1>1, <2>2, <2>3 DEF ReleaseInv, ReleaseTypeOK, Places
  <2>5. SumIsTrue' /\ RollbackForgets' /\ ClaimIsTrue'
    BY <1>1, <1>2, <2>2 DEF SumIsTrue, RollbackForgets, ClaimIsTrue, Installs
  <2>6. InstallsInOrder'
    BY <1>1, <1>2, <2>2, <2>3 DEF InstallsInOrder
  <2> QED
    BY <2>4, <2>5, <2>6 DEF ReleaseInv
<1>4. CASE Extract
  <2>1. /\ update.at = "extract" /\ GoesTo(IF update.staged THEN "repoint" ELSE "sync")
        /\ torn' = torn \ {update.ver} /\ trees' = trees
    BY <1>4 DEF Extract
  <2>2. /\ update' = [at |-> update'.at, ver |-> update'.ver, sha |-> update'.sha,
                      build |-> update'.build, staged |-> update'.staged, back |-> update'.back]
        /\ update'.at = (IF update.staged THEN "repoint" ELSE "sync")
        /\ update'.ver = update.ver /\ update'.sha = update.sha
        /\ update'.build = update.build /\ update'.staged = update.staged
        /\ update'.back = update.back /\ (Installs' <=> Installs)
    BY <2>1, GoesOn DEF ReleaseInv, Places
  <2>3. trees[update.ver] = update.build
    BY <1>1, <2>1 DEF ReleaseInv, InstallsInOrder
  <2>4. ReleaseTypeOK'
    BY <1>1, <2>1, <2>2 DEF ReleaseInv, ReleaseTypeOK, Places
  <2>5. SumIsTrue' /\ RollbackForgets' /\ ClaimIsTrue'
    BY <1>1, <1>2, <2>2 DEF SumIsTrue, RollbackForgets, ClaimIsTrue, Installs
  <2>6. InstallsInOrder'
    BY <1>1, <1>2, <2>1, <2>2, <2>3 DEF InstallsInOrder
  <2> QED
    BY <2>4, <2>5, <2>6 DEF ReleaseInv
<1> QED
  BY <1>3, <1>4

\* A rollback turns to another version; nothing is changed before it rewires the root.
LEMMA RollbackKeeps == ASSUME ReleaseInv, BeginRollback \/ SyncEnv PROVE ReleaseInv'
<1> USE DEF Cleared, Extracted, Sourced, Docked, Venved, Shimmed, Staged, Pointed, Marked
<1>1. UNCHANGED <<published, trees, torn, age, current, marker, shaMarker, links, made>>
  BY DEF BeginRollback, SyncEnv, tree, markers, wiring
<1>2. (Stale' <=> Stale) /\ (Whole' <=> Whole)
  BY <1>1 DEF Stale, Whole
<1>3. CASE BeginRollback
  <2>1. PICK ver, build : update' = [NoUpdate EXCEPT !.at = "sync", !.ver = ver, !.back = TRUE, !.build = build]
    BY <1>3 DEF BeginRollback
  <2>2. /\ update.at = "idle" /\ claim' = "none" /\ unsettled' = unsettled
        /\ update' = [at |-> "sync", ver |-> ver, sha |-> 0, build |-> build, staged |-> FALSE, back |-> TRUE]
    BY <1>3, <2>1 DEF BeginRollback, NoUpdate, NoBuild
  <2>3. 0 \in 0..published
    BY DEF ReleaseInv, ReleaseTypeOK, Builds
  <2>4. ReleaseTypeOK'
    BY <1>1, <2>2, <2>3 DEF ReleaseInv, ReleaseTypeOK, Places, Installs
  <2>5. SumIsTrue'
    BY <1>2, <2>2 DEF ReleaseInv, SumIsTrue, Installs
  <2> QED
    BY <2>2, <2>4, <2>5 DEF ReleaseInv, InstallsInOrder, RollbackForgets, ClaimIsTrue, Installs
<1>4. CASE SyncEnv
  <2>1. update.at = "sync" /\ GoesTo("sources") /\ unsettled' = (unsettled \/ update.back) /\ claim' = claim
    BY <1>4 DEF SyncEnv
  <2>2. /\ update' = [at |-> update'.at, ver |-> update'.ver, sha |-> update'.sha,
                      build |-> update'.build, staged |-> update'.staged, back |-> update'.back]
        /\ update'.at = "sources" /\ update'.ver = update.ver /\ update'.sha = update.sha
        /\ update'.build = update.build /\ update'.staged = update.staged
        /\ update'.back = update.back /\ (Installs' <=> Installs)
    BY <2>1, GoesOn DEF ReleaseInv, Places
  <2>3. unsettled' \in BOOLEAN
    BY <2>1 DEF ReleaseInv, ReleaseTypeOK
  <2>4. ReleaseTypeOK'
    BY <1>1, <2>1, <2>2, <2>3 DEF ReleaseInv, ReleaseTypeOK, Places
  <2>5. claim' # "current"
    BY <2>1 DEF ReleaseInv, ClaimIsTrue, NoUpdate
  <2>6. SumIsTrue' /\ RollbackForgets' /\ ClaimIsTrue'
    BY <2>1, <2>2, <2>5 DEF SumIsTrue, RollbackForgets, ClaimIsTrue, Installs
  <2>7. InstallsInOrder'
    BY <1>1, <1>2, <2>1, <2>2 DEF ReleaseInv, InstallsInOrder, Installs
  <2> QED
    BY <2>4, <2>6, <2>7 DEF ReleaseInv
<1> QED
  BY <1>3, <1>4

\* paifs-init wires one part after the other.
LEMMA WireKeeps ==
  ASSUME ReleaseInv, LinkSources \/ LinkDocs \/ BuildVenv \/ InstallShims
  PROVE  ReleaseInv'
<1> USE DEF Cleared, Extracted, Sourced, Docked, Venved, Shimmed, Staged, Pointed, Marked
<1> DEFINE next == IF update.at = "sources" THEN "docs" ELSE IF update.at = "docs" THEN "venv"
                   ELSE IF update.at = "venv" THEN "shims" ELSE "seed"
<1>1. /\ UNCHANGED <<published, trees, torn, age, current, marker, shaMarker, claim, unsettled>>
      /\ update.at \in {"sources", "docs", "venv", "shims"} /\ GoesTo(next)
  BY DEF LinkSources, LinkDocs, BuildVenv, InstallShims, WireLinks, MakeFrom, tree, markers
<1>2. /\ update' = [at |-> update'.at, ver |-> update'.ver, sha |-> update'.sha,
                    build |-> update'.build, staged |-> update'.staged, back |-> update'.back]
      /\ update'.at = next /\ update'.ver = update.ver /\ update'.sha = update.sha
      /\ update'.build = update.build /\ update'.staged = update.staged
      /\ update'.back = update.back /\ (Installs' <=> Installs)
  <2>1. next \in Places \ {"idle"}
    BY <1>1 DEF Places
  <2> HIDE DEF next
  <2> QED
    BY <1>1, <2>1, GoesOn DEF ReleaseInv
<1>3. /\ update.at \in Linked => links' = [links EXCEPT ![update.at] = update.ver] /\ made' = made
      /\ update.at \in Built => made' = [made EXCEPT ![update.at] = update.build] /\ links' = links
  BY <1>1 DEF LinkSources, LinkDocs, BuildVenv, InstallShims, WireLinks, MakeFrom, Linked, Built
<1>4. /\ links' = [p \in Linked |-> links'[p]] /\ made' = [p \in Built |-> made'[p]]
      /\ update.at \in Linked => links'[update.at] = update.ver
      /\ update.at \in Built => made'[update.at] = update.build
      /\ \A p \in Linked : p # update.at => links'[p] = links[p]
      /\ \A p \in Built : p # update.at => made'[p] = made[p]
  BY <1>1, <1>3 DEF ReleaseInv, ReleaseTypeOK, Linked, Built
<1>5. ReleaseTypeOK'
  BY <1>1, <1>2, <1>4 DEF ReleaseInv, ReleaseTypeOK, Places
<1>6. claim' # "current" /\ (Stale' <=> Stale)
  BY <1>1 DEF ReleaseInv, ClaimIsTrue, NoUpdate, Stale
<1>7. SumIsTrue' /\ RollbackForgets' /\ ClaimIsTrue'
  BY <1>1, <1>2, <1>6 DEF ReleaseInv, SumIsTrue, RollbackForgets, ClaimIsTrue, Installs
<1>8. InstallsInOrder'
  BY <1>1, <1>2, <1>4, <1>6 DEF ReleaseInv, InstallsInOrder, Installs, Linked, Built
<1> QED
  BY <1>5, <1>7, <1>8 DEF ReleaseInv

\* current, the marker and the sum follow once everything is wired.
LEMMA SettleKeeps ==
  ASSUME ReleaseInv, SeedEssentials \/ RepointCurrent \/ WriteMarker \/ RecordSum
  PROVE  ReleaseInv'
<1> USE DEF Cleared, Extracted, Sourced, Docked, Venved, Shimmed, Staged, Pointed, Marked
<1>1. /\ UNCHANGED <<published, trees, torn, age, links, made, claim>>
      /\ update.at \in {"seed", "repoint", "marker", "record"}
  BY DEF SeedEssentials, RepointCurrent, WriteMarker, RecordSum, tree, wiring
<1>2. claim' # "current"
  BY <1>1 DEF ReleaseInv, ClaimIsTrue, NoUpdate
<1>3. /\ published \in Nat /\ 0 \in 0..published /\ NoBuild = 0 /\ published > 0
      /\ 1..published \subseteq 0..published
  BY DEF ReleaseInv, ReleaseTypeOK, Builds, NoBuild
<1>4. CASE SeedEssentials
  <2>1. update.at = "seed" /\ GoesTo("repoint") /\ unsettled' = update.back /\ UNCHANGED <<current, marker, shaMarker>>
    BY <1>4 DEF SeedEssentials, markers
  <2>2. /\ update' = [at |-> update'.at, ver |-> update'.ver, sha |-> update'.sha,
                      build |-> update'.build, staged |-> update'.staged, back |-> update'.back]
        /\ update'.at = "repoint" /\ update'.ver = update.ver /\ update'.sha = update.sha
        /\ update'.build = update.build /\ update'.staged = update.staged
        /\ update'.back = update.back /\ (Installs' <=> Installs)
    BY <2>1, GoesOn DEF ReleaseInv, Places
  <2>3. ReleaseTypeOK' /\ (Stale' <=> Stale)
    BY <1>1, <2>1, <2>2 DEF ReleaseInv, ReleaseTypeOK, Places, Stale
  <2>4. SumIsTrue' /\ RollbackForgets' /\ ClaimIsTrue'
    BY <1>2, <2>1, <2>2 DEF SumIsTrue, RollbackForgets, ClaimIsTrue, Installs
  <2>5. InstallsInOrder'
    BY <1>1, <2>1, <2>2, <2>3 DEF ReleaseInv, InstallsInOrder, Installs
  <2> QED
    BY <2>3, <2>4, <2>5 DEF ReleaseInv
<1>5. CASE RepointCurrent
  <2>1. /\ update.at = "repoint" /\ GoesTo("marker") /\ current' = update.ver
        /\ unsettled' = (unsettled \/ update.staged) /\ UNCHANGED <<marker, shaMarker>>
    BY <1>5 DEF RepointCurrent, markers
  <2>2. /\ update' = [at |-> update'.at, ver |-> update'.ver, sha |-> update'.sha,
                      build |-> update'.build, staged |-> update'.staged, back |-> update'.back]
        /\ update'.at = "marker" /\ update'.ver = update.ver /\ update'.sha = update.sha
        /\ update'.build = update.build /\ update'.staged = update.staged
        /\ update'.back = update.back /\ (Installs' <=> Installs)
    BY <2>1, GoesOn DEF ReleaseInv, Places
  <2>3. unsettled' \in BOOLEAN
    BY <2>1 DEF ReleaseInv, ReleaseTypeOK
  <2>4. ReleaseTypeOK' /\ (Stale' <=> Stale)
    BY <1>1, <2>1, <2>2, <2>3 DEF ReleaseInv, ReleaseTypeOK, Places, Stale
  <2>5. SumIsTrue' /\ RollbackForgets' /\ ClaimIsTrue'
    BY <1>2, <2>1, <2>2 DEF ReleaseInv, SumIsTrue, RollbackForgets, ClaimIsTrue, Installs
  <2>6. InstallsInOrder'
    BY <1>1, <2>1, <2>2, <2>4 DEF ReleaseInv, InstallsInOrder, Installs
  <2> QED
    BY <2>4, <2>5, <2>6 DEF ReleaseInv
<1>6. CASE WriteMarker
  <2>1. /\ update.at = "marker" /\ GoesTo("record") /\ marker' = update.ver
        /\ UNCHANGED <<current, shaMarker, unsettled>>
    BY <1>6 DEF WriteMarker
  <2>2. /\ update' = [at |-> update'.at, ver |-> update'.ver, sha |-> update'.sha,
                      build |-> update'.build, staged |-> update'.staged, back |-> update'.back]
        /\ update'.at = "record" /\ update'.ver = update.ver /\ update'.sha = update.sha
        /\ update'.build = update.build /\ update'.staged = update.staged
        /\ update'.back = update.back /\ (Installs' <=> Installs)
    BY <2>1, GoesOn DEF ReleaseInv, Places
  <2>3. ReleaseTypeOK'
    BY <1>1, <2>1, <2>2 DEF ReleaseInv, ReleaseTypeOK, Places
  <2>4. SumIsTrue' /\ RollbackForgets' /\ ClaimIsTrue'
    BY <1>2, <2>1, <2>2 DEF ReleaseInv, SumIsTrue, RollbackForgets, ClaimIsTrue, Installs
  <2>5. InstallsInOrder'
    BY <1>1, <2>1, <2>2 DEF ReleaseInv, InstallsInOrder, Installs
  <2> QED
    BY <2>3, <2>4, <2>5 DEF ReleaseInv
<1>7. CASE RecordSum
  <2>1. /\ update.at = "record" /\ GoesTo("gc") /\ unsettled' = (unsettled /\ ~update.back)
        /\ shaMarker' = (IF update.back THEN NoBuild ELSE update.build) /\ UNCHANGED <<current, marker>>
    BY <1>7 DEF RecordSum
  <2>2. /\ update' = [at |-> update'.at, ver |-> update'.ver, sha |-> update'.sha,
                      build |-> update'.build, staged |-> update'.staged, back |-> update'.back]
        /\ update'.at = "gc" /\ update'.ver = update.ver /\ update'.sha = update.sha
        /\ update'.build = update.build /\ update'.staged = update.staged
        /\ update'.back = update.back /\ (Installs' <=> Installs)
    BY <2>1, GoesOn DEF ReleaseInv, Places
  <2>3. unsettled' \in BOOLEAN
    BY <2>1 DEF ReleaseInv, ReleaseTypeOK
  <2>4. shaMarker' \in 0..published
    <3>1. ~update.back => update.build \in 1..published
      BY <2>1 DEF ReleaseInv, InstallsInOrder, Installs
    <3> QED
      BY <1>3, <2>1, <3>1
  <2>5. ReleaseTypeOK'
    BY <1>1, <2>1, <2>2, <2>3, <2>4 DEF ReleaseInv, ReleaseTypeOK, Places
  <2>6. SumIsTrue' /\ RollbackForgets' /\ ClaimIsTrue'
    BY <1>2, <2>1, <2>2 DEF ReleaseInv, SumIsTrue, RollbackForgets, ClaimIsTrue, Installs
  <2>7. InstallsInOrder'
    BY <1>1, <2>1, <2>2 DEF ReleaseInv, InstallsInOrder, Installs
  <2> QED
    BY <2>5, <2>6, <2>7 DEF ReleaseInv
<1> QED
  BY <1>4, <1>5, <1>6, <1>7

\* When the marker names what was installed, it is whole.
LEMMA MarkedIsWhole ==
  ASSUME ReleaseInv, Installs, update.at \in Marked
  PROVE  unsettled \/ (Whole /\ marker = update.ver /\ update.ver \in VersionNames)
<1> USE DEF Cleared, Extracted, Sourced, Docked, Venved, Shimmed, Staged, Pointed, Marked
<1>1. /\ update.ver \in VersionNames \ torn /\ trees[update.ver] = update.build /\ update.build \in 1..published
      /\ current = update.ver /\ marker = update.ver
      /\ update.staged => unsettled
      /\ ~update.staged => /\ links["sources"] = update.ver /\ links["docs"] = update.ver
                           /\ made["venv"] = update.build /\ made["shims"] = update.build
  BY DEF ReleaseInv, ReleaseTypeOK, InstallsInOrder
<1>2. update.build # NoBuild
  BY <1>1 DEF NoBuild
<1> QED
  BY <1>1, <1>2 DEF Whole, Linked, Built, ReleaseInv, ReleaseTypeOK

LEMMA EndKeeps == ASSUME ReleaseInv, EndUpdate \/ UpdateDies PROVE ReleaseInv'
<1> USE DEF Cleared, Extracted, Sourced, Docked, Venved, Shimmed, Staged, Pointed, Marked
<1>1. /\ UNCHANGED <<published, current, marker, shaMarker, links, made, unsettled>>
      /\ update' = NoUpdate /\ (Stale' <=> Stale)
  BY DEF EndUpdate, UpdateDies, markers, wiring, Stale
<1>2. /\ update'.at = "idle" /\ update'.back = FALSE /\ update'.sha = 0 /\ update'.staged = FALSE
      /\ update'.ver \in VersionNames
      /\ update' = [at |-> update'.at, ver |-> update'.ver, sha |-> update'.sha,
                    build |-> update'.build, staged |-> update'.staged, back |-> update'.back]
      /\ NoBuild = 0 /\ 0 \in 0..published /\ published > 0
  BY <1>1, ReleasesAssumption DEF NoUpdate, NoBuild, VersionNames, Builds, ReleaseInv, ReleaseTypeOK
<1>3. trees' = [v \in VersionNames |-> trees'[v]] /\ claim' \in {"none", "current"}
  BY DEF EndUpdate, UpdateDies, tree, ReleaseInv, ReleaseTypeOK
<1>4. ReleaseTypeOK'
  BY <1>1, <1>2, <1>3 DEF ReleaseInv, ReleaseTypeOK, Places
<1>5. CASE EndUpdate /\ Installs
  <2>1. update.at = "gc" /\ \E keep : /\ current \in keep
                                      /\ trees' = [v \in VersionNames |-> IF v \in keep THEN trees[v] ELSE NoBuild]
                                      /\ torn' = torn \cap keep
    BY <1>5 DEF EndUpdate, Installs
  <2>2. Whole => Whole'
    BY <1>1, <2>1 DEF Whole
  <2>3. unsettled' \/ Whole'
    BY <1>1, <1>5, <2>1, <2>2, MarkedIsWhole
  <2> QED
    BY <1>1, <1>2, <1>4, <2>3 DEF ReleaseInv, SumIsTrue, InstallsInOrder, RollbackForgets, ClaimIsTrue, Installs
<1>6. CASE EndUpdate /\ ~Installs
  <2>1. update.at = "gc" /\ shaMarker = NoBuild /\ claim' = "none"
    BY <1>6 DEF EndUpdate, Installs, ReleaseInv, RollbackForgets
  <2>2. Stale'
    BY <1>1, <1>2, <2>1 DEF Stale
  <2> QED
    BY <1>1, <1>2, <1>4, <2>1, <2>2 DEF ReleaseInv, SumIsTrue, InstallsInOrder, RollbackForgets, ClaimIsTrue, Installs
<1>7. CASE UpdateDies
  <2>1. UNCHANGED <<trees, torn, claim>> /\ update # NoUpdate /\ (Whole' <=> Whole) /\ claim # "current"
    BY <1>1, <1>7 DEF UpdateDies, tree, Whole, ReleaseInv, ClaimIsTrue
  <2>2. Stale \/ unsettled \/ Whole
    <3>1. CASE update.at \in {"idle", "sum", "compare"} \/ (update.back /\ update.at = "sync")
      BY <3>1 DEF ReleaseInv, SumIsTrue
    <3>2. CASE Installs /\ update.at \in Marked
      BY <3>2, MarkedIsWhole
    <3>3. CASE Installs /\ update.at \in ({"clear"} \cup Cleared) \ Marked
      BY <3>3 DEF ReleaseInv, InstallsInOrder
    <3>4. CASE ~Installs /\ update.at # "sync"
      <4>1. unsettled \/ shaMarker = NoBuild
        BY <3>4 DEF ReleaseInv, RollbackForgets, Installs
      <4> QED
        BY <1>2, <4>1 DEF Stale
    <3> QED
      BY <3>1, <3>2, <3>3, <3>4 DEF ReleaseInv, ReleaseTypeOK, Places, Installs
  <2> QED
    BY <1>1, <1>2, <1>4, <2>1, <2>2 DEF ReleaseInv, SumIsTrue, InstallsInOrder, RollbackForgets, ClaimIsTrue, Installs
<1> QED
  BY <1>5, <1>6, <1>7

LEMMA ReleaseStep == ReleaseInv /\ [ReleaseNext]_releaseVars => ReleaseInv'
<1>1. ASSUME ReleaseInv, UNCHANGED releaseVars PROVE ReleaseInv'
  <2>1. ReleaseTypeOK' /\ (Stale' <=> Stale) /\ (Whole' <=> Whole) /\ (Installs' <=> Installs)
    BY <1>1 DEF ReleaseInv, ReleaseTypeOK, Stale, Whole, Installs, releaseVars
  <2>2. SumIsTrue' /\ ClaimIsTrue' /\ RollbackForgets'
    BY <1>1, <2>1 DEF ReleaseInv, SumIsTrue, ClaimIsTrue, RollbackForgets, releaseVars
  <2>3. InstallsInOrder'
    BY <1>1, <2>1 DEF ReleaseInv, InstallsInOrder, releaseVars
  <2> QED
    BY <2>1, <2>2, <2>3 DEF ReleaseInv
<1> QED
  BY <1>1, PublishKeeps, ChecksKeep, ExtractKeeps, RollbackKeeps, WireKeeps, SettleKeeps, EndKeeps
     DEF ReleaseNext

\* What pai update calls current is whole and wired, for any builds and versions, any commands
\* and any of them dying anywhere.
THEOREM CurrentReleaseIsWhole == ReleaseSpec => []CurrentIsWhole
<1>1. ReleaseInv => CurrentIsWhole
  BY DEF ReleaseInv, ClaimIsTrue, Whole, CurrentIsWhole
<1> QED
  BY <1>1, ReleaseStarts, ReleaseStep, PTL DEF ReleaseSpec

-----------------------------------------------------------------------------
(* paifs-init keeps what PAIs wrote.                                       *)

LEMMA PlacesOfDocs ==
  ASSUME DocsTypeOK
  PROVE  /\ Here \notin Releases /\ "none" \notin Releases /\ "dir" \notin Releases
         /\ Legacy \in Releases \cup {Here} /\ (docSlot \in Releases => Legacy = docSlot)
         /\ docSlot \notin Releases => Legacy = Here
         /\ \A p \in Releases \cup {Here} : stray[p] \in Pages
         /\ \A d \in Docs : durable[d] \in Contents \cup {NoDoc}
         /\ \A c \in Docs : <<c, NoDoc>> \notin owed
         /\ \A x \in owed : x[1] \in Docs /\ x[2] \in Contents /\ x = <<x[1], x[2]>>
BY BuiltDocsAssumption DEF DocsTypeOK, Legacy, Slots, Pages

LEMMA DocsStart == DocsInit => DocsInv
<1> SUFFICES ASSUME DocsInit PROVE DocsInv
  OBVIOUS
<1>1. Empty \in Pages
  BY DEF Empty, Pages
<1>2. DocsTypeOK
  <2>1. stray \in [Releases \cup {Here} -> Pages] /\ durable \in Pages
    BY <1>1 DEF DocsInit
  <2>2. run = NoLayout /\ NoLayout \in
          [at : {"idle", "rescue", "unlink", "wire", "wipe", "copy", "again", "expose"},
           mode : {"none", "checkout", "bundle"}, todo : SUBSET Docs]
    BY DEF DocsInit, NoLayout
  <2> QED
    BY <2>1, <2>2 DEF DocsInit, DocsTypeOK, Slots
<1>3. StrayIsReal /\ RescueFirst /\ OwedIsReached
  BY DEF DocsInit, NoLayout, StrayIsReal, RescueFirst, OwedIsReached
<1> QED
  BY <1>2, <1>3 DEF DocsInv

LEMMA WriteKeeps == ASSUME DocsInv, NEW d \in Docs, NEW c \in Contents, WriteDoc(d, c) PROVE DocsInv'
<1> DEFINE linked == docSlot = "dir" /\ built = "link"
           old    == IF linked THEN durable[d] ELSE stray[Legacy][d]
           late   == run # NoLayout /\ docSlot \in Releases
<1>1. /\ run.mode # "bundle" /\ UNCHANGED <<kept, run>>
      /\ durable' = (IF linked THEN [durable EXCEPT ![d] = c] ELSE durable)
      /\ stray' = (IF linked THEN stray ELSE [stray EXCEPT ![Legacy][d] = c])
      /\ owed' = (owed \ {<<d, old>>}) \cup {<<d, c>>}
      /\ excused' = (IF late THEN excused \cup {<<d, c>>} ELSE excused \ {<<d, c>>})
      /\ docSlot' = (IF docSlot = "none" THEN "dir" ELSE docSlot)
      /\ built' = (IF docSlot \notin Releases /\ built = "none" THEN "real" ELSE built)
  BY DEF WriteDoc
<1> HIDE DEF linked, late, old
<1>2. /\ Here \notin Releases /\ "none" \notin Releases /\ "dir" \notin Releases
      /\ Legacy \in Releases \cup {Here} /\ (docSlot \in Releases => Legacy = docSlot)
      /\ docSlot \notin Releases => Legacy = Here
      /\ \A p \in Releases \cup {Here} : stray[p] \in Pages
      /\ c # NoDoc /\ durable \in Pages /\ stray \in [Releases \cup {Here} -> Pages]
  BY PlacesOfDocs, BuiltDocsAssumption DEF DocsInv, DocsTypeOK
<1>3. /\ (docSlot' \in Releases <=> docSlot \in Releases) /\ (docSlot \in Releases => docSlot' = docSlot)
      /\ Legacy' = Legacy
  BY <1>1, <1>2 DEF Legacy
<1>4. /\ durable' \in Pages /\ stray' \in [Releases \cup {Here} -> Pages]
      /\ linked => durable'[d] = c /\ stray' = stray /\ (\A e \in Docs : e # d => durable'[e] = durable[e])
      /\ ~linked => durable' = durable /\ stray'[Legacy][d] = c
      /\ \A p \in Releases \cup {Here}, e \in Docs :
           p # Legacy \/ e # d => stray'[p][e] = stray[p][e]
  <2>1. CASE linked
    BY <1>1, <1>2, <2>1 DEF Pages
  <2>2. CASE ~linked
    <3>1. stray[Legacy] \in Pages /\ [stray[Legacy] EXCEPT ![d] = c] \in Pages
      BY <1>2 DEF Pages
    <3> QED
      BY <1>1, <1>2, <2>2, <3>1 DEF Pages
  <2> QED
    BY <2>1, <2>2
<1>5. DocsTypeOK'
  <2>1. owed' \subseteq Docs \X Contents /\ excused' \subseteq Docs \X (Contents \cup {NoDoc})
    BY <1>1 DEF DocsInv, DocsTypeOK
  <2>2. docSlot' \in Slots /\ built' \in {"none", "link", "real"}
    BY <1>1 DEF DocsInv, DocsTypeOK, Slots
  <2> QED
    BY <1>1, <1>3, <1>4, <2>1, <2>2 DEF DocsInv, DocsTypeOK
<1>6. StrayIsReal'
  <2>1. stray'[Here] # Empty => docSlot' = "dir" /\ built' = "real"
    <3>1. CASE linked \/ docSlot \in Releases
      <4>1. stray'[Here] = stray[Here]
        <5>1. CASE linked
          BY <1>4, <5>1
        <5>2. CASE ~linked /\ docSlot \in Releases
          BY <1>1, <1>2, <5>2
        <5> QED
          BY <3>1, <5>1, <5>2
      <4>2. stray[Here] # Empty => docSlot = "dir" /\ built = "real"
        BY DEF DocsInv, StrayIsReal
      <4>3. linked \/ docSlot \in Releases => ~(docSlot = "dir" /\ built = "real")
        BY <1>2 DEF linked
      <4> QED
        BY <3>1, <4>1, <4>2, <4>3
    <3>2. CASE ~linked /\ docSlot \notin Releases
      <4>1. docSlot \in {"none", "dir"}
        BY <3>2 DEF DocsInv, DocsTypeOK, Slots
      <4>2. docSlot' = "dir"
        BY <1>1, <4>1
      <4>3. built' = "real"
        BY <1>1, <3>2, <4>1 DEF DocsInv, StrayIsReal, DocsTypeOK, linked
      <4> QED
        BY <4>2, <4>3
    <3> QED
      BY <3>1, <3>2
  <2>2. docSlot' # "dir" => built' = "none"
    BY <1>1, <1>2 DEF DocsInv, StrayIsReal, DocsTypeOK, Slots
  <2>3. /\ run'.at \in {"wire", "copy", "again"} => docSlot' \notin Releases
        /\ run'.at = "wipe" => run'.mode = "bundle"
    BY <1>1, <1>3 DEF DocsInv, StrayIsReal
  <2> QED
    BY <2>1, <2>2, <2>3 DEF StrayIsReal
<1>7. RescueFirst'
  <2> SUFFICES ASSUME run.at \in {"rescue", "unlink", "wipe"}, docSlot \in Releases
               PROVE  /\ \A e \in Docs \ run.todo : Rescued(e)'
                      /\ run.at # "rescue" => run.todo = {}
    BY <1>1, <1>3 DEF RescueFirst
  <2>1. (\A e \in Docs \ run.todo : Rescued(e)) /\ (run.at # "rescue" => run.todo = {})
    BY DEF DocsInv, RescueFirst
  <2>2. late /\ ~linked
    BY <1>2 DEF late, linked, NoLayout
  <2>3. durable' = durable /\ excused' = excused \cup {<<d, c>>} /\ owed' \subseteq owed \cup {<<d, c>>}
    BY <1>1, <2>2
  <2>4. ASSUME NEW e \in Docs \ run.todo PROVE Rescued(e)'
    <3>1. CASE e = d
      <4>1. stray'[Legacy'][e] = c
        BY <1>3, <1>4, <2>2, <3>1
      <4> QED
        BY <2>3, <3>1, <4>1 DEF Rescued
    <3>2. CASE e # d
      <4>1. stray'[Legacy'][e] = stray[Legacy][e]
        BY <1>2, <1>3, <1>4, <3>2
      <4>2. <<e, stray[Legacy][e]>> \in owed' => <<e, stray[Legacy][e]>> \in owed
        BY <2>3, <3>2
      <4>3. Rescued(e)
        BY <2>1, <2>4
      <4> QED
        BY <2>3, <4>1, <4>2, <4>3 DEF Rescued
    <3> QED
      BY <3>1, <3>2
  <2> QED
    BY <2>1, <2>4
<1>8. OwedIsReached'
  <2> SUFFICES ASSUME NEW x \in owed'
               PROVE  \/ x \in excused' \/ durable'[x[1]] = x[2] \/ stray'[Here][x[1]] = x[2]
                      \/ docSlot' \in Releases /\ stray'[docSlot'][x[1]] = x[2]
    BY DEF OwedIsReached
  <2>1. x = <<x[1], x[2]>> /\ x[1] \in Docs
    BY <1>5 DEF DocsTypeOK
  <2>2. CASE x = <<d, c>>
    <3>1. CASE linked
      BY <1>4, <2>2, <3>1
    <3>2. CASE ~linked /\ docSlot \in Releases
      BY <1>2, <1>3, <1>4, <2>2, <3>2
    <3>3. CASE ~linked /\ docSlot \notin Releases
      BY <1>2, <1>4, <2>2, <3>3
    <3> QED
      BY <3>1, <3>2, <3>3
  <2>3. CASE x # <<d, c>>
    <3>1. x \in owed /\ x # <<d, old>> /\ (x \in excused => x \in excused')
      BY <1>1, <2>3
    <3>2. \/ x \in excused \/ durable[x[1]] = x[2] \/ stray[Here][x[1]] = x[2]
          \/ docSlot \in Releases /\ stray[docSlot][x[1]] = x[2]
      BY <3>1 DEF DocsInv, OwedIsReached
    <3>3. linked => docSlot \notin Releases
      BY <1>2 DEF linked
    <3>4. CASE durable[x[1]] = x[2]
      <4>1. durable'[x[1]] = durable[x[1]]
        BY <1>4, <2>1, <3>1, <3>4 DEF old
      <4> QED
        BY <3>4, <4>1
    <3>5. CASE stray[Here][x[1]] = x[2]
      <4>1. stray'[Here][x[1]] = stray[Here][x[1]]
        <5>1. CASE linked
          BY <1>4, <5>1
        <5>2. CASE ~linked
          <6>1. Here # Legacy \/ x[1] # d
            BY <2>1, <3>1, <3>5, <5>2 DEF old
          <6> QED
            BY <1>4, <2>1, <6>1
        <5> QED
          BY <5>1, <5>2
      <4> QED
        BY <3>5, <4>1
    <3>6. CASE docSlot \in Releases /\ stray[docSlot][x[1]] = x[2]
      <4>1. ~linked /\ Legacy = docSlot
        BY <1>2, <3>3, <3>6
      <4>2. x[1] # d
        BY <2>1, <3>1, <3>6, <4>1 DEF old
      <4>3. stray'[docSlot][x[1]] = stray[docSlot][x[1]]
        BY <1>4, <2>1, <3>6, <4>2
      <4> QED
        BY <1>3, <3>6, <4>3
    <3> QED
      BY <3>1, <3>2, <3>4, <3>5, <3>6
  <2> QED
    BY <2>2, <2>3
<1> QED
  BY <1>5, <1>6, <1>7, <1>8 DEF DocsInv

\* A run begins, ends a step or dies, and no document is moved.
LEMMA PlaceKeepsType ==
  ASSUME DocsInv,
         run' \in [at : {"idle", "rescue", "unlink", "wire", "wipe", "copy", "again", "expose"},
                   mode : {"none", "checkout", "bundle"}, todo : SUBSET Docs],
         run'.at = "idle" => run' = NoLayout,
         docSlot' \in {docSlot, "none", "dir"}, built' \in {"none", "link", "real"},
         UNCHANGED <<durable, kept, owed, excused>>, stray' \in [Releases \cup {Here} -> Pages]
  PROVE  DocsTypeOK'
BY PlacesOfDocs DEF DocsInv, DocsTypeOK, Slots

LEMMA BeginKeeps == ASSUME DocsInv, NEW mode \in {"checkout", "bundle"}, BeginLayout(mode) PROVE DocsInv'
<1>1. /\ run' = [at |-> "rescue", mode |-> mode, todo |-> Listed]
      /\ UNCHANGED <<docSlot, built, durable, stray, kept, owed, excused>>
  BY DEF BeginLayout, docTree, authored
<1>2. Listed \subseteq Docs
  BY DEF Listed
<1>3. DocsTypeOK'
  BY <1>1, <1>2, PlaceKeepsType DEF DocsInv, DocsTypeOK
<1>4. StrayIsReal' /\ OwedIsReached'
  BY <1>1 DEF DocsInv, StrayIsReal, OwedIsReached
<1>5. ASSUME NEW d \in Docs \ Listed PROVE Rescued(d)'
  <2>1. stray[Legacy][d] = NoDoc
    <3>1. CASE LegacyIsDir
      BY <1>5, <3>1 DEF Listed
    <3>2. CASE ~LegacyIsDir
      <4>1. Legacy = Here /\ stray[Here] = Empty
        BY <3>2 DEF LegacyIsDir, Legacy, DocsInv, StrayIsReal
      <4> QED
        BY <4>1 DEF Empty
    <3> QED
      BY <3>1, <3>2
  <2>2. stray'[Legacy'][d] = NoDoc
    BY <1>1, <2>1 DEF Legacy
  <2>3. <<d, NoDoc>> \notin owed'
    BY <1>1, PlacesOfDocs DEF DocsInv
  <2> QED
    BY <2>2, <2>3 DEF Rescued
<1>6. RescueFirst'
  BY <1>1, <1>5 DEF RescueFirst
<1> QED
  BY <1>3, <1>4, <1>6 DEF DocsInv

\* An entry that is moved, dropped or left is rescued; what it held is safe or excused.
LEMMA MergeKeeps == ASSUME DocsInv, NEW d \in Docs, MergeDoc(d) PROVE DocsInv'
<1>1. /\ run.at \in {"rescue", "again"} /\ d \in run.todo /\ run' = [run EXCEPT !.todo = @ \ {d}]
      /\ UNCHANGED <<docSlot, built, kept, owed>> /\ Legacy' = Legacy
  BY DEF MergeDoc, Legacy
<1>2. /\ Legacy \in Releases \cup {Here} /\ (docSlot \in Releases => Legacy = docSlot)
      /\ docSlot \notin Releases => Legacy = Here
      /\ durable \in Pages /\ stray \in [Releases \cup {Here} -> Pages] /\ stray[Legacy] \in Pages
      /\ stray[Legacy][d] \in Contents \cup {NoDoc}
      /\ \A e \in Docs : <<e, NoDoc>> \notin owed
      /\ \A x \in owed : x[1] \in Docs /\ x[2] # NoDoc /\ x = <<x[1], x[2]>>
  BY PlacesOfDocs, BuiltDocsAssumption DEF DocsInv, DocsTypeOK, Pages
<1>3. /\ run'.at = run.at /\ run'.mode = run.mode /\ run'.todo = run.todo \ {d}
      /\ run' \in [at : {"idle", "rescue", "unlink", "wire", "wipe", "copy", "again", "expose"},
                   mode : {"none", "checkout", "bundle"}, todo : SUBSET Docs]
  BY <1>1 DEF DocsInv, DocsTypeOK
<1>4. \/ stray'[Legacy][d] = NoDoc /\ durable'[d] = stray[Legacy][d] /\ (durable[d] = NoDoc \/ durable'[d] = durable[d])
      \/ stray' = stray /\ durable' = durable /\ <<d, stray[Legacy][d]>> \in excused'
  BY <1>2 DEF MergeDoc, Same, Pages
<1>5. /\ durable' \in Pages /\ \A e \in Docs : e # d => durable'[e] = durable[e]
      /\ stray' \in [Releases \cup {Here} -> Pages]
      /\ \A p \in Releases \cup {Here}, e \in Docs : p # Legacy \/ e # d => stray'[p][e] = stray[p][e]
      /\ stray[Here] = Empty => stray'[Here] = Empty
  <2>1. durable' \in Pages /\ \A e \in Docs : e # d => durable'[e] = durable[e]
    BY <1>2 DEF MergeDoc, Pages
  <2>2. stray' = [stray EXCEPT ![Legacy][d] = NoDoc] \/ stray' = stray
    BY DEF MergeDoc
  <2>3. CASE stray' = stray
    BY <1>2, <2>1, <2>3
  <2>4. CASE stray' = [stray EXCEPT ![Legacy][d] = NoDoc]
    <3>1. [stray[Legacy] EXCEPT ![d] = NoDoc] \in Pages
      BY <1>2 DEF Pages
    <3>2. stray' \in [Releases \cup {Here} -> Pages]
      BY <1>2, <2>4, <3>1
    <3>3. \A p \in Releases \cup {Here}, e \in Docs : p # Legacy \/ e # d => stray'[p][e] = stray[p][e]
      BY <1>2, <2>4 DEF Pages
    <3>4. ASSUME stray[Here] = Empty PROVE stray'[Here] = Empty
      <4>1. CASE Legacy = Here
        BY <1>2, <2>4, <3>4, <4>1 DEF Empty
      <4>2. CASE Legacy # Here
        BY <1>2, <2>4, <3>4, <4>2
      <4> QED
        BY <4>1, <4>2
    <3> QED
      BY <2>1, <3>2, <3>3, <3>4
  <2> QED
    BY <2>2, <2>3, <2>4
<1>6. excused \subseteq excused' /\ excused' \subseteq excused \cup {<<d, stray[Legacy][d]>>}
  BY DEF MergeDoc
<1>7. DocsTypeOK'
  <2>1. excused' \subseteq Docs \X (Contents \cup {NoDoc})
    BY <1>2, <1>6 DEF DocsInv, DocsTypeOK
  <2> QED
    BY <1>1, <1>3, <1>5, <2>1 DEF DocsInv, DocsTypeOK
<1>8. StrayIsReal'
  BY <1>1, <1>3, <1>5 DEF DocsInv, StrayIsReal
<1>9. RescueFirst'
  <2> SUFFICES ASSUME run.at = "rescue", run.mode = "bundle" \/ docSlot \in Releases,
                      NEW e \in Docs \ (run.todo \ {d})
               PROVE  Rescued(e)'
    BY <1>1, <1>3 DEF RescueFirst
  <2>1. CASE e = d
    BY <1>1, <1>2, <1>4, <2>1 DEF Rescued
  <2>2. CASE e # d
    <3>1. Rescued(e)
      BY <2>2 DEF DocsInv, RescueFirst
    <3>2. stray'[Legacy'][e] = stray[Legacy][e] /\ durable'[e] = durable[e]
      BY <1>1, <1>2, <1>5, <2>2
    <3> QED
      BY <1>1, <1>6, <3>1, <3>2 DEF Rescued
  <2> QED
    BY <2>1, <2>2
<1>10. OwedIsReached'
  <2> SUFFICES ASSUME NEW x \in owed
               PROVE  \/ x \in excused' \/ durable'[x[1]] = x[2] \/ stray'[Here][x[1]] = x[2]
                      \/ docSlot \in Releases /\ stray'[docSlot][x[1]] = x[2]
    BY <1>1 DEF OwedIsReached
  <2>1. \/ x \in excused \/ durable[x[1]] = x[2] \/ stray[Here][x[1]] = x[2]
        \/ docSlot \in Releases /\ stray[docSlot][x[1]] = x[2]
    BY DEF DocsInv, OwedIsReached
  <2>2. x[1] \in Docs /\ x[2] # NoDoc /\ x = <<x[1], x[2]>>
    BY <1>2
  <2>3. CASE x[1] # d
    BY <1>5, <1>6, <2>1, <2>2, <2>3
  <2>4. CASE x[1] = d
    <3>1. CASE stray[Legacy][d] = x[2]
      BY <1>4, <2>2, <2>4, <3>1
    <3>2. CASE durable[d] = x[2]
      <4>1. durable'[d] = x[2]
        BY <1>4, <2>2, <3>2
      <4> QED
        BY <2>4, <4>1
    <3>3. CASE stray[Here][d] = x[2] /\ Legacy # Here
      BY <1>5, <2>4, <3>3
    <3> QED
      BY <1>2, <1>6, <2>1, <2>4, <3>1, <3>2, <3>3
  <2> QED
    BY <2>3, <2>4
<1> QED
  BY <1>7, <1>8, <1>9, <1>10 DEF DocsInv

LEMMA EndMergeKeeps == ASSUME DocsInv, EndMerge PROVE DocsInv'
<1>1. /\ run.at \in {"rescue", "again"} /\ run.todo = {}
      /\ built' = (IF docSlot = "dir" /\ built = "real" /\ stray[Here] = Empty THEN "none" ELSE built)
      /\ run' = [run EXCEPT !.at = IF run.at = "again" THEN "expose"
                                   ELSE IF run.mode = "bundle" THEN "wipe" ELSE "unlink"]
      /\ UNCHANGED <<docSlot, durable, stray, kept, owed, excused>>
  BY DEF EndMerge, DocsGo, authored
<1>2. /\ run'.mode = run.mode /\ run'.todo = {} /\ run'.at \in {"expose", "wipe", "unlink"}
      /\ run'.at \in {"wipe", "unlink"} => run.at = "rescue"
      /\ run'.at = "wipe" => run.mode = "bundle"
      /\ run' \in [at : {"idle", "rescue", "unlink", "wire", "wipe", "copy", "again", "expose"},
                   mode : {"none", "checkout", "bundle"}, todo : SUBSET Docs]
  BY <1>1 DEF DocsInv, DocsTypeOK
<1>3. DocsTypeOK'
  BY <1>1, <1>2, PlaceKeepsType DEF DocsInv, DocsTypeOK
<1>4. StrayIsReal' /\ OwedIsReached'
  BY <1>1, <1>2 DEF DocsInv, StrayIsReal, OwedIsReached
<1>5. RescueFirst'
  BY <1>1, <1>2 DEF DocsInv, RescueFirst, Rescued, Legacy
<1> QED
  BY <1>3, <1>4, <1>5 DEF DocsInv

\* Where the documents were goes, when all of them were rescued.
LEMMA RescuedIsSafe ==
  ASSUME DocsInv, run.at \in {"unlink", "wipe"}, run.mode = "bundle" \/ docSlot \in Releases, NEW x \in owed
  PROVE  x \in excused \/ durable[x[1]] = x[2]
<1>1. /\ x[1] \in Docs /\ x[2] \in Contents /\ x = <<x[1], x[2]>> /\ x[2] # NoDoc
      /\ docSlot \in Releases => Legacy = docSlot
      /\ docSlot \notin Releases => Legacy = Here
      /\ Here \notin Releases /\ "dir" \notin Releases
  BY PlacesOfDocs, BuiltDocsAssumption DEF DocsInv
<1>2. Rescued(x[1])
  BY <1>1 DEF DocsInv, RescueFirst
<1>3. x[2] = stray[Legacy][x[1]] => x \in excused \/ durable[x[1]] = x[2]
  BY <1>1, <1>2 DEF Rescued
<1>4. stray[Here][x[1]] = x[2] => Legacy = Here
  <2>1. Empty[x[1]] = NoDoc
    BY <1>1 DEF Empty
  <2> QED
    BY <1>1, <2>1 DEF DocsInv, StrayIsReal
<1> QED
  BY <1>1, <1>3, <1>4 DEF DocsInv, OwedIsReached

LEMMA LeaveKeeps == ASSUME DocsInv, UnlinkDocs \/ WipeDocs PROVE DocsInv'
<1>1. CASE UnlinkDocs
  <2>1. /\ run.at = "unlink" /\ run' = [run EXCEPT !.at = "wire"]
        /\ docSlot' = (IF docSlot \in Releases THEN "none" ELSE docSlot)
        /\ built' = (IF docSlot \in Releases THEN "none" ELSE built)
        /\ UNCHANGED <<durable, stray, kept, owed, excused>>
    BY <1>1 DEF UnlinkDocs, DocsGo, authored
  <2>2. /\ run'.at = "wire" /\ "none" \notin Releases /\ "dir" \notin Releases
        /\ run' \in [at : {"idle", "rescue", "unlink", "wire", "wipe", "copy", "again", "expose"},
                     mode : {"none", "checkout", "bundle"}, todo : SUBSET Docs]
    BY <2>1, PlacesOfDocs DEF DocsInv, DocsTypeOK
  <2>3. DocsTypeOK'
    BY <2>1, <2>2, PlaceKeepsType DEF DocsInv, DocsTypeOK
  <2>4. StrayIsReal' /\ RescueFirst'
    BY <2>1, <2>2 DEF DocsInv, StrayIsReal, RescueFirst
  <2>5. CASE docSlot \in Releases
    BY <2>1, <2>3, <2>4, <2>5, RescuedIsSafe DEF DocsInv, OwedIsReached
  <2>6. CASE docSlot \notin Releases
    BY <2>1, <2>3, <2>4, <2>6 DEF DocsInv, OwedIsReached
  <2> QED
    BY <2>5, <2>6
<1>2. CASE WipeDocs
  <2>1. /\ run.at = "wipe" /\ run' = [run EXCEPT !.at = "copy"]
        /\ stray' = (IF docSlot = "dir" THEN [stray EXCEPT ![Here] = Empty] ELSE stray)
        /\ docSlot' = "none" /\ built' = "none"
        /\ UNCHANGED <<durable, kept, owed, excused>>
    BY <1>2 DEF WipeDocs, DocsGo, authored
  <2>2. /\ run'.at = "copy" /\ "none" \notin Releases /\ "dir" \notin Releases
        /\ run' \in [at : {"idle", "rescue", "unlink", "wire", "wipe", "copy", "again", "expose"},
                     mode : {"none", "checkout", "bundle"}, todo : SUBSET Docs]
    BY <2>1, PlacesOfDocs DEF DocsInv, DocsTypeOK
  <2>3. Empty \in Pages /\ stray' \in [Releases \cup {Here} -> Pages] /\ stray'[Here] = Empty
    BY <2>1 DEF Empty, Pages, DocsInv, DocsTypeOK, StrayIsReal
  <2>4. DocsTypeOK'
    BY <2>1, <2>2, <2>3, PlaceKeepsType DEF DocsInv, DocsTypeOK
  <2>5. StrayIsReal' /\ RescueFirst'
    BY <2>1, <2>2, <2>3 DEF StrayIsReal, RescueFirst
  <2>6. OwedIsReached'
    <3>1. run.mode = "bundle" \/ docSlot \in Releases
      BY <2>1 DEF DocsInv, StrayIsReal
    <3> QED
      BY <2>1, <3>1, RescuedIsSafe DEF OwedIsReached
  <2> QED
    BY <2>4, <2>5, <2>6 DEF DocsInv
<1> QED
  BY <1>1, <1>2

LEMMA LayKeeps == ASSUME DocsInv, WireDocs \/ CopyDocs PROVE DocsInv'
<1>1. /\ run.at \in {"wire", "copy"} /\ docSlot' = "dir" /\ run' = [run EXCEPT !.at = "again", !.todo = Listed]
      /\ UNCHANGED <<built, durable, stray, kept, owed, excused>>
  BY DEF WireDocs, CopyDocs, ToMerge, authored
<1>2. /\ run'.at = "again" /\ "none" \notin Releases /\ "dir" \notin Releases /\ docSlot \notin Releases
      /\ run' \in [at : {"idle", "rescue", "unlink", "wire", "wipe", "copy", "again", "expose"},
                   mode : {"none", "checkout", "bundle"}, todo : SUBSET Docs]
  <2>1. Listed \subseteq Docs
    BY DEF Listed
  <2> QED
    BY <1>1, <2>1, PlacesOfDocs DEF DocsInv, DocsTypeOK, StrayIsReal
<1>3. DocsTypeOK'
  BY <1>1, <1>2, PlaceKeepsType DEF DocsInv, DocsTypeOK
<1>4. StrayIsReal' /\ RescueFirst' /\ OwedIsReached'
  BY <1>1, <1>2 DEF DocsInv, StrayIsReal, RescueFirst, OwedIsReached
<1> QED
  BY <1>3, <1>4 DEF DocsInv

LEMMA ExposeKeeps == ASSUME DocsInv, ExposeBuilt \/ LayoutDies PROVE DocsInv'
<1>1. /\ run' = NoLayout /\ UNCHANGED <<docSlot, durable, stray, kept, owed, excused>>
      /\ built' = built \/ (built' = "link" /\ built = "none" /\ docSlot = "dir")
  BY DEF ExposeBuilt, LayoutDies, authored, docTree
<1>2. DocsTypeOK'
  BY <1>1, PlaceKeepsType DEF DocsInv, DocsTypeOK, NoLayout
<1>3. StrayIsReal' /\ RescueFirst' /\ OwedIsReached'
  BY <1>1 DEF DocsInv, StrayIsReal, RescueFirst, OwedIsReached, NoLayout
<1> QED
  BY <1>2, <1>3 DEF DocsInv

LEMMA RemoveKeeps == ASSUME DocsInv, NEW r \in Releases, RemoveRelease(r) PROVE DocsInv'
<1>1. /\ run = NoLayout /\ r \in kept /\ docSlot # r /\ kept' = kept \ {r}
      /\ stray' = [stray EXCEPT ![r] = Empty] /\ UNCHANGED <<docSlot, built, durable, run, owed, excused>>
  BY DEF RemoveRelease, authored
<1>2. Empty \in Pages /\ r # Here
  BY PlacesOfDocs DEF Empty, Pages, DocsInv
<1>3. /\ stray' \in [Releases \cup {Here} -> Pages] /\ stray'[Here] = stray[Here]
      /\ docSlot \in Releases => stray'[docSlot] = stray[docSlot]
  BY <1>1, <1>2 DEF DocsInv, DocsTypeOK
<1>4. DocsTypeOK'
  BY <1>1, <1>3 DEF DocsInv, DocsTypeOK
<1>5. StrayIsReal' /\ RescueFirst' /\ OwedIsReached'
  BY <1>1, <1>3 DEF DocsInv, StrayIsReal, RescueFirst, OwedIsReached, NoLayout
<1> QED
  BY <1>4, <1>5 DEF DocsInv

LEMMA DocsStep == DocsInv /\ [DocsNext]_docVars => DocsInv'
<1>1. ASSUME DocsInv, UNCHANGED docVars PROVE DocsInv'
  BY <1>1 DEF docVars, DocsInv, DocsTypeOK, StrayIsReal, RescueFirst, OwedIsReached, Rescued, Legacy
<1> QED
  BY <1>1, WriteKeeps, BeginKeeps, MergeKeeps, EndMergeKeeps, LeaveKeeps, LayKeeps, ExposeKeeps, RemoveKeeps
     DEF DocsNext

\* What a PAI wrote last under a path is in the durable directory or in a directory that exists,
\* or a run said that it left it; for any documents, contents, releases and runs.
THEOREM WrittenDocsAreKept == DocsSpec => []DocsAreKept
<1>1. DocsInv => DocsAreKept
  BY DEF DocsInv, DocsTypeOK, OwedIsReached, DocsAreKept, Found
<1> QED
  BY <1>1, DocsStart, DocsStep, PTL DEF DocsSpec
=============================================================================
