--------------------------- MODULE ServicesProofs ---------------------------
(***************************************************************************)
(* Proofs about cowork mode, the commands of subagent, the commands that   *)
(* edit the fleet, and the package manager: what was copied while nobody   *)
(* looked is not logged (NothingRetroactive), children end as agreed       *)
(* (EndsAsAgreed), config.yaml stays whole (FleetIsWhole), and an install  *)
(* is current when it ends (InstallIsCurrent).                             *)
(***************************************************************************)
EXTENDS Cowork, Subagents, Fleet, Packages, FiniteSetTheorems, SequenceTheorems,
        WellFoundedInduction, TLAPS

-----------------------------------------------------------------------------
(* Cowork mode.                                                            *)

\* Where a change count may be: in the log or in the pipe, each of a copy that was made and seen.
CopiesAreSeen ==
  /\ copies \in Nat /\ seen \in Int /\ seen <= copies
  /\ unseen \subseteq 1..copies /\ clipLog \subseteq (1..copies) \ unseen
  /\ pipe \in Seq(Int)
  /\ \A i \in 1..Len(pipe) :
       /\ pipe[i] >= FatalLine
       /\ pipe[i] > WindowLine => pipe[i] <= copies /\ pipe[i] \notin unseen

\* What a sidecar that has sampled does not know yet was copied while it ran.
SeededIsAhead == sidecar = "up" /\ seen # Unseeded => \A n \in unseen : n <= seen

CoworkInv == CopiesAreSeen /\ SeededIsAhead

-----------------------------------------------------------------------------
(* Subagents.                                                              *)

\* /proc and what was given at birth agree.
ProcIsTrue ==
  /\ proc = [s \in DOMAIN proc |-> proc[s]] /\ DOMAIN proc \subseteq Slugs
  /\ bornAs \in [Children -> Slugs \cup {NoSlug}] /\ childSpec = [c \in Children |-> childSpec[c]]
  /\ \A s \in DOMAIN proc :
       proc[s].pid \in Children /\ bornAs[proc[s].pid] = s /\ childSpec[proc[s].pid] = proc[s]

\* What a command under way has looked at is still so, of some child of that name.
Founded(a, r) ==
  /\ a \in Parents =>
       /\ r.op = "spawn" => r.slug \in Slugs
       /\ r.op = "kill" => \E d \in Born : bornAs[d] = r.slug /\ childSpec[d].parent = a
  /\ a \in Children =>
       \/ r = NoCommand
       \/ /\ r = [op |-> r.op, slug |-> bornAs[a]] /\ r.op \in {"respond", "leave"} /\ a \in Born
          /\ childSpec[a].suicide /\ <<childSpec[a].parent, bornAs[a]>> \in reports
          /\ r.op = "leave" => a \in answered

CommandsAreFounded ==
  command = [a \in Actors |-> command[a]] /\ \A a \in Actors : Founded(a, command[a])

SubInv == ProcIsTrue /\ CommandsAreFounded /\ EndsAsAgreed

-----------------------------------------------------------------------------
(* The fleet.                                                              *)

\* One command at a time.
Alone ==
  /\ shell = [s \in Shells |-> shell[s]]
  /\ \A s, t \in Shells : shell[s] # NoShell /\ shell[t] # NoShell => s = t

Kinds == {"append", "drop", "set"}

\* What a command carries, place by place.
Fields(c) ==
  IF c.op = "none" THEN {"op"}
  ELSE {"op", "kind", "entry", "purge"} \cup
         (IF c.op \in {"open", "write", "rename"} THEN {"new"} ELSE {}) \cup
         (IF c.op \in {"write", "rename"} THEN {"file"} ELSE {})

Shaped(c) ==
  /\ c = [f \in DOMAIN c |-> c[f]] /\ Fields(c) \subseteq DOMAIN c
  /\ c.op \in {"none", "materialize", "read", "open", "write", "rename", "remove", "emit"}
  /\ c.op = "none" => c = NoShell
  /\ c.op # "none" => c.kind \in Kinds

FilesAreApart ==
  /\ conf \in Inodes /\ tmp \in Inodes \cup {NoTmp} /\ tmp # conf
  /\ inode = [i \in Inodes |-> inode[i]]

\* How far a command has come.
Underway(c) ==
  /\ c.op \in {"open", "write", "rename"} => c.new = Change(c, whole)
  /\ c.op \in {"write", "rename"} => c.file = tmp /\ tmp \in Inodes
  /\ c.op = "write" => inode[tmp] = {}
  /\ c.op = "rename" => inode[tmp] = c.new
  /\ c.op = "materialize" => c.kind = "append"
  /\ c.op \in {"read", "open", "write", "rename"} /\ c.kind = "append" =>
       c.entry[1] \in instances \cap homes
  /\ c.op = "remove" => c.entry[1] \notin NamesIn(whole)

Whole == inode[conf] = whole /\ NamesIn(whole) \subseteq instances \cap homes

\* Nothing is said of commands that overlap.
FleetInv ==
  /\ overlapped \in BOOLEAN
  /\ ~overlapped => /\ FilesAreApart /\ Whole /\ Alone
                    /\ \A s \in Shells : Shaped(shell[s]) /\ Underway(shell[s])

-----------------------------------------------------------------------------
(* Packages.                                                               *)

Frames == [bundle : Bundles, left : Seq(Bundles), at : {"deps", "copy", "copying", "activate", "hooks"}]

\* An install that nothing disturbed runs alone.
CleanIsAlone ==
  \A p, q \in Managers : paiman[p] # NoRun /\ paiman[p].clean /\ q # p => paiman[q] = NoRun

PaimanShape(r) ==
  \/ r = NoRun
  \/ r = [op |-> r.op, root |-> r.root, clean |-> r.clean] /\ r.op \in {"unlink", "rmtree"}
  \/ /\ r = [op |-> r.op, root |-> r.root, stack |-> r.stack, seen |-> r.seen, clean |-> r.clean]
     /\ r.op = "install" /\ r.stack \in Seq(Frames) /\ r.stack # <<>> /\ r.seen \subseteq Bundles

PkgTypeOK ==
  /\ registry = [b \in Bundles |-> registry[b]] /\ staged = [b \in Bundles |-> staged[b]]
  /\ paiman = [p \in Managers |-> paiman[p]] /\ \A p \in Managers : PaimanShape(paiman[p])

\* A dep that was met is the registry's, or was taken up by this install.
Fine(r, x) == x \in r.seen \/ staged[x] = registry[x]
Stacked(r) == {r.stack[i].bundle : i \in 1..Len(r.stack)}

\* The stack of an install that nothing disturbed.
StackIsSound(r) ==
  /\ Stacked(r) \subseteq r.seen
  /\ \A i, j \in 1..Len(r.stack) : r.stack[i].bundle = r.stack[j].bundle => i = j
  /\ \A i \in 1..Len(r.stack) :
       /\ i < Len(r.stack) => r.stack[i].at = "deps"
       /\ r.stack[i].at # "deps" => r.stack[i].left = <<>>
       /\ r.stack[i].at \in {"activate", "hooks"} =>
            staged[r.stack[i].bundle] = registry[r.stack[i].bundle]
       /\ \A x \in ToSet(DepsOf[r.stack[i].bundle]) : x \in ToSet(r.stack[i].left) \/ Fine(r, x)

\* The bundles it is done with.
DoneIsCurrent(r) ==
  \A b \in r.seen \ Stacked(r) : Current(b) /\ \A x \in ToSet(DepsOf[b]) : Fine(r, x)

PkgInv ==
  /\ PkgTypeOK /\ CleanIsAlone
  /\ \A p \in Managers : Installs(p) /\ paiman[p].clean => StackIsSound(paiman[p]) /\ DoneIsCurrent(paiman[p])
-----------------------------------------------------------------------------
(* Nothing is logged in retrospect.                                        *)

LEMMA CoworkStarts == CoworkInit => CoworkInv
BY DEF CoworkInit, CoworkInv, CopiesAreSeen, SeededIsAhead, Unseeded, WindowLine

\* A step that moves lines of the pipe to nowhere, or a sidecar away or to its start.
LEMMA WindowKeeps ==
  ASSUME CoworkInv, UNCHANGED clips, pipe' \in {pipe, <<>>, <<FatalLine>>},
         \/ seen' = seen /\ sidecar' \in {sidecar, "none"}
         \/ seen' = Unseeded
  PROVE  CoworkInv'
<1> USE DEF FatalLine, WindowLine
<1>1. Unseeded = -1
  BY DEF Unseeded
<1>2. /\ pipe' \in Seq(Int)
      /\ \A i \in 1..Len(pipe') : pipe'[i] >= -1 /\ (pipe'[i] > 0 => pipe'[i] <= copies /\ pipe'[i] \notin unseen)
  <2>1. CASE pipe' = pipe
    BY <1>1, <2>1 DEF CoworkInv, CopiesAreSeen
  <2>2. CASE pipe' = <<>>
    BY <2>2
  <2>3. CASE pipe' = <<-1>>
    <3>1. Len(pipe') = 1 /\ pipe'[1] = -1 /\ pipe' \in Seq(Int)
      BY <2>3
    <3> QED
      BY <3>1
  <2> QED
    BY <1>1, <2>1, <2>2, <2>3
<1>3. seen' \in Int /\ seen' <= copies
  BY <1>1 DEF CoworkInv, CopiesAreSeen
<1> QED
  BY <1>1, <1>2, <1>3 DEF CoworkInv, CopiesAreSeen, SeededIsAhead, clips

LEMMA CopyKeeps == ASSUME CoworkInv, Copy PROVE CoworkInv'
<1> USE DEF FatalLine, WindowLine
<1>1. /\ copies' = copies + 1 /\ UNCHANGED <<sidecar, pipe, seen, clipLog>>
      /\ unseen' = (IF sidecar = "none" THEN unseen \cup {copies'} ELSE unseen)
  BY DEF Copy, windowSide
<1>2. copies \in Nat /\ seen \in Int /\ seen <= copies /\ pipe \in Seq(Int)
  BY DEF CoworkInv, CopiesAreSeen
<1>3. \A n \in clipLog : n \in Int /\ n <= copies
  BY <1>2 DEF CoworkInv, CopiesAreSeen
<1>4. unseen' \subseteq 1..copies' /\ clipLog \subseteq (1..copies') \ unseen'
  BY <1>1, <1>2, <1>3 DEF CoworkInv, CopiesAreSeen
<1>5. ASSUME NEW i \in 1..Len(pipe), pipe[i] > 0 PROVE pipe[i] <= copies' /\ pipe[i] \notin unseen'
  <2>1. pipe[i] \in Int /\ pipe[i] <= copies /\ pipe[i] \notin unseen
    BY <1>2, <1>5 DEF CoworkInv, CopiesAreSeen
  <2> QED
    BY <1>1, <1>2, <2>1
<1> QED
  BY <1>1, <1>2, <1>4, <1>5 DEF CoworkInv, CopiesAreSeen, SeededIsAhead

\* What a sidecar reports was copied since its first sample, while it ran.
LEMMA ReportKeeps == ASSUME CoworkInv, AppActivated PROVE CoworkInv'
<1> USE DEF FatalLine, WindowLine
<1>1. /\ sidecar = "up" /\ pipe' = pipe \o <<WindowLine>> \o Sampled /\ seen' = copies
      /\ UNCHANGED <<sidecar, copies, unseen, clipLog>>
  BY DEF AppActivated, clips
<1>2. copies \in Nat /\ seen \in Int /\ seen <= copies /\ pipe \in Seq(Int)
  BY DEF CoworkInv, CopiesAreSeen
<1>3. /\ Sampled \in Seq(Int)
      /\ \A i \in 1..Len(Sampled) : Sampled[i] >= 0 /\ Sampled[i] <= copies /\ Sampled[i] \notin unseen
  <2>1. CASE seen # Unseeded /\ seen # copies
    <3>1. Sampled = <<copies>> /\ copies \notin unseen
      BY <1>1, <1>2, <2>1 DEF Sampled, CoworkInv, SeededIsAhead
    <3> QED
      BY <1>2, <3>1
  <2>2. CASE ~(seen # Unseeded /\ seen # copies)
    BY <2>2 DEF Sampled
  <2> QED
    BY <2>1, <2>2
<1>4. pipe' \in Seq(Int)
  BY <1>1, <1>2, <1>3
<1>5. ASSUME NEW i \in 1..Len(pipe')
      PROVE  pipe'[i] >= -1 /\ (pipe'[i] > 0 => pipe'[i] <= copies /\ pipe'[i] \notin unseen)
  <2>1. CASE i \in 1..Len(pipe)
    BY <1>1, <1>2, <1>3, <1>5, <2>1 DEF CoworkInv, CopiesAreSeen
  <2>2. CASE i = Len(pipe) + 1
    BY <1>1, <1>2, <1>3, <1>5, <2>2
  <2>3. CASE i > Len(pipe) + 1
    <3>1. i - Len(pipe) - 1 \in 1..Len(Sampled) /\ pipe'[i] = Sampled[i - Len(pipe) - 1]
      BY <1>1, <1>2, <1>3, <1>5, <2>3
    <3> QED
      BY <1>3, <3>1
  <2> QED
    BY <1>2, <2>1, <2>2, <2>3
<1>6. SeededIsAhead'
  BY <1>1, <1>2 DEF CoworkInv, CopiesAreSeen, SeededIsAhead
<1> QED
  BY <1>1, <1>2, <1>4, <1>5, <1>6 DEF CoworkInv, CopiesAreSeen

\* The supervisor takes a line, and logs it or not.
LEMMA ReadKeeps == ASSUME CoworkInv, HandleLine \/ OverlongLine PROVE CoworkInv'
<1> USE DEF FatalLine, WindowLine
<1>1. /\ pipe # <<>> /\ pipe' = Tail(pipe) /\ UNCHANGED <<sidecar, seen, copies, unseen>>
      /\ clipLog' = clipLog \/ (clipLog' = clipLog \cup {Head(pipe)} /\ Head(pipe) \notin {FatalLine, WindowLine})
  BY DEF HandleLine, OverlongLine, clips
<1>2. copies \in Nat /\ pipe \in Seq(Int)
  BY DEF CoworkInv, CopiesAreSeen
<1>3. /\ Head(pipe) = pipe[1] /\ 1 \in 1..Len(pipe) /\ pipe' \in Seq(Int)
      /\ \A i \in 1..Len(pipe') : i + 1 \in 1..Len(pipe) /\ pipe'[i] = pipe[i + 1]
  BY <1>1, <1>2
<1>4. \A i \in 1..Len(pipe') : pipe'[i] >= -1 /\ (pipe'[i] > 0 => pipe'[i] <= copies /\ pipe'[i] \notin unseen)
  BY <1>2, <1>3 DEF CoworkInv, CopiesAreSeen
<1>5. pipe[1] \notin {-1, 0} => pipe[1] \in (1..copies) \ unseen
  <2>1. pipe[1] \in Int /\ pipe[1] >= -1
    BY <1>2, <1>3 DEF CoworkInv, CopiesAreSeen
  <2>2. pipe[1] > 0 => pipe[1] <= copies /\ pipe[1] \notin unseen
    BY <1>2, <1>3 DEF CoworkInv, CopiesAreSeen
  <2> QED
    BY <1>2, <2>1, <2>2
<1>6. clipLog' \subseteq (1..copies) \ unseen
  <2>1. clipLog \subseteq (1..copies) \ unseen
    BY DEF CoworkInv, CopiesAreSeen
  <2>2. clipLog' = clipLog \/ (clipLog' = clipLog \cup {pipe[1]} /\ pipe[1] \notin {-1, 0})
    BY <1>1, <1>3
  <2> QED
    BY <1>5, <2>1, <2>2
<1> QED
  BY <1>1, <1>2, <1>3, <1>4, <1>6 DEF CoworkInv, CopiesAreSeen, SeededIsAhead

LEMMA CoworkStep == CoworkInv /\ [CoworkNext]_coworkVars => CoworkInv'
<1> SUFFICES ASSUME CoworkInv, [CoworkNext]_coworkVars PROVE CoworkInv'
  OBVIOUS
<1>1. CASE UNCHANGED coworkVars
  BY <1>1, WindowKeeps DEF coworkVars, clips
<1>2. CASE \E facet \in Facets : FlipFreeze(facet)
  BY <1>2, WindowKeeps DEF FlipFreeze
<1>3. CASE Pause \/ Resume \/ SpawnSidecar \/ SeeFlip \/ SidecarExited \/ EndSidecar \/ EndBackoff
  BY <1>3, WindowKeeps DEF Pause, Resume, SpawnSidecar, SeeFlip, SidecarExited, EndSidecar, EndBackoff
<1>4. CASE SidecarRefuses \/ SidecarDies \/ StartCowork \/ StopCowork
  BY <1>4, WindowKeeps DEF SidecarRefuses, SidecarDies, StartCowork, StopCowork
<1>5. CASE StreamFails \/ (\E f \in Files : DeliverBatch(<<f>>)) \/ FileTasks \/ AskSource
  BY <1>5, WindowKeeps DEF StreamFails, DeliverBatch, FileTasks, TakeBatch, LogFile, AskSource, windowSide
<1> QED
  BY <1>1, <1>2, <1>3, <1>4, <1>5, CopyKeeps, ReportKeeps, ReadKeeps DEF CoworkNext, CoworkTasks

\* A copy made while no sidecar ran is never logged, however often sidecars come, go and die.
THEOREM CopiesAreNotLoggedLate == CoworkSpec => []NothingRetroactive
<1>1. CoworkInv => NothingRetroactive
  BY DEF CoworkInv, CopiesAreSeen, NothingRetroactive
<1> QED
  BY <1>1, CoworkStarts, CoworkStep, PTL DEF CoworkSpec
-----------------------------------------------------------------------------
(* Children end as agreed.                                                 *)

LEMMA LeastChild == ASSUME NEW S, S \subseteq Nat, S # {} PROVE \E d \in S : \A e \in S : d <= e
<1> DEFINE Less == {x \in Nat \X Nat : x[1] < x[2]}
<1>1. IsWellFoundedOn(Less, Nat)
  BY NatLessThanWellFounded DEF OpToRel
<1>2. \A e, d \in Nat : e < d => <<e, d>> \in Less
  OBVIOUS
<1> HIDE DEF Less
<1>3. PICK d \in S : \A e \in S : <<e, d>> \notin Less
  BY <1>1, WFMin
<1>4. \A e \in S : d <= e
  <2> TAKE e \in S
  <2>1. ~(e < d)
    BY <1>2, <1>3
  <2> QED
    BY <2>1
<1> QED
  BY <1>4

LEMMA NoSlugIsNone == NoSlug \notin Slugs
BY SubagentsAssumption DEF NoSlug, Slugs

LEMMA SubStarts == SubInit => SubInv
<1> SUFFICES ASSUME SubInit PROVE SubInv
  OBVIOUS
<1>1. DOMAIN proc = {} /\ proc = [s \in DOMAIN proc |-> proc[s]]
  BY DEF SubInit
<1>2. ProcIsTrue /\ Born = {}
  BY <1>1 DEF SubInit, ProcIsTrue, Born
<1>3. CommandsAreFounded
  BY DEF SubInit, CommandsAreFounded, Founded, NoCommand
<1> QED
  BY <1>2, <1>3 DEF SubInv, EndsAsAgreed

\* A live child is in /proc under the slug it was born with.
LEMMA SlugIsOwn ==
  ASSUME ProcIsTrue, NEW c \in Children, c \in Alive
  PROVE  SlugOf(c) = bornAs[c] /\ bornAs[c] \in DOMAIN proc /\ proc[bornAs[c]].pid = c /\ c \in Born
<1>1. PICK s \in DOMAIN proc : proc[s].pid = c
  BY DEF Alive
<1>2. bornAs[c] = s /\ s # NoSlug
  BY <1>1, NoSlugIsNone DEF ProcIsTrue
<1>3. \A t \in DOMAIN proc : proc[t].pid = c => t = s
  BY <1>2 DEF ProcIsTrue
<1>4. SlugOf(c) = s
  BY <1>1, <1>3 DEF SlugOf
<1> QED
  BY <1>1, <1>2, <1>4 DEF Born

\* What one command does to itself leaves the others founded.
LEMMA CommandKeeps ==
  ASSUME SubInv, NEW a \in Actors, NEW r, command' = [command EXCEPT ![a] = r],
         UNCHANGED births, reports \subseteq reports', answered \subseteq answered',
         Founded(a, r)'
  PROVE  CommandsAreFounded'
<1>1. UNCHANGED <<bornAs, childSpec, Born>>
  BY DEF births, Born
<1>2. command' = [b \in Actors |-> IF b = a THEN r ELSE command[b]]
  BY DEF SubInv, CommandsAreFounded
<1>3. ASSUME NEW b \in Actors PROVE Founded(b, command[b])'
  <2>1. CASE b = a
    BY <1>2, <2>1
  <2>2. CASE b # a
    BY <1>1, <1>2, <2>2 DEF SubInv, CommandsAreFounded, Founded
  <2> QED
    BY <2>1, <2>2
<1> QED
  BY <1>2, <1>3 DEF CommandsAreFounded

\* Who has ended as agreed stays so.
LEMMA StaysAgreed ==
  ASSUME EndsAsAgreed, UNCHANGED births, reports \subseteq reports', answered \subseteq answered',
         noticed \subseteq noticed', killed \subseteq killed',
         NEW c \in Born, c \notin Alive, Lone(c)
  PROVE  /\ c \in noticed' \/ (c \in answered' /\ <<childSpec'[c].parent, bornAs'[c]>> \in reports')
         /\ ~childSpec'[c].suicide => c \in killed'
BY DEF EndsAsAgreed, births

\* Steps that leave /proc alone.
LEMMA QuietKeeps ==
  ASSUME SubInv, UNCHANGED <<proc, births>>, reports \subseteq reports', answered \subseteq answered',
         UNCHANGED <<noticed, killed>>, CommandsAreFounded'
  PROVE  SubInv'
<1>1. UNCHANGED <<bornAs, childSpec, Born, Alive>> /\ \A c \in Children : Lone(c)' <=> Lone(c)
  BY DEF births, Born, Alive, Lone
<1>2. ProcIsTrue'
  BY <1>1 DEF SubInv, ProcIsTrue
<1>3. EndsAsAgreed'
  BY <1>1, StaysAgreed DEF SubInv, EndsAsAgreed, Born
<1> QED
  BY <1>2, <1>3 DEF SubInv

LEMMA LookKeeps ==
  ASSUME SubInv,
         \/ \E a \in Parents, b \in Bases, package, suicide \in BOOLEAN : BeginSpawn(a, b, package, suicide)
         \/ \E a \in Parents, s \in Slugs : BeginKill(a, s)
         \/ \E a \in Parents : Kickoff(a)
         \/ \E a \in Actors : LoseCommand(a)
  PROVE  SubInv'
<1>1. ASSUME NEW a \in Actors, Ends(a), UNCHANGED <<proc, reports, births, ends>> PROVE SubInv'
  <2>1. Founded(a, NoCommand)'
    BY DEF Founded, NoCommand
  <2> QED
    BY <1>1, <2>1, CommandKeeps, QuietKeeps DEF Ends, ends
<1>2. ASSUME NEW a \in Parents, NEW b \in Bases, NEW package \in BOOLEAN, NEW suicide \in BOOLEAN,
             BeginSpawn(a, b, package, suicide)
      PROVE  SubInv'
  <2> PICK r : r = [op |-> "spawn", slug |-> AllocateSlug(b), suicide |-> suicide]
    OBVIOUS
  <2>1. AllocateSlug(b) \in Slugs
    BY DEF AllocateSlug, Slugs
  <2>2. Founded(a, r)'
    BY <2>1, SubagentsAssumption DEF Founded
  <2>3. command' = [command EXCEPT ![a] = r] /\ UNCHANGED <<proc, reports, births, ends>>
    BY <1>2 DEF BeginSpawn, Goes
  <2> QED
    BY <2>2, <2>3, CommandKeeps, QuietKeeps DEF ends, Actors
<1>3. ASSUME NEW a \in Parents, NEW s \in Slugs, BeginKill(a, s) PROVE SubInv'
  <2> DEFINE r == [op |-> "kill", slug |-> s]
  <2>1. /\ s \in DOMAIN proc /\ proc[s].parent = a /\ command' = [command EXCEPT ![a] = r]
        /\ UNCHANGED <<proc, reports, births, ends>>
    BY <1>3 DEF BeginKill, Goes
  <2>2. \E d \in Born : bornAs[d] = s /\ childSpec[d].parent = a
    BY <2>1, NoSlugIsNone DEF SubInv, ProcIsTrue, Born
  <2>3. Founded(a, r)'
    BY <2>1, <2>2, SubagentsAssumption DEF Founded, births, Born
  <2> QED
    BY <2>1, <2>3, CommandKeeps, QuietKeeps DEF ends, Actors
<1>4. ASSUME NEW a \in Parents, Kickoff(a) PROVE SubInv'
  BY <1>1, <1>4 DEF Kickoff, Actors
<1>5. ASSUME NEW a \in Actors, LoseCommand(a) PROVE SubInv'
  BY <1>1, <1>5 DEF LoseCommand
<1> QED
  BY <1>2, <1>3, <1>4, <1>5

LEMMA AnswerKeeps ==
  ASSUME SubInv, NEW c \in Children, WriteReport(c) \/ BeginDone(c) \/ EmitParentResponse(c)
  PROVE  SubInv'
<1>1. c \in Actors /\ c \notin Parents
  BY SubagentsAssumption DEF Actors
<1>2. CASE WriteReport(c)
  <2>1. UNCHANGED <<command, bornAs, childSpec, Born, answered>> /\ reports \subseteq reports'
    BY <1>2 DEF WriteReport, births, ends, Born
  <2>2. CommandsAreFounded'
    BY <2>1 DEF SubInv, CommandsAreFounded, Founded
  <2> QED
    BY <1>2, <2>1, <2>2, QuietKeeps DEF WriteReport, ends
<1>3. CASE BeginDone(c)
  <2> PICK r : r = [op |-> "respond", slug |-> SlugOf(c)]
    OBVIOUS
  <2>1. /\ c \in Alive /\ proc[SlugOf(c)].suicide /\ <<childSpec[c].parent, SlugOf(c)>> \in reports
        /\ command' = [command EXCEPT ![c] = r] /\ UNCHANGED <<proc, reports, births, ends>>
    BY <1>3 DEF BeginDone, Idle, EnsureCanFinish, ResultThere, Goes
  <2>2. SlugOf(c) = bornAs[c] /\ c \in Born /\ childSpec[c] = proc[bornAs[c]]
    BY <2>1, SlugIsOwn DEF SubInv, ProcIsTrue
  <2>3. Founded(c, r)'
    BY <1>1, <2>1, <2>2 DEF Founded, births, ends, Born
  <2> QED
    BY <1>1, <2>1, <2>3, CommandKeeps, QuietKeeps DEF ends
<1>4. CASE EmitParentResponse(c)
  <2> PICK r : r = [command[c] EXCEPT !.op = "leave"]
    OBVIOUS
  <2>1. /\ command[c].op = "respond" /\ answered' = answered \cup {c} /\ command' = [command EXCEPT ![c] = r]
        /\ UNCHANGED <<proc, reports, births, noticed, killed>>
    BY <1>4 DEF EmitParentResponse, At, Goes
  <2>2. /\ command[c] = [op |-> command[c].op, slug |-> bornAs[c]] /\ c \in Born
        /\ childSpec[c].suicide /\ <<childSpec[c].parent, bornAs[c]>> \in reports
    BY <1>1, <2>1 DEF SubInv, CommandsAreFounded, Founded, NoCommand
  <2>3. r = [op |-> "leave", slug |-> bornAs[c]]
    BY <2>2
  <2>4. Founded(c, r)'
    BY <1>1, <2>1, <2>2, <2>3 DEF Founded, births, Born
  <2> QED
    BY <1>1, <2>1, <2>4, CommandKeeps, QuietKeeps
<1> QED
  BY <1>2, <1>3, <1>4

\* A child that is spawned lives, and takes the name of nobody who is alone under his.
LEMMA SpawnKeeps == ASSUME SubInv, NEW a \in Parents, SpawnChild(a) PROVE SubInv'
<1> DEFINE slug == command[a].slug
           c    == CHOOSE d \in Children \ Born : \A e \in Children \ Born : d <= e
           spec == [pid |-> c, parent |-> a, suicide |-> command[a].suicide]
<1>1. /\ command[a].op = "spawn" /\ Born # Children /\ UNCHANGED <<reports, ends>>
      /\ IF slug \in DOMAIN proc
         THEN Ends(a) /\ UNCHANGED <<proc, births>>
         ELSE /\ proc' = [s \in DOMAIN proc \cup {slug} |-> IF s = slug THEN spec ELSE proc[s]]
              /\ bornAs' = [bornAs EXCEPT ![c] = slug]
              /\ childSpec' = [childSpec EXCEPT ![c] = spec]
              /\ Goes(a, [op |-> "kickoff", child |-> c])
  BY DEF SpawnChild, At
<1>2. c \in Children \ Born
  <2>1. Children \ Born # {} /\ Children \ Born \subseteq Nat
    BY <1>1, SubagentsAssumption DEF Born
  <2> QED
    BY <2>1, LeastChild
<1>3. a \in Actors /\ a \notin Children /\ slug \in Slugs
  BY <1>1, SubagentsAssumption DEF Actors, SubInv, CommandsAreFounded, Founded
<1>4. CASE slug \in DOMAIN proc
  <2>1. Founded(a, NoCommand)'
    BY DEF Founded, NoCommand
  <2> QED
    BY <1>1, <1>3, <1>4, <2>1, CommandKeeps, QuietKeeps DEF Ends, ends
<1>5. CASE slug \notin DOMAIN proc
  <2>1. /\ proc' = [s \in DOMAIN proc \cup {slug} |-> IF s = slug THEN spec ELSE proc[s]]
        /\ bornAs' = [bornAs EXCEPT ![c] = slug]
        /\ childSpec' = [childSpec EXCEPT ![c] = spec]
        /\ command' = [command EXCEPT ![a] = [op |-> "kickoff", child |-> c]]
        /\ UNCHANGED <<reports, answered, noticed, killed>>
    BY <1>1, <1>5 DEF Goes, ends
  <2> HIDE DEF slug, c
  <2>2. /\ bornAs[c] = NoSlug /\ slug # NoSlug /\ bornAs'[c] = slug /\ childSpec'[c] = spec
        /\ \A d \in Children : d # c => bornAs'[d] = bornAs[d] /\ childSpec'[d] = childSpec[d]
        /\ Born' = Born \cup {c}
    BY <1>2, <1>3, <2>1, NoSlugIsNone DEF SubInv, ProcIsTrue, Born
  <2>3. \A s \in DOMAIN proc : proc[s].pid \in Children /\ proc[s].pid # c
    BY <2>2, NoSlugIsNone DEF SubInv, ProcIsTrue
  <2>4. ProcIsTrue'
    <3>1. DOMAIN proc' = DOMAIN proc \cup {slug} /\ proc' = [s \in DOMAIN proc' |-> proc'[s]]
      BY <2>1
    <3>2. bornAs' \in [Children -> Slugs \cup {NoSlug}] /\ childSpec' = [d \in Children |-> childSpec'[d]]
      BY <1>2, <1>3, <2>1 DEF SubInv, ProcIsTrue
    <3>3. ASSUME NEW s \in DOMAIN proc'
          PROVE  /\ proc'[s].pid \in Children /\ bornAs'[proc'[s].pid] = s
                 /\ childSpec'[proc'[s].pid] = proc'[s]
      <4>1. CASE s = slug
        <5>1. proc'[s] = spec /\ spec.pid = c
          BY <2>1, <4>1
        <5> QED
          BY <1>2, <2>2, <4>1, <5>1
      <4>2. CASE s # slug
        <5>1. s \in DOMAIN proc /\ proc'[s] = proc[s]
          BY <2>1, <3>1, <4>2
        <5> QED
          BY <2>2, <2>3, <5>1 DEF SubInv, ProcIsTrue
      <4> QED
        BY <4>1, <4>2
    <3>4. DOMAIN proc' \subseteq Slugs
      BY <1>3, <3>1 DEF SubInv, ProcIsTrue
    <3> QED
      BY <3>1, <3>2, <3>3, <3>4 DEF ProcIsTrue
  <2>5. CommandsAreFounded'
    <3>1. command' = [b \in Actors |-> IF b = a THEN [op |-> "kickoff", child |-> c] ELSE command[b]]
      BY <2>1 DEF SubInv, CommandsAreFounded
    <3>2. ASSUME NEW b \in Actors PROVE Founded(b, command[b])'
      <4>1. CASE b = a
        BY <1>3, <3>1, <4>1 DEF Founded
      <4>2. CASE b # a
        <5>1. command'[b] = command[b] /\ Founded(b, command[b])
          BY <3>1, <4>2 DEF SubInv, CommandsAreFounded
        <5>2. \A d \in Born : d \in Born' /\ d # c /\ bornAs'[d] = bornAs[d] /\ childSpec'[d] = childSpec[d]
          BY <1>2, <2>2 DEF Born
        <5> QED
          BY <2>1, <5>1, <5>2 DEF Founded
      <4> QED
        BY <4>1, <4>2
    <3> QED
      BY <3>1, <3>2 DEF CommandsAreFounded
  <2>6. EndsAsAgreed'
    <3>1. Alive \subseteq Alive' /\ c \in Alive'
      <4>1. \A s \in DOMAIN proc : s \in DOMAIN proc' /\ proc'[s] = proc[s]
        BY <1>5, <2>1
      <4>2. slug \in DOMAIN proc' /\ proc'[slug].pid = c
        BY <2>1
      <4> QED
        BY <4>1, <4>2 DEF Alive
    <3>2. ASSUME NEW d \in Born', d \notin Alive', Lone(d)' 
          PROVE  /\ d \in noticed' \/ (d \in answered' /\ <<childSpec'[d].parent, bornAs'[d]>> \in reports')
                 /\ ~childSpec'[d].suicide => d \in killed'
      <4>1. d \in Born /\ d # c /\ d \notin Alive /\ bornAs'[d] = bornAs[d] /\ childSpec'[d] = childSpec[d]
        BY <2>2, <3>1, <3>2 DEF Born
      <4>2. Lone(d)
        BY <1>2, <2>2, <3>2, <4>1 DEF Lone, Born
      <4> QED
        BY <2>1, <4>1, <4>2 DEF SubInv, EndsAsAgreed
    <3> QED
      BY <3>2 DEF EndsAsAgreed
  <2> QED
    BY <2>4, <2>5, <2>6 DEF SubInv
<1> QED
  BY <1>4, <1>5

\* Out of /proc goes who was there under the slug.
LEMMA ResolveKeeps ==
  ASSUME SubInv, NEW slug \in DOMAIN proc, proc' = [s \in DOMAIN proc \ {slug} |-> proc[s]],
         UNCHANGED <<births, reports, answered>>, noticed \subseteq noticed', killed \subseteq killed',
         CommandsAreFounded',
         \A c \in Born : bornAs[c] = slug /\ Lone(c) /\ childSpec[c] = proc[slug] /\ proc[slug].pid = c =>
           /\ c \in noticed' \/ (c \in answered /\ <<childSpec[c].parent, bornAs[c]>> \in reports)
           /\ ~childSpec[c].suicide => c \in killed'
  PROVE  SubInv'
<1>1. /\ UNCHANGED <<bornAs, childSpec, Born>> /\ \A c \in Children : Lone(c)' <=> Lone(c)
      /\ DOMAIN proc' = DOMAIN proc \ {slug} /\ \A s \in DOMAIN proc' : proc'[s] = proc[s]
      /\ proc' = [s \in DOMAIN proc' |-> proc'[s]]
  BY DEF births, Born, Lone
<1>2. ProcIsTrue'
  BY <1>1 DEF SubInv, ProcIsTrue
<1>3. ASSUME NEW c \in Born', c \notin Alive', Lone(c)'
      PROVE  /\ c \in noticed' \/ (c \in answered' /\ <<childSpec'[c].parent, bornAs'[c]>> \in reports')
             /\ ~childSpec'[c].suicide => c \in killed'
  <2>1. c \in Born /\ c \in Children /\ Lone(c)
    BY <1>1, <1>3 DEF Born
  <2>2. CASE c \notin Alive
    BY <2>1, <2>2, StaysAgreed DEF SubInv
  <2>3. CASE c \in Alive
    <3>1. bornAs[c] \in DOMAIN proc /\ proc[bornAs[c]].pid = c /\ childSpec[c] = proc[bornAs[c]]
      BY <2>1, <2>3, SlugIsOwn DEF SubInv, ProcIsTrue
    <3>2. bornAs[c] \notin DOMAIN proc'
      BY <1>1, <1>3, <3>1 DEF Alive
    <3>3. bornAs[c] = slug
      BY <1>1, <3>1, <3>2
    <3> QED
      BY <1>1, <2>1, <3>1, <3>3
  <2> QED
    BY <2>2, <2>3
<1>4. EndsAsAgreed'
  BY <1>3 DEF EndsAsAgreed
<1> QED
  BY <1>2, <1>4 DEF SubInv

LEMMA EndKeeps ==
  ASSUME SubInv, (\E c \in Children : ResolveDone(c)) \/ (\E a \in Parents : KillChild(a))
  PROVE  SubInv'
<1>1. ASSUME NEW a \in Actors, Ends(a), UNCHANGED <<births, reports, answered>> PROVE CommandsAreFounded'
  <2>1. Founded(a, NoCommand)'
    BY DEF Founded, NoCommand
  <2> QED
    BY <1>1, <2>1, CommandKeeps DEF Ends
<1>2. ASSUME NEW c \in Children, ResolveDone(c) PROVE SubInv'
  <2>1. /\ command[c].op = "leave" /\ UNCHANGED <<births, reports, answered, killed>> /\ Ends(c)
    BY <1>2 DEF ResolveDone, At
  <2>2. /\ command[c].slug = bornAs[c] /\ c \in Born /\ childSpec[c].suicide
        /\ <<childSpec[c].parent, bornAs[c]>> \in reports /\ c \in answered
    <3>1. Founded(c, command[c]) /\ command[c] # NoCommand
      BY <2>1 DEF SubInv, CommandsAreFounded, NoCommand, Actors
    <3>2. /\ command[c] = [op |-> command[c].op, slug |-> bornAs[c]] /\ c \in Born
          /\ childSpec[c].suicide /\ <<childSpec[c].parent, bornAs[c]>> \in reports /\ c \in answered
      BY <2>1, <3>1 DEF Founded
    <3> QED
      BY <3>2
  <2>3. CommandsAreFounded'
    BY <1>1, <2>1 DEF Actors
  <2>4. CASE bornAs[c] \in DOMAIN proc
    <3>1. proc' = [s \in DOMAIN proc \ {bornAs[c]} |-> proc[s]] /\ noticed' = noticed
      BY <1>2, <2>2, <2>4 DEF ResolveDone, Resolve
    <3>2. ASSUME NEW d \in Born, bornAs[d] = bornAs[c], Lone(d) PROVE d = c
      BY <2>2, <3>2 DEF Lone, Born
    <3> QED
      BY <2>1, <2>2, <2>3, <2>4, <3>1, <3>2, ResolveKeeps
  <2>5. CASE bornAs[c] \notin DOMAIN proc
    <3>1. UNCHANGED <<proc, noticed>>
      BY <1>2, <2>2, <2>5 DEF ResolveDone
    <3> QED
      BY <2>1, <2>3, <3>1, QuietKeeps
  <2> QED
    BY <2>4, <2>5
<1>3. ASSUME NEW a \in Parents, KillChild(a) PROVE SubInv'
  <2> DEFINE slug == command[a].slug
  <2>1. /\ command[a].op = "kill" /\ UNCHANGED <<births, reports, answered>> /\ Ends(a)
    BY <1>3 DEF KillChild, At
  <2>2. PICK d \in Born : bornAs[d] = slug /\ childSpec[d].parent = a
    BY <2>1 DEF SubInv, CommandsAreFounded, Founded, Actors
  <2>3. CommandsAreFounded'
    BY <1>1, <2>1 DEF Actors
  <2>4. CASE slug \in DOMAIN proc
    <3>1. /\ proc' = [s \in DOMAIN proc \ {slug} |-> proc[s]] /\ noticed' = noticed \cup {proc[slug].pid}
          /\ killed' = IF proc[slug].parent = a THEN killed \cup {proc[slug].pid} ELSE killed
      BY <1>3, <2>4 DEF KillChild, Resolve
    <3>2. ASSUME NEW c \in Born, bornAs[c] = slug, Lone(c), childSpec[c] = proc[slug], proc[slug].pid = c
          PROVE  c \in noticed' /\ c \in killed'
      <4>1. c = d
        BY <2>2, <3>2 DEF Lone, Born
      <4> QED
        BY <2>2, <3>1, <3>2, <4>1
    <3> QED
      BY <2>1, <2>3, <2>4, <3>1, <3>2, ResolveKeeps
  <2>5. CASE slug \notin DOMAIN proc
    <3>1. UNCHANGED <<proc, noticed, killed>>
      BY <1>3, <2>5 DEF KillChild
    <3> QED
      BY <2>1, <2>3, <3>1, QuietKeeps
  <2> QED
    BY <2>4, <2>5
<1> QED
  BY <1>2, <1>3

LEMMA SubStep == SubInv /\ [SubNext]_subVars => SubInv'
<1> SUFFICES ASSUME SubInv, [SubNext]_subVars PROVE SubInv'
  OBVIOUS
<1>1. CASE UNCHANGED subVars
  <2>1. CommandsAreFounded'
    BY <1>1 DEF subVars, births, ends, SubInv, CommandsAreFounded, Founded, Born
  <2> QED
    BY <1>1, <2>1, QuietKeeps DEF subVars, births, ends
<1> QED
  BY <1>1, LookKeeps, AnswerKeeps, SpawnKeeps, EndKeeps DEF SubNext

\* A child whose slug no other child was given ends the way it was agreed, for any parents,
\* children and packages and any commands that are lost.
THEOREM ChildrenEndAsAgreed == SubSpec => []EndsAsAgreed
<1>1. SubInv => EndsAsAgreed
  BY DEF SubInv
<1> QED
  BY <1>1, SubStarts, SubStep, PTL DEF SubSpec
-----------------------------------------------------------------------------
(* The fleet stays whole.                                                  *)

\* What a change does to the names in a file.
LEMMA ChangedNames ==
  ASSUME NEW c, c.kind \in Kinds, NEW file
  PROVE  /\ NamesIn(Change(c, file)) \subseteq
              NamesIn(file) \cup (IF c.kind = "append" THEN {c.entry[1]} ELSE {})
         /\ c.kind = "drop" => c.entry[1] \notin NamesIn(Change(c, file))
<1> DEFINE others == {e \in file : e[1] # c.entry[1]}
<1>1. CASE c.kind = "append"
  BY <1>1 DEF Change, NamesIn
<1>2. CASE c.kind = "drop"
  BY <1>2 DEF Change, NamesIn
<1>3. CASE c.kind = "set"
  <2>1. Change(c, file) = IF others = file THEN file ELSE others \cup {c.entry}
    BY <1>3 DEF Change
  <2>2. others # file => \E e \in file : e[1] = c.entry[1]
    OBVIOUS
  <2> QED
    BY <1>3, <2>1, <2>2 DEF NamesIn
<1> QED
  BY <1>1, <1>2, <1>3 DEF Kinds

LEMMA TwoInodes == Inodes \subseteq Nat /\ 1 \in Inodes /\ 2 \in Inodes /\ NoTmp \notin Inodes
<1>1. Cardinality(Shells) \in Nat
  BY FS_CardinalityType, FleetAssumption
<1> QED
  BY <1>1 DEF Inodes, NoTmp

LEMMA FleetStarts == FleetInit => FleetInv
<1> SUFFICES ASSUME FleetInit PROVE FleetInv
  OBVIOUS
<1>1. FilesAreApart
  BY TwoInodes DEF FleetInit, FilesAreApart, NoTmp
<1>2. NamesIn({Entry(n, TRUE) : n \in FirstFleet}) \subseteq FirstFleet
  <2>1. \A n : Entry(n, TRUE)[1] = n
    BY DEF Entry
  <2> QED
    BY <2>1 DEF NamesIn
<1>3. Whole
  BY <1>2, TwoInodes DEF FleetInit, Whole
<1>4. \A s \in Shells : shell[s] = NoShell
  BY DEF FleetInit
<1>5. Shaped(NoShell) /\ Underway(NoShell)
  BY DEF Shaped, Underway, Fields, NoShell
<1> QED
  BY <1>1, <1>3, <1>4, <1>5 DEF FleetInv, FleetInit, Alone

\* A command that has another place is the same command.
LEMMA PlaceOfCommand ==
  ASSUME NEW c, Shaped(c), c.op # "none", NEW op
  PROVE  /\ [c EXCEPT !.op = op].op = op /\ [c EXCEPT !.op = op].kind = c.kind
         /\ [c EXCEPT !.op = op].entry = c.entry /\ [c EXCEPT !.op = op].purge = c.purge
         /\ DOMAIN [c EXCEPT !.op = op] = DOMAIN c
         /\ \A file : Change([c EXCEPT !.op = op], file) = Change(c, file)
         /\ "new" \in DOMAIN c => [c EXCEPT !.op = op].new = c.new
         /\ "file" \in DOMAIN c => [c EXCEPT !.op = op].file = c.file
         /\ {"op", "kind", "entry", "purge"} \subseteq DOMAIN c
         /\ c.op \in {"open", "write", "rename"} => "new" \in DOMAIN c
         /\ c.op \in {"write", "rename"} => "file" \in DOMAIN c
         /\ c.kind \in Kinds
<1>1. /\ c = [f \in DOMAIN c |-> c[f]] /\ {"op", "kind", "entry", "purge"} \subseteq DOMAIN c
      /\ c.op \in {"open", "write", "rename"} => "new" \in DOMAIN c
      /\ c.op \in {"write", "rename"} => "file" \in DOMAIN c
      /\ c.kind \in Kinds
  BY DEF Shaped, Fields
<1>2. [c EXCEPT !.op = op] = [f \in DOMAIN c |-> IF f = "op" THEN op ELSE c[f]]
  BY <1>1
<1> QED
  BY <1>1, <1>2 DEF Change

\* The only command goes on, and the rest is as it should be.
LEMMA ShellKeeps ==
  ASSUME FleetInv, UNCHANGED overlapped, NEW s \in Shells, shell[s] # NoShell, NEW c,
         shell' = [shell EXCEPT ![s] = c],
         ~overlapped => FilesAreApart' /\ Whole' /\ Shaped(c) /\ Underway(c)'
  PROVE  FleetInv'
<1> SUFFICES ASSUME ~overlapped
             PROVE  Alone' /\ \A t \in Shells : Shaped(shell[t])' /\ Underway(shell[t])'
  BY DEF FleetInv
<1>1. shell' = [t \in Shells |-> IF t = s THEN c ELSE shell[t]] /\ \A t \in Shells : t # s => shell[t] = NoShell
  BY DEF FleetInv, Alone
<1>2. Shaped(NoShell) /\ Underway(NoShell)'
  BY DEF Shaped, Underway, Fields, NoShell
<1>3. Alone'
  BY <1>1 DEF Alone
<1>4. ASSUME NEW t \in Shells PROVE Shaped(shell[t])' /\ Underway(shell[t])'
  <2>1. CASE t = s
    <3>1. shell'[t] = c
      BY <1>1, <2>1
    <3> QED
      BY <3>1 DEF Shaped, Underway, Fields
  <2>2. CASE t # s
    <3>1. shell'[t] = NoShell
      BY <1>1, <2>2
    <3> QED
      BY <1>2, <3>1 DEF Shaped, Underway, Fields
  <2> QED
    BY <2>1, <2>2
<1> QED
  BY <1>3, <1>4

\* A command that begins overlaps another, or is the only one.
LEMMA BeginKeeps ==
  ASSUME FleetInv, NEW s \in Shells, NEW cmd, Begin(s, cmd), Shaped(cmd),
         \/ cmd.op = "materialize" /\ cmd.kind = "append"
         \/ cmd.op = "read" /\ cmd.kind # "append"
  PROVE  FleetInv'
<1>1. /\ overlapped' = (overlapped \/ \E t \in Shells : shell[t] # NoShell)
      /\ shell' = [shell EXCEPT ![s] = cmd]
      /\ UNCHANGED <<inode, conf, tmp, whole, instances, homes>>
  BY DEF Begin, files, dirs
<1>2. overlapped' \in BOOLEAN
  BY <1>1
<1>3. ASSUME ~overlapped'
      PROVE  FilesAreApart' /\ Whole' /\ Alone' /\ \A t \in Shells : Shaped(shell[t])' /\ Underway(shell[t])'
  <2>1. ~overlapped /\ \A t \in Shells : shell[t] = NoShell
    BY <1>1, <1>3
  <2>2. /\ FilesAreApart /\ Whole /\ Alone
        /\ \A t \in Shells : shell'[t] = IF t = s THEN cmd ELSE NoShell
        /\ shell' = [t \in Shells |-> shell'[t]]
    BY <1>1, <2>1 DEF FleetInv, Alone
  <2>3. FilesAreApart' /\ Whole' /\ Alone'
    BY <1>1, <2>2 DEF FilesAreApart, Whole, Alone
  <2>4. Shaped(NoShell) /\ Underway(NoShell)' /\ Underway(cmd)'
    BY DEF Shaped, Underway, Fields, NoShell
  <2>5. ASSUME NEW t \in Shells PROVE Shaped(shell[t])' /\ Underway(shell[t])'
    <3>1. CASE t = s
      <4>1. shell'[t] = cmd
        BY <2>2, <3>1
      <4> QED
        BY <2>4, <4>1 DEF Shaped, Underway, Fields
    <3>2. CASE t # s
      <4>1. shell'[t] = NoShell
        BY <2>2, <3>2
      <4> QED
        BY <2>4, <4>1 DEF Shaped, Underway, Fields
    <3> QED
      BY <3>1, <3>2
  <2> QED
    BY <2>3, <2>5
<1> QED
  BY <1>2, <1>3 DEF FleetInv

LEMMA StartsKeep ==
  ASSUME FleetInv, NEW s \in Shells, NEW n,
         \/ BeginAdd(s, n) \/ \E source \in PaiNames : BeginClone(s, source, n)
         \/ \E b \in BOOLEAN : BeginDelete(s, n, b) \/ BeginSetActive(s, n, b)
  PROVE  FleetInv'
<1>1. CASE BeginAdd(s, n)
  <2>1. Begin(s, Command("materialize", "append", Entry(n, TRUE)))
    BY <1>1 DEF BeginAdd
  <2>2. LET c == Command("materialize", "append", Entry(n, TRUE))
        IN  c.op = "materialize" /\ c.kind = "append" /\ Shaped(c)
    BY DEF Command, Shaped, Fields, Kinds
  <2> QED
    BY <2>1, <2>2, BeginKeeps
<1>2. ASSUME NEW source \in PaiNames, BeginClone(s, source, n) PROVE FleetInv'
  <2>1. PICK e \in inode[conf] : Begin(s, Command("materialize", "append", Entry(n, e[2])))
    BY <1>2 DEF BeginClone
  <2>2. LET c == Command("materialize", "append", Entry(n, e[2]))
        IN  c.op = "materialize" /\ c.kind = "append" /\ Shaped(c)
    BY DEF Command, Shaped, Fields, Kinds
  <2> QED
    BY <2>1, <2>2, BeginKeeps
<1>3. ASSUME NEW b \in BOOLEAN, BeginDelete(s, n, b) PROVE FleetInv'
  <2>1. Begin(s, [Command("read", "drop", Entry(n, TRUE)) EXCEPT !.purge = b])
    BY <1>3 DEF BeginDelete
  <2>2. LET c == [Command("read", "drop", Entry(n, TRUE)) EXCEPT !.purge = b]
        IN  c.op = "read" /\ c.kind = "drop" /\ Shaped(c)
    BY DEF Command, Shaped, Fields, Kinds
  <2> QED
    BY <2>1, <2>2, BeginKeeps
<1>4. ASSUME NEW b \in BOOLEAN, BeginSetActive(s, n, b) PROVE FleetInv'
  <2>1. Begin(s, Command("read", "set", Entry(n, b)))
    BY <1>4 DEF BeginSetActive
  <2>2. LET c == Command("read", "set", Entry(n, b))
        IN  c.op = "read" /\ c.kind = "set" /\ Shaped(c)
    BY DEF Command, Shaped, Fields, Kinds
  <2> QED
    BY <2>1, <2>2, BeginKeeps
<1> QED
  BY <1>1, <1>2, <1>3, <1>4

\* A command that is over, or was killed, leaves at most a .tmp behind.
LEMMA ExitKeeps ==
  ASSUME FleetInv, NEW s \in Shells, shell[s] # NoShell, Exit(s),
         UNCHANGED <<inode, conf, tmp, whole, instances, homes, overlapped>>
  PROVE  FleetInv'
<1>1. Shaped(NoShell) /\ Underway(NoShell)'
  BY DEF Shaped, Underway, Fields, NoShell
<1>2. ~overlapped => FilesAreApart' /\ Whole'
  BY DEF FleetInv, FilesAreApart, Whole
<1> QED
  BY <1>1, <1>2, ShellKeeps DEF Exit

LEMMA MakeKeeps == ASSUME FleetInv, NEW s \in Shells, MakeInstance(s) PROVE FleetInv'
<1>1. shell[s].op = "materialize" /\ UNCHANGED <<inode, conf, tmp, whole, overlapped>> /\ shell[s] # NoShell
  BY DEF MakeInstance, Does, files, fleetCounts, NoShell
<1>2. CASE shell[s].entry[1] \in instances
  BY <1>1, <1>2, ExitKeeps DEF MakeInstance, dirs
<1>3. CASE shell[s].entry[1] \notin instances
  <2>1. PICK c : c = [shell[s] EXCEPT !.op = "read"]
    OBVIOUS
  <2>2. /\ shell' = [shell EXCEPT ![s] = c]
        /\ instances' = instances \cup {shell[s].entry[1]} /\ homes' = homes \cup {shell[s].entry[1]}
    BY <1>3, <2>1 DEF MakeInstance, Step
  <2>3. ASSUME ~overlapped PROVE FilesAreApart' /\ Whole' /\ Shaped(c) /\ Underway(c)'
    <3>1. Shaped(shell[s])
      BY <2>3 DEF FleetInv
    <3>2. c.op = "read" /\ c.kind = shell[s].kind /\ c.entry = shell[s].entry /\ DOMAIN c = DOMAIN shell[s]
          /\ {"op", "kind", "entry", "purge"} \subseteq DOMAIN c /\ c.kind \in Kinds
      BY <1>1, <2>1, <3>1, PlaceOfCommand
    <3>3. c = [f \in DOMAIN c |-> c[f]]
      BY <2>1, <3>1 DEF Shaped
    <3>4. Shaped(c)
      BY <3>2, <3>3 DEF Shaped, Fields
    <3>5. Underway(c)'
      BY <2>2, <3>2 DEF Underway
    <3> QED
      BY <1>1, <2>2, <2>3, <3>4, <3>5 DEF FleetInv, FilesAreApart, Whole
  <2> QED
    BY <1>1, <2>2, <2>3, ShellKeeps
<1> QED
  BY <1>2, <1>3

LEMMA ReadKeepsFleet == ASSUME FleetInv, NEW s \in Shells, ReadConfig(s) PROVE FleetInv'
<1>1. /\ shell[s].op = "read" /\ shell[s] # NoShell
      /\ UNCHANGED <<inode, conf, tmp, whole, instances, homes, overlapped>>
  BY DEF ReadConfig, Does, files, dirs, fleetCounts, NoShell
<1>2. CASE inode[conf] = Torn
  BY <1>1, <1>2, ExitKeeps DEF ReadConfig
<1>3. CASE inode[conf] # Torn
  <2> DEFINE new == Change(shell[s], inode[conf])
             op  == IF new = inode[conf] THEN AfterRename(shell[s]) ELSE "open"
  <2>1. PICK c : c = [op |-> op, kind |-> shell[s].kind, entry |-> shell[s].entry,
                      purge |-> shell[s].purge, new |-> new]
    OBVIOUS
  <2>2. shell' = [shell EXCEPT ![s] = c]
    BY <1>3, <2>1 DEF ReadConfig
  <2>3. ASSUME ~overlapped PROVE FilesAreApart' /\ Whole' /\ Shaped(c) /\ Underway(c)'
    <3>1. /\ shell[s].kind \in Kinds /\ Underway(shell[s]) /\ inode[conf] = whole
          /\ NamesIn(whole) \subseteq instances \cap homes
      BY <1>1, <2>3 DEF FleetInv, Whole, Shaped
    <3>2. c.op \in {"open", "remove", "emit"} /\ (c.op = "remove" => shell[s].kind = "drop" /\ new = inode[conf])
      BY <2>1 DEF AfterRename
    <3>3. c.kind = shell[s].kind /\ c.entry = shell[s].entry /\ c.new = new
          /\ DOMAIN c = {"op", "kind", "entry", "purge", "new"} /\ c = [f \in DOMAIN c |-> c[f]]
      BY <2>1
    <3>4. Shaped(c)
      BY <3>1, <3>2, <3>3 DEF Shaped, Fields
    <3>5. Change(c, whole) = Change(shell[s], whole)
      BY <3>3 DEF Change
    <3>6. c.op = "remove" => c.entry[1] \notin NamesIn(whole)
      BY <3>1, <3>2, <3>3, ChangedNames
    <3>7. c.kind = "append" => c.entry[1] \in instances \cap homes
      BY <1>1, <3>1, <3>3 DEF Underway
    <3>8. Underway(c)'
      BY <1>1, <3>1, <3>2, <3>3, <3>5, <3>6, <3>7 DEF Underway, Change
    <3> QED
      BY <1>1, <2>3, <3>4, <3>8 DEF FleetInv, FilesAreApart, Whole
  <2> QED
    BY <1>1, <2>2, <2>3, ShellKeeps
<1> QED
  BY <1>2, <1>3

\* Alone, a command has a .tmp of its own.
LEMMA TmpIsApart ==
  ASSUME FleetInv, ~overlapped, NEW s \in Shells, shell[s].op = "open"
  PROVE  TmpFile \in Inodes /\ TmpFile # conf
<1>1. FilesAreApart /\ Alone /\ shell[s] # NoShell
  BY DEF FleetInv, NoShell
<1>2. CASE tmp # NoTmp
  BY <1>1, <1>2 DEF TmpFile, FilesAreApart
<1>3. CASE tmp = NoTmp
  <2>1. \A t \in Shells : ~Does(t, "write") /\ ~Does(t, "rename")
    BY <1>1 DEF Does, Alone, NoShell
  <2>2. \E i \in Inodes \ {conf} : TRUE
    BY TwoInodes
  <2> QED
    BY <1>3, <2>1, <2>2 DEF TmpFile
<1> QED
  BY <1>2, <1>3

LEMMA OpenKeeps == ASSUME FleetInv, NEW s \in Shells, OpenTmp(s) PROVE FleetInv'
<1>1. /\ shell[s].op = "open" /\ shell[s] # NoShell /\ tmp' = TmpFile /\ inode' = [inode EXCEPT ![TmpFile] = {}]
      /\ UNCHANGED <<conf, whole, instances, homes, overlapped>>
  BY DEF OpenTmp, Does, dirs, fleetCounts, NoShell
<1>2. PICK c : c = [op |-> "write", kind |-> shell[s].kind, entry |-> shell[s].entry,
                    purge |-> shell[s].purge, new |-> shell[s].new, file |-> TmpFile]
  OBVIOUS
<1>3. shell' = [shell EXCEPT ![s] = c]
  BY <1>2 DEF OpenTmp
<1>4. ASSUME ~overlapped PROVE FilesAreApart' /\ Whole' /\ Shaped(c) /\ Underway(c)'
  <2>1. /\ FilesAreApart /\ Whole /\ shell[s].kind \in Kinds
        /\ shell[s].new = Change(shell[s], whole)
        /\ shell[s].kind = "append" => shell[s].entry[1] \in instances \cap homes
    BY <1>1, <1>4 DEF FleetInv, Shaped, Underway
  <2>2. TmpFile \in Inodes /\ TmpFile # conf
    BY <1>1, <1>4, TmpIsApart
  <2>3. /\ c.op = "write" /\ c.kind = shell[s].kind /\ c.entry = shell[s].entry /\ c.new = shell[s].new
        /\ c.file = TmpFile /\ c = [f \in DOMAIN c |-> c[f]]
        /\ DOMAIN c = {"op", "kind", "entry", "purge", "new", "file"}
    BY <1>2
  <2>4. Shaped(c)
    BY <2>1, <2>3 DEF Shaped, Fields
  <2>5. FilesAreApart' /\ Whole' /\ inode'[tmp'] = {}
    BY <1>1, <2>1, <2>2 DEF FilesAreApart, Whole
  <2>6. c.new = Change(c, whole)
    BY <2>1, <2>3 DEF Change
  <2>7. Underway(c)'
    BY <1>1, <2>1, <2>2, <2>3, <2>5, <2>6 DEF Underway, Change
  <2> QED
    BY <2>4, <2>5, <2>7
<1> QED
  BY <1>1, <1>3, <1>4, ShellKeeps

LEMMA WriteKeepsFleet == ASSUME FleetInv, NEW s \in Shells, WriteTmp(s) PROVE FleetInv'
<1>1. /\ shell[s].op = "write" /\ shell[s] # NoShell
      /\ UNCHANGED <<conf, tmp, whole, instances, homes, overlapped>>
  BY DEF WriteTmp, Does, dirs, fleetCounts, NoShell
<1>2. PICK text \in {shell[s].new} \cup (IF inode[shell[s].file] = {} THEN {} ELSE {Torn}) :
        inode' = [inode EXCEPT ![shell[s].file] = text]
  BY DEF WriteTmp
<1>3. PICK c : c = [shell[s] EXCEPT !.op = "rename"]
  OBVIOUS
<1>4. shell' = [shell EXCEPT ![s] = c]
  BY <1>3 DEF WriteTmp, Step
<1>5. ASSUME ~overlapped PROVE FilesAreApart' /\ Whole' /\ Shaped(c) /\ Underway(c)'
  <2>1. /\ FilesAreApart /\ Whole /\ Shaped(shell[s]) /\ Underway(shell[s])
    BY <1>5 DEF FleetInv
  <2>2. shell[s].file = tmp /\ tmp \in Inodes /\ inode[tmp] = {} /\ shell[s].new = Change(shell[s], whole)
    BY <1>1, <2>1 DEF Underway
  <2>3. /\ c.op = "rename" /\ c.kind = shell[s].kind /\ c.entry = shell[s].entry /\ DOMAIN c = DOMAIN shell[s]
        /\ c.new = shell[s].new /\ c.file = tmp /\ {"op", "kind", "entry", "purge", "new", "file"} \subseteq DOMAIN c
        /\ c.kind \in Kinds /\ c.new = Change(c, whole)
    BY <1>1, <1>3, <2>1, <2>2, PlaceOfCommand
  <2>4. c = [f \in DOMAIN c |-> c[f]]
    BY <1>3, <2>1 DEF Shaped
  <2>5. Shaped(c)
    BY <2>3, <2>4 DEF Shaped, Fields
  <2>6. inode'[tmp] = c.new /\ FilesAreApart' /\ Whole'
    BY <1>1, <1>2, <2>1, <2>2, <2>3 DEF FilesAreApart, Whole
  <2>7. c.kind = "append" => c.entry[1] \in instances \cap homes
    BY <1>1, <2>1, <2>3 DEF Underway
  <2>8. Underway(c)'
    BY <1>1, <2>2, <2>3, <2>6, <2>7 DEF Underway, Change
  <2> QED
    BY <2>5, <2>6, <2>8
<1> QED
  BY <1>1, <1>4, <1>5, ShellKeeps

LEMMA RenameKeeps == ASSUME FleetInv, NEW s \in Shells, RenameTmp(s) PROVE FleetInv'
<1>1. shell[s].op = "rename" /\ shell[s] # NoShell /\ UNCHANGED <<instances, homes, overlapped>>
  BY DEF RenameTmp, Does, dirs, fleetCounts, NoShell
<1>2. CASE tmp = NoTmp
  BY <1>1, <1>2, ExitKeeps DEF RenameTmp, files
<1>3. CASE tmp # NoTmp
  <2>1. PICK c : c = [shell[s] EXCEPT !.op = AfterRename(shell[s])]
    OBVIOUS
  <2>2. /\ shell' = [shell EXCEPT ![s] = c]
        /\ conf' = tmp /\ tmp' = NoTmp /\ whole' = Change(shell[s], whole) /\ inode' = inode
    BY <1>3, <2>1 DEF RenameTmp, Step
  <2>3. ASSUME ~overlapped PROVE FilesAreApart' /\ Whole' /\ Shaped(c) /\ Underway(c)'
    <3>1. /\ FilesAreApart /\ Whole /\ Shaped(shell[s]) /\ Underway(shell[s])
      BY <2>3 DEF FleetInv
    <3>2. /\ tmp \in Inodes /\ inode[tmp] = shell[s].new /\ shell[s].new = Change(shell[s], whole)
          /\ shell[s].kind = "append" => shell[s].entry[1] \in instances \cap homes
          /\ shell[s].kind \in Kinds
      BY <1>1, <3>1 DEF Underway, Shaped
    <3>3. /\ c.op = AfterRename(shell[s]) /\ c.kind = shell[s].kind /\ c.entry = shell[s].entry
          /\ {"op", "kind", "entry", "purge"} \subseteq DOMAIN c
      BY <1>1, <2>1, <3>1, PlaceOfCommand
    <3>4. c.op \in {"remove", "emit"} /\ (c.op = "remove" => c.kind = "drop")
      BY <3>3 DEF AfterRename
    <3>5. c = [f \in DOMAIN c |-> c[f]]
      BY <2>1, <3>1 DEF Shaped
    <3>6. Shaped(c)
      BY <3>2, <3>3, <3>4, <3>5 DEF Shaped, Fields
    <3>7. FilesAreApart'
      BY <2>2, <3>1, <3>2, TwoInodes DEF FilesAreApart
    <3>8. NamesIn(whole') \subseteq instances \cap homes /\ (c.op = "remove" => c.entry[1] \notin NamesIn(whole'))
      BY <2>2, <3>1, <3>2, <3>3, <3>4, ChangedNames DEF Whole
    <3>9. Whole' /\ Underway(c)'
      BY <1>1, <2>2, <3>2, <3>4, <3>8 DEF Whole, Underway
    <3> QED
      BY <3>6, <3>7, <3>9
  <2> QED
    BY <1>1, <2>2, <2>3, ShellKeeps
<1> QED
  BY <1>2, <1>3

LEMMA RemoveKeepsFleet == ASSUME FleetInv, NEW s \in Shells, RemoveDirs(s) PROVE FleetInv'
<1>1. /\ shell[s].op = "remove" /\ shell[s] # NoShell /\ UNCHANGED <<inode, conf, tmp, whole, overlapped>>
      /\ homes' = homes \ {shell[s].entry[1]}
      /\ instances' = instances \/ instances' = instances \ {shell[s].entry[1]}
  BY DEF RemoveDirs, Does, files, fleetCounts, NoShell
<1>2. PICK c : c = [shell[s] EXCEPT !.op = "emit"]
  OBVIOUS
<1>3. shell' = [shell EXCEPT ![s] = c]
  BY <1>2 DEF RemoveDirs, Step
<1>4. ASSUME ~overlapped PROVE FilesAreApart' /\ Whole' /\ Shaped(c) /\ Underway(c)'
  <2>1. /\ FilesAreApart /\ Whole /\ Shaped(shell[s]) /\ shell[s].entry[1] \notin NamesIn(whole)
    BY <1>1, <1>4 DEF FleetInv, Underway
  <2>2. c.op = "emit" /\ c.kind \in Kinds /\ {"op", "kind", "entry", "purge"} \subseteq DOMAIN c
    BY <1>1, <1>2, <2>1, PlaceOfCommand
  <2>3. c = [f \in DOMAIN c |-> c[f]]
    BY <1>2, <2>1 DEF Shaped
  <2>4. Shaped(c) /\ Underway(c)'
    BY <2>2, <2>3 DEF Shaped, Fields, Underway
  <2> QED
    BY <1>1, <2>1, <2>4 DEF FilesAreApart, Whole
<1> QED
  BY <1>1, <1>3, <1>4, ShellKeeps

LEMMA FleetStep == FleetInv /\ [FleetNext]_fleetVars => FleetInv'
<1> SUFFICES ASSUME FleetInv, [FleetNext]_fleetVars PROVE FleetInv'
  OBVIOUS
<1>1. ASSUME UNCHANGED <<inode, conf, tmp, shell, instances, homes, whole, overlapped>> PROVE FleetInv'
  BY <1>1 DEF FleetInv, FilesAreApart, Whole, Alone, Shaped, Underway, Fields
<1>2. CASE UNCHANGED fleetVars \/ ReloadFleet \/ Reconcile
  BY <1>1, <1>2 DEF fleetVars, ReloadFleet, Reconcile, files, dirs, fleetCounts
<1>3. ASSUME NEW s \in Shells, EmitReload(s) \/ KillCommand(s) PROVE FleetInv'
  <2>1. shell[s] # NoShell
    BY <1>3 DEF EmitReload, KillCommand, Does, NoShell
  <2> QED
    BY <1>3, <2>1, ExitKeeps DEF EmitReload, KillCommand, files, dirs, fleetCounts
<1> QED
  BY <1>2, <1>3, StartsKeep, MakeKeeps, ReadKeepsFleet, OpenKeeps, WriteKeepsFleet, RenameKeeps, RemoveKeepsFleet
     DEF FleetNext

\* As long as commands run one at a time, config.yaml is the fleet the finished changes make, and
\* every entry has its directories; for any names, shells and kills.
THEOREM FleetStaysWhole == FleetSpec => []FleetIsWhole
<1>1. FleetInv => FleetIsWhole
  BY DEF FleetInv, Whole, FleetIsWhole
<1> QED
  BY <1>1, FleetStarts, FleetStep, PTL DEF FleetSpec
-----------------------------------------------------------------------------
(* An install that ends is current.                                        *)

\* The sequences a stack of frames is worked on with.
LEMMA FrontOfStack ==
  ASSUME NEW st \in Seq(Frames), st # <<>>
  PROVE  /\ Front(st) \in Seq(Frames) /\ Len(Front(st)) = Len(st) - 1
         /\ \A i \in 1..(Len(st) - 1) : Front(st)[i] = st[i]
<1>1. Len(st) \in Nat \ {0} /\ \A i \in 1..(Len(st) - 1) : st[i] \in Frames
  OBVIOUS
<1>2. PICK n \in Nat : n = Len(st) - 1
  <2>1. Len(st) - 1 \in Nat
    BY <1>1
  <2> QED
    BY <2>1
<1>3. /\ SubSeq(st, 1, n) \in Seq(Frames)
      /\ Len(SubSeq(st, 1, n)) = IF 1 <= n THEN n - 1 + 1 ELSE 0
      /\ \A i \in 1..(n - 1 + 1) : SubSeq(st, 1, n)[i] = st[1 + i - 1]
  <2>1. 1 \in Int /\ n \in Int /\ \A i \in 1..n : st[i] \in Frames
    BY <1>1, <1>2
  <2> HIDE <1>1, <1>2
  <2> QED
    BY <2>1, SubSeqProperties
<1>4. (IF 1 <= n THEN n - 1 + 1 ELSE 0) = n /\ n - 1 + 1 = n /\ \A i \in 1..n : 1 + i - 1 = i
  BY <1>2
<1>5. Front(st) = SubSeq(st, 1, n)
  BY <1>2 DEF Front
<1> QED
  BY <1>2, <1>3, <1>4, <1>5

LEMMA TopOfStack ==
  ASSUME NEW st \in Seq(Frames), st # <<>>, NEW f \in Frames
  PROVE  /\ Len(st) \in Nat \ {0} /\ Last(st) = st[Len(st)] /\ st[Len(st)] \in Frames
         /\ Append(Front(st), f) \in Seq(Frames) /\ Append(Front(st), f) # <<>>
         /\ Len(Append(Front(st), f)) = Len(st)
         /\ \A i \in 1..Len(st) : Append(Front(st), f)[i] = IF i = Len(st) THEN f ELSE st[i]
<1>1. Len(st) \in Nat \ {0} /\ Last(st) = st[Len(st)] /\ st[Len(st)] \in Frames
  BY DEF Last
<1>2. /\ Front(st) \in Seq(Frames) /\ Len(Front(st)) = Len(st) - 1
      /\ \A i \in 1..(Len(st) - 1) : Front(st)[i] = st[i]
  BY <1>1, FrontOfStack
<1>3. /\ Append(Front(st), f) \in Seq(Frames) /\ Len(Append(Front(st), f)) = Len(Front(st)) + 1
      /\ Append(Front(st), f)[Len(Front(st)) + 1] = f
      /\ \A i \in 1..Len(Front(st)) : Append(Front(st), f)[i] = Front(st)[i]
  BY <1>2
<1> QED
  BY <1>1, <1>2, <1>3

LEMMA HeadAndTail ==
  ASSUME NEW left \in Seq(Bundles), left # <<>>
  PROVE  /\ Head(left) \in Bundles /\ Tail(left) \in Seq(Bundles)
         /\ \A x \in ToSet(left) : x = Head(left) \/ x \in ToSet(Tail(left))
<1>1. /\ Len(left) \in Nat \ {0} /\ Head(left) = left[1] /\ Tail(left) \in Seq(Bundles)
      /\ Len(Tail(left)) = Len(left) - 1 /\ \A i \in 1..(Len(left) - 1) : Tail(left)[i] = left[i + 1]
      /\ \A i \in 1..Len(left) : left[i] \in Bundles
  OBVIOUS
<1>2. ASSUME NEW i \in 1..Len(left) PROVE left[i] = Head(left) \/ left[i] \in ToSet(Tail(left))
  <2>1. CASE i = 1
    BY <1>1, <2>1
  <2>2. CASE i # 1
    <3>1. i - 1 \in 1..Len(Tail(left)) /\ Tail(left)[i - 1] = left[i]
      BY <1>1, <2>2
    <3>2. DOMAIN Tail(left) = 1..Len(Tail(left))
      BY <1>1
    <3> QED
      BY <3>1, <3>2 DEF ToSet
  <2> QED
    BY <2>1, <2>2
<1> QED
  BY <1>1, <1>2 DEF ToSet

LEMMA PkgStarts == PkgInit => PkgInv
<1> SUFFICES ASSUME PkgInit PROVE PkgInv
  OBVIOUS
<1>1. \A p \in Managers : paiman[p] = NoRun /\ ~Installs(p)
  BY DEF PkgInit, NoRun, Installs
<1> QED
  BY <1>1 DEF PkgInit, PkgInv, PkgTypeOK, PaimanShape, CleanIsAlone

\* One command goes on; if nothing disturbed it, it is alone.
LEMMA RunKeeps ==
  ASSUME PkgInv, NEW p \in Managers, paiman[p] # NoRun, NEW r, paiman' = [paiman EXCEPT ![p] = r],
         PaimanShape(r), r # NoRun /\ r.clean => paiman[p].clean,
         registry' = registry, staged' = [b \in Bundles |-> staged'[b]],
         r # NoRun /\ r.op = "install" /\ r.clean => StackIsSound(r)' /\ DoneIsCurrent(r)'
  PROVE  PkgInv'
<1>1. paiman' = [q \in Managers |-> IF q = p THEN r ELSE paiman[q]]
  BY DEF PkgInv, PkgTypeOK
<1>2. PkgTypeOK'
  BY <1>1 DEF PkgInv, PkgTypeOK, PaimanShape
<1>3. \A q \in Managers : q # p /\ paiman[q] # NoRun => ~paiman[q].clean
  BY DEF PkgInv, CleanIsAlone
<1>4. CleanIsAlone'
  BY <1>1, <1>3 DEF PkgInv, CleanIsAlone
<1>5. ASSUME NEW q \in Managers, Installs(q)', paiman'[q].clean
      PROVE  StackIsSound(paiman[q])' /\ DoneIsCurrent(paiman[q])'
  <2>1. paiman'[q] # NoRun /\ paiman'[q].op = "install"
    BY <1>5 DEF Installs, NoRun
  <2>2. q = p /\ paiman'[q] = r
    BY <1>1, <1>3, <1>5, <2>1
  <2> QED
    BY <1>5, <2>1, <2>2 DEF StackIsSound, DoneIsCurrent, Stacked, Fine, Current
<1> QED
  BY <1>2, <1>4, <1>5 DEF PkgInv

LEMMA OverKeeps ==
  ASSUME PkgInv, NEW p \in Managers, paiman[p] # NoRun, EndPaiman(p), registry' = registry,
         staged' = [b \in Bundles |-> staged'[b]]
  PROVE  PkgInv'
BY RunKeeps DEF EndPaiman, PaimanShape

\* Steps at the top of the stack; they touch the copy of its bundle at most.
LEMMA TurnKeeps ==
  ASSUME PkgInv, NEW p \in Managers, Installs(p), NEW f \in Frames, SetTop(p, f), registry' = registry,
         staged' = [x \in Bundles |-> staged'[x]],
         \A x \in Bundles : x # Top(p).bundle => staged'[x] = staged[x],
         f.bundle = Top(p).bundle, paiman[p].clean /\ f.at # "deps" => f.left = <<>>,
         paiman[p].clean /\ f.at \in {"activate", "hooks"} => staged'[f.bundle] = registry[f.bundle],
         \A x \in ToSet(Top(p).left) : x \in ToSet(f.left) \/ Fine(paiman[p], x)
  PROVE  PkgInv'
<1> DEFINE st == paiman[p].stack
<1>1. /\ paiman[p] = [op |-> "install", root |-> paiman[p].root, stack |-> st,
                      seen |-> paiman[p].seen, clean |-> paiman[p].clean]
      /\ st \in Seq(Frames) /\ st # <<>> /\ paiman[p].seen \subseteq Bundles /\ paiman[p] # NoRun
      /\ paiman[p] \in {paiman[q] : q \in Managers}
  BY DEF PkgInv, PkgTypeOK, PaimanShape, Installs, NoRun
<1>2. PICK u : u = Append(Front(st), f)
  OBVIOUS
<1>3. PICK r : r = [op |-> "install", root |-> paiman[p].root, stack |-> u,
                    seen |-> paiman[p].seen, clean |-> paiman[p].clean]
  OBVIOUS
<1>4. paiman' = [paiman EXCEPT ![p] = r]
  <2>1. paiman' = [paiman EXCEPT ![p] = [paiman[p] EXCEPT !.stack = Append(Front(st), f)]]
    BY DEF SetTop
  <2>2. [paiman[p] EXCEPT !.stack = u] = r
    BY <1>1, <1>3
  <2> QED
    BY <1>2, <2>1, <2>2
<1>5. /\ Len(st) \in Nat \ {0} /\ Top(p) = st[Len(st)] /\ u \in Seq(Frames) /\ u # <<>> /\ Len(u) = Len(st)
      /\ \A i \in 1..Len(st) : u[i] = IF i = Len(st) THEN f ELSE st[i]
      /\ \A i \in 1..Len(st) : st[i] \in Frames /\ u[i].bundle = st[i].bundle
  BY <1>1, <1>2, TopOfStack DEF Top
<1>6. PaimanShape(r)
  BY <1>1, <1>3, <1>5 DEF PaimanShape
<1>7. ASSUME paiman[p].clean PROVE StackIsSound(r)' /\ DoneIsCurrent(r)'
  <2> HIDE DEF st
  <2>1. StackIsSound(paiman[p]) /\ DoneIsCurrent(paiman[p])
    BY <1>7 DEF PkgInv
  <2>2. Stacked(r) = Stacked(paiman[p]) /\ r.seen = paiman[p].seen /\ r.stack = u
    BY <1>3, <1>5 DEF Stacked, st
  <2>3. Top(p).bundle \in Stacked(paiman[p]) /\ Top(p).bundle \in r.seen
    BY <1>5, <2>1, <2>2 DEF Stacked, StackIsSound, st
  <2>4. \A x \in Bundles : Fine(paiman[p], x) => Fine(r, x)'
    BY <2>2, <2>3 DEF Fine
  <2>5. \A b \in Bundles : ToSet(DepsOf[b]) \subseteq Bundles
    BY PackagesAssumption DEF ToSet
  <2>6. DoneIsCurrent(r)'
    <3> SUFFICES ASSUME NEW b \in r.seen \ Stacked(r)
                 PROVE  Current(b)' /\ \A x \in ToSet(DepsOf[b]) : Fine(r, x)'
      BY DEF DoneIsCurrent, Stacked
    <3>1. b \in Bundles /\ b # Top(p).bundle
      BY <1>1, <2>2, <2>3
    <3>2. Current(b) /\ \A x \in ToSet(DepsOf[b]) : Fine(paiman[p], x)
      BY <2>1, <2>2 DEF DoneIsCurrent
    <3> QED
      BY <2>4, <2>5, <3>1, <3>2 DEF Current
  <2>7. \A i, j \in 1..Len(u) : u[i].bundle = u[j].bundle => i = j
    BY <1>5, <2>1 DEF StackIsSound, st
  <2>8. ASSUME NEW i \in 1..Len(u)
        PROVE  /\ i < Len(u) => u[i].at = "deps"
               /\ u[i].at # "deps" => u[i].left = <<>>
               /\ u[i].at \in {"activate", "hooks"} => staged'[u[i].bundle] = registry[u[i].bundle]
               /\ \A x \in ToSet(DepsOf[u[i].bundle]) : x \in ToSet(u[i].left) \/ Fine(r, x)'
    <3>1. st[i] \in Frames /\ st[i].bundle \in Bundles
      BY <1>5 DEF Frames
    <3>2. CASE i = Len(st)
      <4>1. /\ u[i] = f /\ f.bundle \in Bundles /\ (f.at # "deps" => f.left = <<>>)
            /\ f.at \in {"activate", "hooks"} => staged'[f.bundle] = registry[f.bundle]
        BY <1>5, <1>7, <3>1, <3>2
      <4>2. \A x \in ToSet(DepsOf[f.bundle]) : x \in ToSet(f.left) \/ Fine(paiman[p], x)
        BY <1>5, <2>1 DEF StackIsSound, st
      <4> QED
        BY <1>5, <2>4, <2>5, <3>2, <4>1, <4>2
    <3>3. CASE i # Len(st)
      <4>1. u[i] = st[i] /\ i < Len(st) /\ st[i].at = "deps"
        BY <1>5, <2>1, <3>3 DEF StackIsSound, st
      <4>2. \A x \in ToSet(DepsOf[st[i].bundle]) : x \in ToSet(st[i].left) \/ Fine(paiman[p], x)
        BY <1>5, <2>1 DEF StackIsSound, st
      <4> QED
        BY <2>4, <2>5, <3>1, <4>1, <4>2
    <3> QED
      BY <3>2, <3>3
  <2>9. StackIsSound(r)'
    BY <2>1, <2>2, <2>7, <2>8 DEF StackIsSound, Stacked
  <2> QED
    BY <2>6, <2>9
<1> QED
  BY <1>1, <1>3, <1>4, <1>6, <1>7, RunKeeps

\* An install as its command has it, and the bundle it is at.
LEMMA TopOfRun ==
  ASSUME PkgInv, NEW p \in Managers, Installs(p)
  PROVE  /\ paiman[p] = [op |-> "install", root |-> paiman[p].root, stack |-> paiman[p].stack,
                         seen |-> paiman[p].seen, clean |-> paiman[p].clean]
         /\ paiman[p].stack \in Seq(Frames) /\ paiman[p].stack # <<>> /\ paiman[p].seen \subseteq Bundles
         /\ Top(p) \in Frames /\ Top(p).bundle \in Bundles /\ Top(p).left \in Seq(Bundles)
         /\ Top(p) = [bundle |-> Top(p).bundle, left |-> Top(p).left, at |-> Top(p).at]
         /\ Top(p) = paiman[p].stack[Len(paiman[p].stack)] /\ Len(paiman[p].stack) \in Nat \ {0}
         /\ paiman[p] # NoRun
<1>1. /\ paiman[p] = [op |-> "install", root |-> paiman[p].root, stack |-> paiman[p].stack,
                      seen |-> paiman[p].seen, clean |-> paiman[p].clean]
      /\ paiman[p].stack \in Seq(Frames) /\ paiman[p].stack # <<>> /\ paiman[p].seen \subseteq Bundles
      /\ paiman[p] # NoRun
  BY DEF PkgInv, PkgTypeOK, PaimanShape, Installs, NoRun
<1>2. Top(p) = paiman[p].stack[Len(paiman[p].stack)] /\ Len(paiman[p].stack) \in Nat \ {0} /\ Top(p) \in Frames
  BY <1>1 DEF Top, Last
<1> QED
  BY <1>1, <1>2 DEF Frames

\* What may happen to a copy keeps the copies a function.
LEMMA CopiesStay ==
  ASSUME PkgInv, NEW b, NEW v, staged' = [staged EXCEPT ![b] = v]
  PROVE  /\ staged' = [x \in Bundles |-> staged'[x]] /\ \A x \in Bundles : x # b => staged'[x] = staged[x]
         /\ b \in Bundles => staged'[b] = v
BY DEF PkgInv, PkgTypeOK

LEMMA CopyingKeeps ==
  ASSUME PkgInv, NEW p \in Managers, ClearStaging(p) \/ BeginCopy(p) \/ EndCopy(p) \/ Activate(p)
  PROVE  PkgInv'
<1>1. Installs(p) /\ registry' = registry /\ Top(p).at \in {"deps", "copy", "copying", "activate"}
  BY DEF ClearStaging, BeginCopy, EndCopy, Activate, TopAt
<1> DEFINE b == Top(p).bundle
<1>2. /\ Top(p) = [bundle |-> b, left |-> Top(p).left, at |-> Top(p).at] /\ b \in Bundles
      /\ Top(p).left \in Seq(Bundles) /\ paiman[p] # NoRun
  BY <1>1, TopOfRun
<1>3. staged = [x \in Bundles |-> staged[x]]
  BY DEF PkgInv, PkgTypeOK
<1>4. ASSUME NEW at \in {"copy", "copying", "activate", "hooks"}, Turn(p, at),
             staged' = staged \/ \E v : staged' = [staged EXCEPT ![b] = v],
             paiman[p].clean => Top(p).left = <<>>,
             paiman[p].clean /\ at \in {"activate", "hooks"} => staged'[b] = registry[b]
      PROVE  PkgInv'
  <2>1. PICK f : f = [bundle |-> b, left |-> Top(p).left, at |-> at]
    OBVIOUS
  <2>2. f \in Frames /\ f.bundle = b /\ f.left = Top(p).left /\ f.at = at
    BY <1>2, <2>1 DEF Frames
  <2>3. SetTop(p, f)
    <3>1. [Top(p) EXCEPT !.at = at] = f
      BY <1>2, <2>1
    <3> QED
      BY <1>4, <3>1 DEF Turn
  <2>4. staged' = [x \in Bundles |-> staged'[x]] /\ \A x \in Bundles : x # b => staged'[x] = staged[x]
    BY <1>3, <1>4, CopiesStay
  <2>5. \A x \in ToSet(Top(p).left) : x \in ToSet(f.left) \/ Fine(paiman[p], x)
    BY <2>2
  <2> QED
    BY <1>1, <1>2, <1>4, <2>2, <2>3, <2>4, <2>5, TurnKeeps
<1>5. ASSUME EndPaiman(p), staged' = staged PROVE PkgInv'
  BY <1>1, <1>2, <1>3, <1>5, OverKeeps
<1>6. paiman[p].clean =>
        /\ Top(p).at # "deps" => Top(p).left = <<>>
        /\ Top(p).at = "activate" => staged[b] = registry[b]
  <2> SUFFICES ASSUME paiman[p].clean
               PROVE  /\ Top(p).at # "deps" => Top(p).left = <<>>
                      /\ Top(p).at = "activate" => staged[b] = registry[b]
    OBVIOUS
  <2>1. StackIsSound(paiman[p])
    BY <1>1 DEF PkgInv
  <2>2. PICK n \in 1..Len(paiman[p].stack) : Top(p) = paiman[p].stack[n]
    <3>1. Len(paiman[p].stack) \in Nat \ {0} /\ Top(p) = paiman[p].stack[Len(paiman[p].stack)]
      BY <1>1, TopOfRun
    <3> QED
      BY <3>1
  <2> QED
    BY <2>1, <2>2 DEF StackIsSound
<1>7. CASE ClearStaging(p)
  <2>1. Top(p).left = <<>> /\ staged' = [staged EXCEPT ![b] = Absent] /\ Turn(p, "copy")
    BY <1>7 DEF ClearStaging
  <2> QED
    BY <1>4, <2>1
<1>8. CASE BeginCopy(p)
  <2>1. Top(p).at = "copy" /\ (\/ EndPaiman(p) /\ staged' = staged
                               \/ staged' = [staged EXCEPT ![b] = Partly] /\ Turn(p, "copying"))
    BY <1>8 DEF BeginCopy, TopAt
  <2> QED
    BY <1>4, <1>5, <1>6, <2>1
<1>9. CASE EndCopy(p)
  <2>1. Top(p).at = "copying" /\ (\/ EndPaiman(p) /\ staged' = staged
                                  \/ staged' = [staged EXCEPT ![b] = registry[b]] /\ Turn(p, "activate"))
    BY <1>9 DEF EndCopy, TopAt
  <2>2. staged' = [staged EXCEPT ![b] = registry[b]] => staged'[b] = registry[b]
    BY <1>2, <1>3
  <2> QED
    BY <1>4, <1>5, <1>6, <2>1, <2>2
<1>10. CASE Activate(p)
  <2>1. Top(p).at = "activate" /\ Turn(p, "hooks") /\ staged' = staged
    BY <1>10 DEF Activate, TopAt
  <2> QED
    BY <1>4, <1>6, <2>1
<1> QED
  BY <1>7, <1>8, <1>9, <1>10

\* The last bundle of the stack is done with; its copy is current.
LEMMA PopKeeps ==
  ASSUME PkgInv, NEW p \in Managers, TopAt(p, "hooks"), Pop(p), registry' = registry,
         staged' = [x \in Bundles |-> staged'[x]],
         \A x \in Bundles : x # Top(p).bundle => staged'[x] = staged[x],
         staged' = staged \/ staged'[Top(p).bundle] = Hooked
  PROVE  PkgInv'
<1> DEFINE st == paiman[p].stack
<1>1. Installs(p) /\ Top(p).at = "hooks"
  BY DEF TopAt
<1>2. /\ paiman[p] = [op |-> "install", root |-> paiman[p].root, stack |-> st,
                      seen |-> paiman[p].seen, clean |-> paiman[p].clean]
      /\ st \in Seq(Frames) /\ st # <<>> /\ paiman[p].seen \subseteq Bundles /\ paiman[p] # NoRun
      /\ Top(p).bundle \in Bundles /\ Top(p) = st[Len(st)] /\ Len(st) \in Nat \ {0}
  BY <1>1, TopOfRun
<1>3. CASE Len(st) = 1
  BY <1>2, <1>3, OverKeeps DEF Pop
<1>4. CASE Len(st) # 1
  <2>1. PICK u : u = Front(st)
    OBVIOUS
  <2>2. PICK r : r = [op |-> "install", root |-> paiman[p].root, stack |-> u,
                      seen |-> paiman[p].seen, clean |-> paiman[p].clean]
    OBVIOUS
  <2>3. paiman' = [paiman EXCEPT ![p] = r]
    <3>1. paiman' = [paiman EXCEPT ![p] = [paiman[p] EXCEPT !.stack = Front(st)]]
      BY <1>4 DEF Pop
    <3>2. [paiman[p] EXCEPT !.stack = u] = r
      BY <1>2, <2>2
    <3> QED
      BY <2>1, <3>1, <3>2
  <2>4. /\ u \in Seq(Frames) /\ Len(u) = Len(st) - 1 /\ Len(u) \in Nat \ {0}
        /\ \A i \in 1..Len(u) : i \in 1..Len(st) /\ i < Len(st) /\ u[i] = st[i]
    <3>1. /\ u \in Seq(Frames) /\ Len(u) = Len(st) - 1 /\ \A i \in 1..(Len(st) - 1) : u[i] = st[i]
      BY <1>2, <2>1, FrontOfStack
    <3> QED
      BY <1>2, <1>4, <3>1
  <2>5. PaimanShape(r)
    <3>1. u # <<>>
      <4>1. Len(u) # 0
        BY <2>4
      <4> QED
        BY <4>1
    <3> QED
      BY <1>2, <2>2, <2>4, <3>1 DEF PaimanShape
  <2>6. ASSUME paiman[p].clean PROVE StackIsSound(r)' /\ DoneIsCurrent(r)'
    <3>1. StackIsSound(paiman[p]) /\ DoneIsCurrent(paiman[p])
      BY <1>1, <2>6 DEF PkgInv
    <3> DEFINE b == st[Len(st)].bundle
    <3>2. /\ b = Top(p).bundle /\ b \in Bundles /\ b \in paiman[p].seen
          /\ staged[b] = registry[b] /\ st[Len(st)].left = <<>>
          /\ \A x \in ToSet(DepsOf[b]) : x \in ToSet(st[Len(st)].left) \/ Fine(paiman[p], x)
      <4>1. Len(st) \in 1..Len(st)
        BY <1>2
      <4>2. b \in Stacked(paiman[p])
        BY <4>1 DEF Stacked
      <4> QED
        BY <1>1, <1>2, <3>1, <4>1, <4>2 DEF StackIsSound
    <3>3. \A x \in ToSet(DepsOf[b]) : Fine(paiman[p], x)
      BY <3>2 DEF ToSet
    <3>4. Stacked(r) = Stacked(paiman[p]) \ {b} /\ r.seen = paiman[p].seen /\ r.stack = u
      <4>1. r.seen = paiman[p].seen /\ r.stack = u
        BY <2>2
      <4>2. ASSUME NEW i \in 1..Len(u) PROVE u[i].bundle \in Stacked(paiman[p]) /\ u[i].bundle # b
        <5>1. i \in 1..Len(st) /\ Len(st) \in 1..Len(st) /\ i # Len(st) /\ u[i] = st[i]
          BY <1>2, <2>4
        <5> QED
          BY <3>1, <5>1 DEF StackIsSound, Stacked
      <4>3. ASSUME NEW i \in 1..Len(st), st[i].bundle # b PROVE st[i].bundle \in Stacked(r)
        <5>1. i \in 1..Len(u) /\ u[i] = st[i]
          BY <1>2, <2>4, <4>3
        <5> QED
          BY <4>1, <5>1 DEF Stacked
      <4> QED
        BY <4>1, <4>2, <4>3 DEF Stacked
    <3> HIDE DEF b
    <3>5. \A x \in Bundles : Fine(paiman[p], x) => Fine(r, x)'
      BY <3>2, <3>4 DEF Fine
    <3>6. \A x \in Bundles : ToSet(DepsOf[x]) \subseteq Bundles
      BY PackagesAssumption DEF ToSet
    <3>7. DoneIsCurrent(r)'
      <4> SUFFICES ASSUME NEW x \in r.seen \ Stacked(r)
                   PROVE  Current(x)' /\ \A y \in ToSet(DepsOf[x]) : Fine(r, y)'
        BY DEF DoneIsCurrent, Stacked
      <4>1. x \in Bundles
        BY <1>2, <3>4
      <4>2. CASE x = b
        BY <3>2, <3>3, <3>5, <3>6, <4>2 DEF Current
      <4>3. CASE x # b
        <5>1. x \in paiman[p].seen \ Stacked(paiman[p])
          BY <3>4, <4>3
        <5>2. Current(x) /\ \A y \in ToSet(DepsOf[x]) : Fine(paiman[p], y)
          BY <3>1, <5>1 DEF DoneIsCurrent
        <5> QED
          BY <3>2, <3>5, <3>6, <4>1, <4>3, <5>2 DEF Current
      <4> QED
        BY <4>2, <4>3
    <3>8. ASSUME NEW i \in 1..Len(u)
          PROVE  /\ u[i].at = "deps"
                 /\ \A x \in ToSet(DepsOf[u[i].bundle]) : x \in ToSet(u[i].left) \/ Fine(r, x)'
      <4>1. i \in 1..Len(st) /\ i < Len(st) /\ u[i] = st[i] /\ u[i].bundle \in Bundles
        <5>1. i \in 1..Len(st) /\ i < Len(st) /\ u[i] = st[i]
          BY <2>4
        <5>2. u[i] \in Frames
          BY <2>4
        <5> QED
          BY <5>1, <5>2 DEF Frames
      <4>2. st[i].at = "deps" /\ \A x \in ToSet(DepsOf[st[i].bundle]) : x \in ToSet(st[i].left) \/ Fine(paiman[p], x)
        BY <3>1, <4>1 DEF StackIsSound
      <4> QED
        BY <3>5, <3>6, <4>1, <4>2
    <3>9. Stacked(r) \subseteq r.seen /\ \A i, j \in 1..Len(u) : u[i].bundle = u[j].bundle => i = j
      BY <2>4, <3>1, <3>4 DEF StackIsSound
    <3>10. StackIsSound(r)'
      BY <3>4, <3>8, <3>9 DEF StackIsSound, Stacked
    <3> QED
      BY <3>7, <3>10
  <2> QED
    BY <1>2, <2>2, <2>3, <2>5, <2>6, RunKeeps
<1> QED
  BY <1>3, <1>4

LEMMA HooksKeep == ASSUME PkgInv, NEW p \in Managers, RunHooks(p) \/ HookAlters(p) PROVE PkgInv'
<1>1. staged = [x \in Bundles |-> staged[x]] /\ (TopAt(p, "hooks") => Top(p).bundle \in Bundles)
  BY TopOfRun DEF PkgInv, PkgTypeOK, TopAt
<1>2. CASE RunHooks(p)
  BY <1>1, <1>2, PopKeeps DEF RunHooks
<1>3. CASE HookAlters(p)
  <2>1. /\ TopAt(p, "hooks") /\ Pop(p) /\ registry' = registry
        /\ staged' = [staged EXCEPT ![Top(p).bundle] = Hooked]
    BY <1>3 DEF HookAlters
  <2>2. /\ staged' = [x \in Bundles |-> staged'[x]] /\ staged'[Top(p).bundle] = Hooked
        /\ \A x \in Bundles : x # Top(p).bundle => staged'[x] = staged[x]
    BY <1>1, <2>1
  <2> QED
    BY <2>1, <2>2, PopKeeps
<1> QED
  BY <1>2, <1>3

\* A record of which fields are changed.
LEMMA EditedSeen ==
  ASSUME NEW q, q = [op |-> "install", root |-> q.root, stack |-> q.stack, seen |-> q.seen, clean |-> q.clean],
         NEW v, NEW z
  PROVE  [q EXCEPT !.stack = v, !.seen = z]
           = [op |-> "install", root |-> q.root, stack |-> v, seen |-> z, clean |-> q.clean]
<1>1. DOMAIN q = {"op", "root", "stack", "seen", "clean"}
  OBVIOUS
<1>2. [q EXCEPT !.stack = v, !.seen = z]
        = [f \in DOMAIN q |-> IF f = "seen" THEN z ELSE IF f = "stack" THEN v ELSE q[f]]
  OBVIOUS
<1> QED
  BY <1>1, <1>2

LEMMA EditedClean ==
  ASSUME NEW q, q = [op |-> "install", root |-> q.root, stack |-> q.stack, seen |-> q.seen, clean |-> q.clean],
         NEW v, NEW z
  PROVE  [q EXCEPT !.stack = v, !.clean = z]
           = [op |-> "install", root |-> q.root, stack |-> v, seen |-> q.seen, clean |-> z]
<1>1. DOMAIN q = {"op", "root", "stack", "seen", "clean"}
  OBVIOUS
<1>2. [q EXCEPT !.stack = v, !.clean = z]
        = [f \in DOMAIN q |-> IF f = "clean" THEN z ELSE IF f = "stack" THEN v ELSE q[f]]
  OBVIOUS
<1> QED
  BY <1>1, <1>2

LEMMA EditedFrame ==
  ASSUME NEW t, t = [bundle |-> t.bundle, left |-> t.left, at |-> t.at], NEW l
  PROVE  [t EXCEPT !.left = l] = [bundle |-> t.bundle, left |-> l, at |-> t.at]
OBVIOUS

\* The next dep is current, or is taken up, or makes a cycle.
LEMMA NextKeeps == ASSUME PkgInv, NEW p \in Managers, NextDep(p) PROVE PkgInv'
<1> DEFINE st == paiman[p].stack
<1>0. PICK d : d = Head(Top(p).left)
  OBVIOUS
<1>1. /\ Installs(p) /\ Top(p).at = "deps" /\ Top(p).left # <<>> /\ UNCHANGED <<registry, staged>>
      /\ \/ ~Stale(d) /\ SetTop(p, SkipDep(p))
         \/ Stale(d) /\ d \in paiman[p].seen /\ EndPaiman(p)
         \/ /\ d \notin paiman[p].seen
            /\ paiman' = [paiman EXCEPT ![p].stack = Append(Append(Front(@), SkipDep(p)), Frame(d)),
                                        ![p].seen = @ \cup {d}]
  BY <1>0 DEF NextDep, TopAt
<1>2. /\ paiman[p] = [op |-> "install", root |-> paiman[p].root, stack |-> st,
                      seen |-> paiman[p].seen, clean |-> paiman[p].clean]
      /\ st \in Seq(Frames) /\ st # <<>> /\ paiman[p].seen \subseteq Bundles /\ paiman[p] # NoRun
      /\ Top(p).bundle \in Bundles /\ Top(p).left \in Seq(Bundles)
      /\ Top(p) = [bundle |-> Top(p).bundle, left |-> Top(p).left, at |-> Top(p).at]
      /\ Top(p) = st[Len(st)] /\ Len(st) \in Nat \ {0}
  BY <1>1, TopOfRun
<1>3. staged = [x \in Bundles |-> staged[x]]
  BY DEF PkgInv, PkgTypeOK
<1>4. PICK f : f = [bundle |-> Top(p).bundle, left |-> Tail(Top(p).left), at |-> Top(p).at]
  OBVIOUS
<1>5. /\ d \in Bundles /\ Tail(Top(p).left) \in Seq(Bundles)
      /\ \A x \in ToSet(Top(p).left) : x = d \/ x \in ToSet(f.left)
  BY <1>0, <1>1, <1>2, <1>4, HeadAndTail
<1>6. f \in Frames /\ f.bundle = Top(p).bundle /\ f.at = "deps" /\ f.left = Tail(Top(p).left) /\ SkipDep(p) = f
  <2>1. f \in Frames /\ f.bundle = Top(p).bundle /\ f.at = "deps" /\ f.left = Tail(Top(p).left)
    BY <1>1, <1>2, <1>4, <1>5 DEF Frames
  <2>2. [Top(p) EXCEPT !.left = Tail(Top(p).left)] = f
    <3>1. Top(p) = [bundle |-> Top(p).bundle, left |-> Top(p).left, at |-> Top(p).at]
      BY <1>2
    <3> QED
      BY <1>4, <3>1, EditedFrame
  <2> QED
    BY <2>1, <2>2 DEF SkipDep
<1>7. CASE ~Stale(d) /\ SetTop(p, SkipDep(p))
  <2>1. SetTop(p, f)
    BY <1>6, <1>7
  <2>2. Fine(paiman[p], d)
    BY <1>7 DEF Stale, Fine
  <2>3. \A x \in ToSet(Top(p).left) : x \in ToSet(f.left) \/ Fine(paiman[p], x)
    BY <1>5, <2>2
  <2> QED
    BY <1>1, <1>3, <1>6, <2>1, <2>3, TurnKeeps
<1>8. CASE EndPaiman(p)
  BY <1>1, <1>2, <1>3, <1>8, OverKeeps
<1>9. CASE /\ d \notin paiman[p].seen
           /\ paiman' = [paiman EXCEPT ![p].stack = Append(Append(Front(@), SkipDep(p)), Frame(d)),
                                       ![p].seen = @ \cup {d}]
  <2>1. PICK g : g = Frame(d)
    OBVIOUS
  <2>2. PICK u : u = Append(Front(st), f)
    OBVIOUS
  <2>3. PICK v : v = Append(u, g)
    OBVIOUS
  <2>4. PICK r : r = [op |-> "install", root |-> paiman[p].root, stack |-> v,
                      seen |-> paiman[p].seen \cup {d}, clean |-> paiman[p].clean]
    OBVIOUS
  <2>5. paiman' = [paiman EXCEPT ![p] = r]
    <3>1. paiman' = [paiman EXCEPT ![p] = [paiman[p] EXCEPT !.stack = Append(Append(Front(st), SkipDep(p)), Frame(d)),
                                                          !.seen = paiman[p].seen \cup {d}]]
      BY <1>2, <1>9 DEF PkgInv, PkgTypeOK
    <3>2. [paiman[p] EXCEPT !.stack = v, !.seen = paiman[p].seen \cup {d}] = r
      <4>1. paiman[p] = [op |-> "install", root |-> paiman[p].root, stack |-> paiman[p].stack,
                         seen |-> paiman[p].seen, clean |-> paiman[p].clean]
        BY <1>2
      <4>2. PICK q : q = paiman[p]
        OBVIOUS
      <4>3. [q EXCEPT !.stack = v, !.seen = q.seen \cup {d}]
              = [op |-> "install", root |-> q.root, stack |-> v, seen |-> q.seen \cup {d}, clean |-> q.clean]
        <5>1. q = [op |-> "install", root |-> q.root, stack |-> q.stack, seen |-> q.seen, clean |-> q.clean]
          BY <4>1, <4>2
        <5> QED
          BY <5>1, EditedSeen
      <4> QED
        BY <2>4, <4>2, <4>3
    <3> QED
      BY <1>6, <2>1, <2>2, <2>3, <3>1, <3>2
  <2>6. g \in Frames /\ g.bundle = d /\ g.left = DepsOf[d] /\ g.at = "deps"
    BY <1>5, <2>1, PackagesAssumption DEF Frame, Frames
  <2>7. /\ u \in Seq(Frames) /\ Len(u) = Len(st)
        /\ \A i \in 1..Len(st) : u[i] = IF i = Len(st) THEN f ELSE st[i]
    BY <1>2, <1>6, <2>2, TopOfStack
  <2>8. /\ v \in Seq(Frames) /\ Len(v) = Len(st) + 1 /\ v[Len(v)] = g /\ v # <<>>
        /\ \A i \in 1..Len(st) : v[i] = IF i = Len(st) THEN f ELSE st[i]
    <3>1. v \in Seq(Frames) /\ Len(v) = Len(u) + 1 /\ v[Len(v)] = g /\ \A i \in 1..Len(u) : v[i] = u[i]
      BY <2>3, <2>6, <2>7
    <3>2. v # <<>>
      <4>1. Len(v) # 0
        BY <1>2, <2>7, <3>1
      <4> QED
        BY <4>1
    <3> QED
      BY <2>7, <3>1, <3>2
  <2>9. PaimanShape(r)
    BY <1>2, <1>5, <2>4, <2>8 DEF PaimanShape
  <2>10. ASSUME paiman[p].clean PROVE StackIsSound(r)' /\ DoneIsCurrent(r)'
    <3>1. StackIsSound(paiman[p]) /\ DoneIsCurrent(paiman[p])
      BY <1>1, <2>10 DEF PkgInv
    <3>2. r.seen = paiman[p].seen \cup {d} /\ r.stack = v
      BY <2>4
    <3>3. \A i \in 1..Len(st) : v[i].bundle = st[i].bundle /\ st[i].bundle \in paiman[p].seen
      BY <1>2, <1>6, <2>8, <3>1 DEF StackIsSound, Stacked
    <3>4. Stacked(r) = Stacked(paiman[p]) \cup {d}
      <4>1. ASSUME NEW i \in 1..Len(v) PROVE v[i].bundle \in Stacked(paiman[p]) \cup {d}
        <5>1. i \in 1..Len(st) \/ i = Len(v)
          BY <1>2, <2>8
        <5> QED
          BY <2>6, <2>8, <3>3, <5>1 DEF Stacked
      <4>2. ASSUME NEW i \in 1..Len(st) PROVE st[i].bundle \in Stacked(r)
        <5>1. i \in 1..Len(v)
          BY <1>2, <2>8
        <5> QED
          BY <3>2, <3>3, <5>1 DEF Stacked
      <4>3. d \in Stacked(r)
        <5>1. Len(v) \in 1..Len(v) /\ v[Len(v)].bundle = d
          BY <1>2, <2>6, <2>8
        <5> QED
          BY <3>2, <5>1 DEF Stacked
      <4> QED
        BY <3>2, <4>1, <4>2, <4>3 DEF Stacked
    <3> DEFINE was == paiman[p].seen
    <3>5. ASSUME NEW x, Fine(paiman[p], x) PROVE Fine(r, x)'
      <4>1. staged' = staged /\ registry' = registry
        BY <1>1
      <4>2. x \in was \/ staged[x] = registry[x]
        BY <3>5 DEF Fine
      <4>3. \A y \in was : y \in r.seen
        BY <3>2
      <4> HIDE DEF was
      <4> QED
        BY <4>1, <4>2, <4>3 DEF Fine
    <3>6. Fine(r, d)'
      BY <3>2 DEF Fine
    <3>7. DoneIsCurrent(r)'
      BY <1>1, <3>1, <3>2, <3>4, <3>5 DEF DoneIsCurrent, Current, Stacked
    <3>8. ASSUME NEW i \in 1..Len(v), NEW j \in 1..Len(v), v[i].bundle = v[j].bundle PROVE i = j
      <4>1. (i \in 1..Len(st) \/ i = Len(v)) /\ (j \in 1..Len(st) \/ j = Len(v))
        BY <1>2, <2>8
      <4>2. v[Len(v)].bundle = d /\ d \notin paiman[p].seen
        BY <1>9, <2>6, <2>8
      <4>3. i \in 1..Len(st) /\ j \in 1..Len(st) => i = j
        BY <3>1, <3>3, <3>8 DEF StackIsSound
      <4> QED
        BY <3>3, <3>8, <4>1, <4>2, <4>3
    <3>9. ASSUME NEW i \in 1..Len(v)
          PROVE  /\ v[i].at = "deps"
                 /\ \A x \in ToSet(DepsOf[v[i].bundle]) : x \in ToSet(v[i].left) \/ Fine(r, x)'
      <4>1. CASE i = Len(v)
        <5>1. v[i] = g
          BY <2>8, <4>1
        <5> QED
          BY <2>6, <5>1
      <4>2. CASE i = Len(st)
        <5>1. v[i] = f /\ i \in 1..Len(st)
          BY <1>2, <2>8, <4>2
        <5>2. \A x \in ToSet(DepsOf[Top(p).bundle]) : x \in ToSet(Top(p).left) \/ Fine(paiman[p], x)
          BY <1>2, <3>1, <4>2, <5>1 DEF StackIsSound
        <5> QED
          BY <1>5, <1>6, <3>5, <3>6, <5>1, <5>2
      <4>3. CASE i \in 1..Len(st) /\ i # Len(st)
        <5>1. v[i] = st[i] /\ i < Len(st)
          BY <1>2, <2>8, <4>3
        <5>2. st[i].at = "deps" /\ \A x \in ToSet(DepsOf[st[i].bundle]) : x \in ToSet(st[i].left) \/ Fine(paiman[p], x)
          BY <3>1, <4>3, <5>1 DEF StackIsSound
        <5> QED
          BY <3>5, <5>1, <5>2
      <4> QED
        BY <1>2, <2>8, <4>1, <4>2, <4>3
    <3>10. Stacked(r) \subseteq r.seen
      BY <3>1, <3>2, <3>4 DEF StackIsSound
    <3>11. StackIsSound(r)'
      BY <3>2, <3>8, <3>9, <3>10 DEF StackIsSound, Stacked
    <3> QED
      BY <3>7, <3>11
  <2> QED
    BY <1>1, <1>2, <1>3, <2>4, <2>5, <2>9, <2>10, RunKeeps
<1> QED
  BY <1>1, <1>7, <1>8, <1>9

\* A command over which another begins, or which goes without a lookup, is not clean.
LEMMA Disturbed ==
  ASSUME NEW q, PaimanShape(q), q # NoRun, NEW no
  PROVE  /\ PaimanShape([q EXCEPT !.clean = no]) /\ [q EXCEPT !.clean = no].clean = no
         /\ [q EXCEPT !.clean = no].op = q.op /\ [q EXCEPT !.clean = no] # NoRun
<1>1. PICK d : d = [q EXCEPT !.clean = no]
  OBVIOUS
<1>2. CASE q = [op |-> q.op, root |-> q.root, clean |-> q.clean] /\ q.op \in {"unlink", "rmtree"}
  <2>1. d = [op |-> q.op, root |-> q.root, clean |-> no]
    BY <1>1, <1>2
  <2>2. d.op = q.op /\ d.root = q.root /\ d.clean = no /\ d # NoRun
    BY <2>1 DEF NoRun
  <2> QED
    BY <1>1, <1>2, <2>1, <2>2 DEF PaimanShape
<1>3. CASE /\ q = [op |-> q.op, root |-> q.root, stack |-> q.stack, seen |-> q.seen, clean |-> q.clean]
           /\ q.op = "install" /\ q.stack \in Seq(Frames) /\ q.stack # <<>> /\ q.seen \subseteq Bundles
  <2>1. d = [op |-> q.op, root |-> q.root, stack |-> q.stack, seen |-> q.seen, clean |-> no]
    BY <1>1, <1>3
  <2>2. d.op = q.op /\ d.root = q.root /\ d.stack = q.stack /\ d.seen = q.seen /\ d.clean = no /\ d # NoRun
    BY <2>1 DEF NoRun
  <2> QED
    BY <1>1, <1>3, <2>1, <2>2 DEF PaimanShape
<1> QED
  BY <1>2, <1>3 DEF PaimanShape

LEMMA LookupFails == ASSUME PkgInv, NEW p \in Managers, DepNotFound(p) PROVE PkgInv'
<1>1. /\ Installs(p) /\ Top(p).left # <<>> /\ UNCHANGED <<registry, staged>>
      /\ \/ paiman' = [paiman EXCEPT ![p].stack = Append(Front(@), SkipDep(p)), ![p].clean = FALSE]
         \/ EndPaiman(p)
  BY DEF DepNotFound, TopAt
<1>2. staged = [x \in Bundles |-> staged[x]] /\ paiman = [q \in Managers |-> paiman[q]]
  BY DEF PkgInv, PkgTypeOK
<1>3. PICK q : q = paiman[p]
  OBVIOUS
<1>4. /\ q = [op |-> "install", root |-> q.root, stack |-> q.stack, seen |-> q.seen, clean |-> q.clean]
      /\ q.stack \in Seq(Frames) /\ q.stack # <<>> /\ q.seen \subseteq Bundles /\ paiman[p] # NoRun
      /\ Top(p).bundle \in Bundles /\ Top(p).left \in Seq(Bundles)
      /\ Top(p) = [bundle |-> Top(p).bundle, left |-> Top(p).left, at |-> Top(p).at] /\ Top(p) \in Frames
  BY <1>1, <1>3, TopOfRun
<1>5. PICK f : f = SkipDep(p)
  OBVIOUS
<1>6. f \in Frames
  <2>1. Tail(Top(p).left) \in Seq(Bundles)
    BY <1>1, <1>4, HeadAndTail
  <2>2. Top(p) = [bundle |-> Top(p).bundle, left |-> Top(p).left, at |-> Top(p).at]
    BY <1>4
  <2>3. f = [bundle |-> Top(p).bundle, left |-> Tail(Top(p).left), at |-> Top(p).at]
    BY <1>5, <2>2, EditedFrame DEF SkipDep
  <2> QED
    BY <1>4, <2>1, <2>3 DEF Frames
<1>7. PICK u : u = Append(Front(q.stack), f)
  OBVIOUS
<1>8. PICK no : no = FALSE
  OBVIOUS
<1>9. PICK r : r = [op |-> "install", root |-> q.root, stack |-> u, seen |-> q.seen, clean |-> no]
  OBVIOUS
<1>10. CASE paiman' = [paiman EXCEPT ![p].stack = Append(Front(@), SkipDep(p)), ![p].clean = FALSE]
  <2>1. paiman' = [paiman EXCEPT ![p] = [q EXCEPT !.stack = Append(Front(q.stack), f), !.clean = FALSE]]
    BY <1>2, <1>3, <1>5, <1>10
  <2>2. [q EXCEPT !.stack = u, !.clean = no] = r
    <3>1. q = [op |-> "install", root |-> q.root, stack |-> q.stack, seen |-> q.seen, clean |-> q.clean]
      BY <1>4
    <3> QED
      BY <1>9, <3>1, EditedClean
  <2>3. paiman' = [paiman EXCEPT ![p] = r]
    BY <1>7, <1>8, <2>1, <2>2
  <2>4. u \in Seq(Frames) /\ u # <<>>
    BY <1>4, <1>6, <1>7, TopOfStack
  <2>5. PaimanShape(r)
    BY <1>4, <1>9, <2>4 DEF PaimanShape
  <2>6. ~r.clean
    <3>1. r.clean = no
      BY <1>9
    <3> QED
      BY <1>8, <3>1
  <2> QED
    BY <1>1, <1>2, <1>4, <2>3, <2>5, <2>6, RunKeeps
<1>11. CASE EndPaiman(p)
  BY <1>1, <1>2, <1>4, <1>11, OverKeeps
<1> QED
  BY <1>1, <1>10, <1>11

\* A command begins.
LEMMA BeginPaimanKeeps ==
  ASSUME PkgInv, NEW p \in Managers, NEW cmd, BeginPaiman(p, cmd), PaimanShape(cmd), cmd # NoRun,
         cmd.clean => ~Overlap, UNCHANGED <<registry, staged>>,
         cmd.op = "install" => StackIsSound(cmd)' /\ DoneIsCurrent(cmd)'
  PROVE  PkgInv'
<1>1. ASSUME NEW q \in Managers
      PROVE  /\ q = p => paiman'[q] = cmd
             /\ q # p /\ paiman[q] = NoRun => paiman'[q] = NoRun
             /\ q # p /\ paiman[q] # NoRun => paiman'[q] = [paiman[q] EXCEPT !.clean = FALSE]
  BY DEF BeginPaiman
<1>2. ASSUME NEW q \in Managers, q # p, paiman[q] # NoRun
      PROVE  PaimanShape(paiman'[q]) /\ ~paiman'[q].clean
  <2>1. PICK no : no = FALSE
    OBVIOUS
  <2>2. PaimanShape(paiman[q])
    BY DEF PkgInv, PkgTypeOK
  <2>3. paiman'[q] = [paiman[q] EXCEPT !.clean = no]
    BY <1>1, <1>2, <2>1
  <2>4. PaimanShape([paiman[q] EXCEPT !.clean = no]) /\ [paiman[q] EXCEPT !.clean = no].clean = no
    BY <1>2, <2>2, Disturbed
  <2>5. paiman'[q].clean = no
    BY <2>3, <2>4
  <2> QED
    BY <2>1, <2>3, <2>4, <2>5
<1>3. PkgTypeOK'
  <2>1. \A q \in Managers : PaimanShape(paiman'[q])
    BY <1>1, <1>2 DEF PaimanShape
  <2>2. paiman' = [q \in Managers |-> paiman'[q]]
    BY DEF BeginPaiman
  <2> QED
    BY <2>1, <2>2 DEF PkgInv, PkgTypeOK, PaimanShape
<1>4. ASSUME NEW q \in Managers, paiman'[q] # NoRun, paiman'[q].clean
      PROVE  q = p /\ \A o \in Managers : o # p => paiman'[o] = NoRun
  <2>1. q = p
    BY <1>1, <1>2, <1>4
  <2>2. ~Overlap
    BY <1>1, <1>4, <2>1
  <2> QED
    BY <1>1, <2>1, <2>2 DEF Overlap
<1>5. CleanIsAlone'
  BY <1>4 DEF CleanIsAlone
<1>6. ASSUME NEW q \in Managers, Installs(q)', paiman'[q].clean
      PROVE  StackIsSound(paiman[q])' /\ DoneIsCurrent(paiman[q])'
  <2>1. q = p /\ paiman'[q] = cmd /\ cmd.op = "install"
    <3>1. paiman'[q].op = "install" /\ paiman'[q] # NoRun
      BY <1>6 DEF Installs, NoRun
    <3>2. q = p
      BY <1>4, <1>6, <3>1
    <3> QED
      BY <1>1, <3>1, <3>2
  <2> QED
    BY <2>1 DEF StackIsSound, DoneIsCurrent, Stacked, Fine, Current
<1> QED
  BY <1>3, <1>5, <1>6 DEF PkgInv

LEMMA StartsKeepPkg ==
  ASSUME PkgInv, NEW p \in Managers, NEW b \in Bundles, NEW force,
         BeginInstall(p, b) \/ BeginRemove(p, b, force)
  PROVE  PkgInv'
<1>1. PICK clean : clean = ~Overlap
  OBVIOUS
<1>2. clean => ~Overlap
  BY <1>1
<1>3. CASE BeginInstall(p, b)
  <2>1. PICK f : f = Frame(b)
    OBVIOUS
  <2>2. f \in Frames /\ f.bundle = b /\ f.left = DepsOf[b] /\ f.at = "deps"
    BY <2>1, PackagesAssumption DEF Frame, Frames
  <2>3. PICK st : st = <<f>>
    OBVIOUS
  <2>4. st \in Seq(Frames) /\ st # <<>> /\ Len(st) = 1 /\ st[1] = f
    BY <2>2, <2>3
  <2>5. PICK cmd : cmd = [op |-> "install", root |-> b, stack |-> st, seen |-> {b}, clean |-> clean]
    OBVIOUS
  <2>6. BeginPaiman(p, cmd) /\ UNCHANGED <<registry, staged>>
    BY <1>1, <1>3, <2>1, <2>3, <2>5 DEF BeginInstall
  <2>7. cmd.op = "install" /\ cmd.root = b /\ cmd.stack = st /\ cmd.seen = {b} /\ cmd.clean = clean
    BY <2>5
  <2>8. PaimanShape(cmd) /\ cmd # NoRun
    BY <2>4, <2>5, <2>7 DEF PaimanShape, NoRun
  <2>9. Stacked(cmd) = {b}
    <3>1. {st[i].bundle : i \in 1..1} = {b}
      BY <2>2, <2>4
    <3> QED
      BY <2>4, <2>7, <3>1 DEF Stacked
  <2>10. StackIsSound(cmd)' /\ DoneIsCurrent(cmd)'
    <3>1. \A i \in 1..Len(st) : i = 1
      BY <2>4
    <3>2. DoneIsCurrent(cmd)'
      BY <2>7, <2>9 DEF DoneIsCurrent, Stacked
    <3>3. Stacked(cmd) \subseteq cmd.seen
      BY <2>7, <2>9
    <3> QED
      BY <2>2, <2>4, <2>7, <3>1, <3>2, <3>3 DEF StackIsSound, Stacked
  <2>11. cmd.clean => ~Overlap
    BY <1>2, <2>7
  <2> QED
    BY <2>6, <2>8, <2>10, <2>11, BeginPaimanKeeps
<1>4. CASE BeginRemove(p, b, force)
  <2>1. PICK cmd : cmd = [op |-> "unlink", root |-> b, clean |-> clean]
    OBVIOUS
  <2>2. BeginPaiman(p, cmd) /\ UNCHANGED <<registry, staged>>
    BY <1>1, <1>4, <2>1 DEF BeginRemove
  <2>3. cmd.op = "unlink" /\ cmd.root = b /\ cmd.clean = clean
    BY <2>1
  <2>4. PaimanShape(cmd) /\ cmd # NoRun
    BY <2>1, <2>3 DEF PaimanShape, NoRun
  <2>5. cmd.clean => ~Overlap
    BY <1>2, <2>3
  <2> QED
    BY <2>2, <2>3, <2>4, <2>5, BeginPaimanKeeps
<1> QED
  BY <1>3, <1>4

LEMMA RemoveKeeps == ASSUME PkgInv, NEW p \in Managers, Unlink(p) \/ RemoveStaging(p) PROVE PkgInv'
<1>1. staged = [x \in Bundles |-> staged[x]] /\ PaimanShape(paiman[p])
  BY DEF PkgInv, PkgTypeOK
<1>2. paiman[p].op \in {"unlink", "rmtree"} /\ registry' = registry
  BY DEF Unlink, RemoveStaging
<1>3. paiman[p] # NoRun
  BY <1>2 DEF NoRun
<1>4. CASE Unlink(p)
  <2>1. PICK q : q = paiman[p]
    OBVIOUS
  <2>2. q = [op |-> q.op, root |-> q.root, clean |-> q.clean]
    BY <1>1, <1>2, <1>3, <2>1 DEF PaimanShape
  <2>3. PICK r : r = [op |-> "rmtree", root |-> q.root, clean |-> q.clean]
    OBVIOUS
  <2>4. [q EXCEPT !.op = "rmtree"] = r
    BY <2>2, <2>3
  <2>5. paiman' = [paiman EXCEPT ![p] = r]
    <3>1. paiman' = [paiman EXCEPT ![p] = [q EXCEPT !.op = "rmtree"]]
      BY <1>4, <2>1 DEF Unlink, PkgInv, PkgTypeOK
    <3> QED
      BY <2>4, <3>1
  <2>6. r.op = "rmtree" /\ r.root = q.root /\ r.clean = q.clean
    BY <2>3
  <2>7. PaimanShape(r) /\ (r.clean => paiman[p].clean)
    BY <2>1, <2>3, <2>6 DEF PaimanShape
  <2>8. staged' = staged
    BY <1>4 DEF Unlink
  <2> QED
    BY <1>1, <1>2, <1>3, <2>5, <2>6, <2>7, <2>8, RunKeeps
<1>5. CASE RemoveStaging(p)
  <2>1. EndPaiman(p) /\ staged' = [staged EXCEPT ![paiman[p].root] = Absent]
    BY <1>5 DEF RemoveStaging
  <2>2. staged' = [x \in Bundles |-> staged'[x]]
    BY <1>1, <2>1
  <2> QED
    BY <1>2, <1>3, <2>1, <2>2, OverKeeps
<1> QED
  BY <1>4, <1>5

LEMMA PkgStep == PkgInv /\ [PkgNext]_pkgVars => PkgInv'
<1> SUFFICES ASSUME PkgInv, [PkgNext]_pkgVars PROVE PkgInv'
  OBVIOUS
<1>1. staged = [x \in Bundles |-> staged[x]] /\ registry = [x \in Bundles |-> registry[x]]
  BY DEF PkgInv, PkgTypeOK
<1>2. ASSUME NEW p \in Managers, KillPaiman(p) PROVE PkgInv'
  <2>1. paiman[p] # NoRun /\ EndPaiman(p) /\ registry' = registry /\ staged' = staged
    BY <1>2 DEF KillPaiman
  <2> QED
    BY <1>1, <2>1, OverKeeps
<1>3. ASSUME NEW b \in Bundles, EditRegistry(b) PROVE PkgInv'
  <2>1. /\ UNCHANGED <<staged, paiman>> /\ registry' = [registry EXCEPT ![b] = @ + 1]
        /\ \A p \in Managers : paiman[p] = NoRun
    BY <1>3 DEF EditRegistry, Overlap
  <2>2. registry' = [x \in Bundles |-> registry'[x]]
    BY <1>1, <2>1
  <2>3. \A p \in Managers : ~Installs(p)'
    BY <2>1 DEF Installs, NoRun
  <2> QED
    BY <2>1, <2>2, <2>3 DEF PkgInv, PkgTypeOK, PaimanShape, CleanIsAlone
<1>4. CASE UNCHANGED pkgVars
  <2>1. registry' = registry /\ staged' = staged /\ paiman' = paiman
    BY <1>4 DEF pkgVars
  <2>2. PkgTypeOK' /\ CleanIsAlone'
    BY <2>1 DEF PkgInv, PkgTypeOK, CleanIsAlone, PaimanShape
  <2>3. ASSUME NEW p \in Managers, Installs(p)', paiman'[p].clean
        PROVE  StackIsSound(paiman[p])' /\ DoneIsCurrent(paiman[p])'
    <3>1. StackIsSound(paiman[p]) /\ DoneIsCurrent(paiman[p])
      BY <2>1, <2>3 DEF PkgInv, Installs
    <3> QED
      BY <2>1, <3>1 DEF StackIsSound, DoneIsCurrent, Stacked, Fine, Current
  <2> QED
    BY <2>2, <2>3 DEF PkgInv
<1> QED
  BY <1>2, <1>3, <1>4, StartsKeepPkg, NextKeeps, LookupFails, CopyingKeeps, HooksKeep, RemoveKeeps
  DEF PkgNext

LEMMA InstallsRunAlone == PkgSpec => []PkgInv
BY PkgStarts, PkgStep, PTL DEF PkgSpec

\* Only RunHooks ends an install at its hooks without a fault, and then nothing else is on its stack.
LEMMA InstallEndsAtHooks ==
  ASSUME PkgInv, paimanFaults \in Nat, [PkgNext]_pkgVars, NEW p \in Managers,
         TopAt(p, "hooks"), paiman'[p] = NoRun, paimanFaults' = paimanFaults
  PROVE  RunHooks(p) /\ Len(paiman[p].stack) = 1
<1>1. Installs(p) /\ Top(p).at = "hooks" /\ paiman[p] # NoRun /\ paiman[p].op = "install"
  <2>1. Installs(p) /\ Top(p).at = "hooks"
    BY DEF TopAt
  <2> QED
    BY <2>1, TopOfRun DEF Installs
<1>2. paiman = [q \in Managers |-> paiman[q]]
  BY DEF PkgInv, PkgTypeOK
<1>3. ~Fault
  BY DEF Fault
<1>4. paiman'[p] # paiman[p]
  BY <1>1
<1>5. RunHooks(p)
  <2>1. ASSUME NEW q \in Managers, NEW cmd, cmd # NoRun, BeginPaiman(q, cmd) PROVE FALSE
    <3>1. paiman'[p] = IF p = q THEN cmd
                       ELSE IF paiman[p] = NoRun THEN NoRun ELSE [paiman[p] EXCEPT !.clean = FALSE]
      BY <2>1 DEF BeginPaiman
    <3>2. PICK no : no = FALSE
      OBVIOUS
    <3>3. PaimanShape(paiman[p])
      BY DEF PkgInv, PkgTypeOK
    <3>4. [paiman[p] EXCEPT !.clean = no] # NoRun
      BY <1>1, <3>3, Disturbed
    <3> QED
      BY <1>1, <2>1, <3>1, <3>2, <3>4
  <2>2. \A q \in Managers, b \in Bundles : \A force : ~BeginInstall(q, b) /\ ~BeginRemove(q, b, force)
    <3>1. ASSUME NEW q \in Managers, NEW b \in Bundles, BeginInstall(q, b) PROVE FALSE
      <4>1. [op |-> "install", root |-> b, stack |-> <<Frame(b)>>, seen |-> {b}, clean |-> ~Overlap] # NoRun
        BY DEF NoRun
      <4> QED
        BY <2>1, <3>1, <4>1 DEF BeginInstall
    <3>2. ASSUME NEW q \in Managers, NEW b \in Bundles, NEW force, BeginRemove(q, b, force) PROVE FALSE
      <4>1. [op |-> "unlink", root |-> b, clean |-> ~Overlap] # NoRun
        BY DEF NoRun
      <4> QED
        BY <2>1, <3>2, <4>1 DEF BeginRemove
    <3> QED
      BY <3>1, <3>2
  <2>3. ASSUME NEW q \in Managers,
               NextDep(q) \/ ClearStaging(q) \/ BeginCopy(q) \/ EndCopy(q) \/ Activate(q) \/ Unlink(q)
               \/ RemoveStaging(q) \/ RunHooks(q)
        PROVE  q = p
    <3>1. \E r : paiman' = [paiman EXCEPT ![q] = r]
      BY <1>2, <2>3 DEF NextDep, ClearStaging, BeginCopy, EndCopy, Activate, Unlink, RemoveStaging, RunHooks, Pop,
                        EndPaiman, Turn, SetTop
    <3> QED
      BY <1>2, <1>4, <3>1
  <2>4. /\ ~NextDep(p) /\ ~ClearStaging(p) /\ ~BeginCopy(p) /\ ~EndCopy(p) /\ ~Activate(p)
        /\ ~Unlink(p) /\ ~RemoveStaging(p)
    BY <1>1 DEF NextDep, ClearStaging, BeginCopy, EndCopy, Activate, Unlink, RemoveStaging, TopAt
  <2>5. \A q \in Managers : ~DepNotFound(q) /\ ~HookAlters(q) /\ ~KillPaiman(q)
    BY <1>3 DEF DepNotFound, HookAlters, KillPaiman
  <2>6. paiman' # paiman /\ \A b \in Bundles : ~EditRegistry(b)
    BY <1>4 DEF EditRegistry
  <2> QED
    BY <2>2, <2>3, <2>4, <2>5, <2>6 DEF PkgNext, pkgVars
<1>6. Len(paiman[p].stack) = 1
  <2>1. SUFFICES ASSUME Len(paiman[p].stack) # 1 PROVE paiman'[p] # NoRun
    OBVIOUS
  <2>2. paiman'[p] = [paiman[p] EXCEPT !.stack = Front(paiman[p].stack)]
    BY <1>2, <1>5, <2>1 DEF RunHooks, Pop
  <2>3. paiman'[p].op = "install"
    <3>1. PICK q : q = paiman[p]
      OBVIOUS
    <3>2. q = [op |-> "install", root |-> q.root, stack |-> q.stack, seen |-> q.seen, clean |-> q.clean]
      BY <1>1, <3>1, TopOfRun
    <3>3. [q EXCEPT !.stack = Front(q.stack)].op = "install"
      BY <3>2
    <3> QED
      BY <2>2, <3>1, <3>3
  <2> QED
    BY <2>3 DEF NoRun
<1> QED
  BY <1>5, <1>6

\* An install that nothing disturbed leaves what it installed, and every dep of this, as the
\* registry ships it, whatever was staged before (_install_from_source, paiman.py).
THEOREM InstallsEndCurrent == PkgSpec => InstallIsCurrent
<1>1. PkgInit => paimanFaults \in Nat
  BY DEF PkgInit
<1>2. paimanFaults \in Nat /\ [PkgNext]_pkgVars => (paimanFaults \in Nat)'
  <2> SUFFICES ASSUME paimanFaults \in Nat, [PkgNext]_pkgVars PROVE (paimanFaults \in Nat)'
    OBVIOUS
  <2>1. paimanFaults' \in {paimanFaults, paimanFaults + 1}
    BY DEF PkgNext, pkgVars, pkgCounts, BeginInstall, BeginRemove, NextDep, DepNotFound, ClearStaging, BeginCopy,
           EndCopy, Activate, RunHooks, HookAlters, Unlink, RemoveStaging, KillPaiman, EditRegistry, Fault
  <2> QED
    BY <2>1
<1>3. PkgInv /\ paimanFaults \in Nat /\ [PkgNext]_pkgVars =>
        [\A p \in Managers :
           /\ TopAt(p, "hooks") /\ paiman'[p] = NoRun /\ paiman[p].clean
           /\ paimanFaults' = paimanFaults
           => \A b \in paiman[p].seen : \A x \in {b} \cup ToSet(DepsOf[b]) : Current(x)]_pkgVars
  <2> SUFFICES ASSUME PkgInv, paimanFaults \in Nat, [PkgNext]_pkgVars, NEW p \in Managers,
                      TopAt(p, "hooks"), paiman'[p] = NoRun, paiman[p].clean, paimanFaults' = paimanFaults,
                      NEW b \in paiman[p].seen, NEW x \in {b} \cup ToSet(DepsOf[b])
               PROVE  Current(x)
    OBVIOUS
  <2>1. Len(paiman[p].stack) = 1
    BY InstallEndsAtHooks
  <2>2. Installs(p) /\ Top(p).at = "hooks"
    BY DEF TopAt
  <2>3. StackIsSound(paiman[p]) /\ DoneIsCurrent(paiman[p])
    BY <2>2 DEF PkgInv
  <2>4. Top(p) = paiman[p].stack[1]
    BY <2>1, <2>2, TopOfRun
  <2>5. /\ staged[Top(p).bundle] = registry[Top(p).bundle]
        /\ \A y \in ToSet(DepsOf[Top(p).bundle]) : Fine(paiman[p], y)
    <3>1. 1 \in 1..Len(paiman[p].stack)
      BY <2>1
    <3>2. Top(p).left = <<>>
      BY <2>2, <2>3, <2>4, <3>1 DEF StackIsSound
    <3>3. ToSet(Top(p).left) = {}
      BY <3>2 DEF ToSet
    <3> QED
      BY <2>2, <2>3, <2>4, <3>1, <3>3 DEF StackIsSound
  <2>6. Stacked(paiman[p]) = {Top(p).bundle}
    BY <2>1, <2>4 DEF Stacked
  <2>7. \A c \in paiman[p].seen : Current(c) /\ \A y \in ToSet(DepsOf[c]) : Fine(paiman[p], y)
    BY <2>3, <2>5, <2>6 DEF DoneIsCurrent, Current
  <2> QED
    BY <2>7 DEF Fine, Current
<1> QED
  BY <1>1, <1>2, <1>3, InstallsRunAlone, PTL DEF PkgSpec, InstallIsCurrent
=============================================================================
