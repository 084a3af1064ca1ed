------------------------------ MODULE Subagents ------------------------------
(***************************************************************************)
(* bin/subagent: a PAI forks children, steers and kills them; a child ends *)
(* itself with a result.  Every command is a process of its own that works *)
(* on /proc by slug, one call after the other, and the slug of a child     *)
(* that is gone is free for the next.                                      *)
(***************************************************************************)
EXTENDS Integers

CONSTANTS Parents,         \* pids of top-level PAIs
          Children,        \* pids alloc_pai_pid hands out, 1..n
          Packaged,        \* slugs that end in the name of an installed package
          Neutral,         \* slugs that do not
          MaxLostCommands  \* bound: commands killed half-way

Bases  == Packaged \cup Neutral
NoSlug == <<"none", 0>>
\* base-<date>, or base-<date>T<time>: a timestamp of one second
Slugs  == Bases \X (0..1)
Actors == Parents \cup Children
NoCommand == [op |-> "none"]

ASSUME SubagentsAssumption ==
  /\ Children \subseteq Nat /\ Parents \cap Children = {}
  /\ "none" \notin Bases

VARIABLES
  proc,       \* /proc: live slug -> its spec
  command,    \* per pid: the subagent command it runs
  reports,    \* result files: <<parent, slug>>, in the parent's workspace
  tasked,     \* children whose kickoff message is out
  \* observers
  bornAs,     \* per child: the slug it got
  childSpec,  \* and its spec
  answered,   \* children whose result their parent has been sent
  noticed,    \* children of whose end the kernel told their parent
  killed,     \* children their own parent's kill ended
  lostCommands

subVars == <<proc, command, reports, tasked, bornAs, childSpec, answered, noticed, killed,
             lostCommands>>
ends    == <<answered, noticed, killed>>
births  == <<bornAs, childSpec>>

NoSpec == [pid |-> 0]
Born   == {c \in Children : bornAs[c] # NoSlug}
Alive  == {proc[s].pid : s \in DOMAIN proc}
\* _canonical_slug_for_pid: find_pai_slug of the caller.
SlugOf(c) == CHOOSE s \in DOMAIN proc : proc[s].pid = c

SubInit ==
  /\ proc = [s \in {} |-> NoSpec] /\ command = [a \in Actors |-> NoCommand]
  /\ reports = {} /\ tasked = {}
  /\ bornAs = [c \in Children |-> NoSlug] /\ childSpec = [c \in Children |-> NoSpec]
  /\ answered = {} /\ noticed = {} /\ killed = {} /\ lostCommands = 0

Idle(a)      == command[a] = NoCommand /\ (a \in Children => a \in Alive)
Ends(a)      == command' = [command EXCEPT ![a] = NoCommand]
Goes(a, rec) == command' = [command EXCEPT ![a] = rec]
At(a, op)    == command[a].op = op

-----------------------------------------------------------------------------
\* P.resolve: out of /proc, and a notice to the parent unless it is quiet.
Resolve(slug, loud) ==
  /\ proc' = [s \in DOMAIN proc \ {slug} |-> proc[s]]
  /\ noticed' = IF loud THEN noticed \cup {proc[slug].pid} ELSE noticed

\* _package_hint_from_slug: a slug named after a package asks for --package.
Hinted(base, package) == ~package /\ base \in Packaged

\* _allocate_slug: today's slug while it is free, a timestamped one if not.
AllocateSlug(base) == IF <<base, 0>> \in DOMAIN proc THEN <<base, 1>> ELSE <<base, 0>>

\* The prompt, the package and the model are resolved; a slug is chosen.
BeginSpawn(a, base, package, suicide) ==
  /\ Idle(a) /\ ~Hinted(base, package)
  /\ Goes(a, [op |-> "spawn", slug |-> AllocateSlug(base), suicide |-> suicide])
  /\ UNCHANGED <<proc, reports, tasked, births, ends, lostCommands>>

\* alloc_pai_pid and P.spawn, which refuses a slug that is in /proc by now.
SpawnChild(a) ==
  LET slug == command[a].slug
      c    == CHOOSE d \in Children \ Born : \A e \in Children \ Born : d <= e
      spec == [pid |-> c, parent |-> a, suicide |-> command[a].suicide]
  IN  /\ At(a, "spawn") /\ Born # Children
      /\ IF slug \in DOMAIN proc
         THEN Ends(a) /\ UNCHANGED <<proc, births>>
         ELSE /\ proc' = [s \in DOMAIN proc \cup {slug} |-> IF s = slug THEN spec ELSE proc[s]]
              /\ bornAs' = [bornAs EXCEPT ![c] = slug]
              /\ childSpec' = [childSpec EXCEPT ![c] = spec]
              /\ Goes(a, [op |-> "kickoff", child |-> c])
      /\ UNCHANGED <<reports, tasked, ends, lostCommands>>

\* The kickoff: the prompt, as the parent's first message.
Kickoff(a) ==
  /\ At(a, "kickoff")
  /\ tasked' = tasked \cup {command[a].child}
  /\ Ends(a)
  /\ UNCHANGED <<proc, reports, births, ends, lostCommands>>

-----------------------------------------------------------------------------
\* A child writes result.md into its directory of the parent's workspace.
WriteReport(c) ==
  /\ c \in Alive /\ Idle(c)
  /\ reports' = reports \cup {<<childSpec[c].parent, bornAs[c]>>}
  /\ UNCHANGED <<proc, command, tasked, births, ends, lostCommands>>

\* Whatever the spec says.
MutFinish(slug) == TRUE

EnsureCanFinish(slug) == proc[slug].suicide

\* _normalize_result_path: a file inside PAI_RESULT_DIR.
ResultThere(c, slug) == <<childSpec[c].parent, slug>> \in reports

\* cmd_done: its own proc, the permission to finish, and the file.
BeginDone(c) ==
  /\ Idle(c)
  /\ EnsureCanFinish(SlugOf(c)) /\ ResultThere(c, SlugOf(c))
  /\ Goes(c, [op |-> "respond", slug |-> SlugOf(c)])
  /\ UNCHANGED <<proc, reports, tasked, births, ends, lostCommands>>

\* subagent:response, with done and the path of the result.
EmitParentResponse(c) ==
  /\ At(c, "respond")
  /\ answered' = answered \cup {c}
  /\ Goes(c, [command[c] EXCEPT !.op = "leave"])
  /\ UNCHANGED <<proc, reports, tasked, births, noticed, killed, lostCommands>>

\* Resolve quietly, by slug.
ResolveDone(c) ==
  /\ At(c, "leave")
  /\ IF command[c].slug \in DOMAIN proc
     THEN Resolve(command[c].slug, FALSE)
     ELSE UNCHANGED <<proc, noticed>>
  /\ Ends(c)
  /\ UNCHANGED <<reports, tasked, births, answered, killed, lostCommands>>

\* cmd_kill: only the parent in the spec may abort.
BeginKill(a, slug) ==
  /\ Idle(a) /\ slug \in DOMAIN proc /\ proc[slug].parent = a
  /\ Goes(a, [op |-> "kill", slug |-> slug])
  /\ UNCHANGED <<proc, reports, tasked, births, ends, lostCommands>>

KillChild(a) ==
  LET slug == command[a].slug
  IN  /\ At(a, "kill")
      /\ IF slug \in DOMAIN proc
         THEN /\ Resolve(slug, TRUE)
              /\ killed' = IF proc[slug].parent = a THEN killed \cup {proc[slug].pid} ELSE killed
         ELSE UNCHANGED <<proc, noticed, killed>>
      /\ Ends(a)
      /\ UNCHANGED <<reports, tasked, births, answered, lostCommands>>

\* A command is killed between two of its calls.
LoseCommand(a) ==
  /\ command[a] # NoCommand /\ lostCommands < MaxLostCommands
  /\ lostCommands' = lostCommands + 1 /\ Ends(a)
  /\ UNCHANGED <<proc, reports, tasked, births, ends>>

SubNext ==
  \/ \E a \in Parents :
       \/ \E b \in Bases, package, suicide \in BOOLEAN : BeginSpawn(a, b, package, suicide)
       \/ SpawnChild(a) \/ Kickoff(a) \/ KillChild(a)
       \/ \E s \in Slugs : BeginKill(a, s)
  \/ \E c \in Children :
       WriteReport(c) \/ BeginDone(c) \/ EmitParentResponse(c) \/ ResolveDone(c)
  \/ \E a \in Actors : LoseCommand(a)

SubSpec == SubInit /\ [][SubNext]_subVars

-----------------------------------------------------------------------------
\* A child whose slug no other child was given ends the way spawn promised its parent,
\* whoever races whom and whatever dies: the parent has its result, and the file is there,
\* or the notice of its end; and one spawned with --suicide-allowed no ends by its
\* parent's kill alone (cmd_done, _resolve_done, cmd_kill).
Lone(c) == \A d \in Children \ {c} : bornAs[d] # bornAs[c]
EndsAsAgreed ==
  \A c \in Born : (c \notin Alive /\ Lone(c)) =>
    /\ c \in noticed \/ (c \in answered /\ <<childSpec[c].parent, bornAs[c]>> \in reports)
    /\ ~childSpec[c].suicide => c \in killed
=============================================================================
