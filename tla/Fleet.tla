-------------------------------- MODULE Fleet --------------------------------
(***************************************************************************)
(* paiadd, paiclone, paidel and paictl: commands that edit the fleet in    *)
(* /etc/config.yaml, each a process that reads the file, writes its copy   *)
(* into config.yaml.tmp and renames that over the file.  There is one      *)
(* config.yaml.tmp: names in a directory and the files behind them are     *)
(* told apart here, for two commands may have the same file open.          *)
(***************************************************************************)
EXTENDS Integers, FiniteSets

CONSTANTS PaiNames,         \* names an entry may have
          FirstFleet,       \* the names in config.yaml at the start
          Shells,           \* where commands run, one at a time in each
          MaxFleetCommands, \* bound: commands started
          MaxKilled         \* bound: commands killed half-way

\* A file of fleet entries, or one no parser accepts.  An empty file is an empty fleet.
Entry(n, active) == <<n, active>>
Torn    == {Entry("torn", FALSE)}
NamesIn(file) == {e[1] : e \in file}
NoTmp   == 0
Inodes  == 1..(Cardinality(Shells) + 2)
NoShell == [op |-> "none"]

ASSUME FleetAssumption == IsFiniteSet(Shells)

VARIABLES
  inode,      \* what each file holds
  conf, tmp,  \* the files config.yaml and config.yaml.tmp name
  shell,      \* per shell: its command
  instances,  \* /var/lib/instances
  homes,      \* /home
  running,    \* PAIs whose /proc status says running
  reload,     \* kernel:reload_config is on its way
  \* observers
  whole,      \* the fleet the renames so far make, each change applied in turn
  overlapped, \* two commands have run at the same time
  started, killedCmds

fleetVars == <<inode, conf, tmp, shell, instances, homes, running, reload, whole, overlapped,
               started, killedCmds>>
files  == <<inode, conf, tmp, whole>>
dirs   == <<instances, homes>>
kernel == <<running, reload>>
fleetCounts == <<overlapped, started, killedCmds>>

FleetInit ==
  /\ conf = 1 /\ tmp = NoTmp
  /\ inode = [i \in Inodes |-> IF i = 1 THEN {Entry(n, TRUE) : n \in FirstFleet} ELSE {}]
  /\ whole = inode[1]
  /\ shell = [s \in Shells |-> NoShell]
  /\ instances = FirstFleet /\ homes = FirstFleet
  /\ running = FirstFleet /\ reload = FALSE
  /\ overlapped = FALSE /\ started = 0 /\ killedCmds = 0

-----------------------------------------------------------------------------
\* A command starts; when it cannot read the file it is over at once.
Begin(s, cmd) ==
  /\ shell[s] = NoShell /\ started < MaxFleetCommands /\ inode[conf] # Torn
  /\ started' = started + 1
  /\ overlapped' = (overlapped \/ \E t \in Shells : shell[t] # NoShell)
  /\ shell' = [shell EXCEPT ![s] = cmd]
  /\ UNCHANGED <<files, dirs, kernel, killedCmds>>

Step(s, op)  == shell' = [shell EXCEPT ![s] = [@ EXCEPT !.op = op]]
Exit(s)      == shell' = [shell EXCEPT ![s] = NoShell]
Does(s, op)  == shell[s].op = op
Command(op, kind, entry) == [op |-> op, kind |-> kind, entry |-> entry, purge |-> FALSE]

\* A name is free when no entry and no instance state has it.
FreeName(n) == n \notin NamesIn(inode[conf]) /\ n \notin instances

\* paiadd <bundle> --yes, or the wizard: an entry without an active flag is active.
BeginAdd(s, n) == FreeName(n) /\ Begin(s, Command("materialize", "append", Entry(n, TRUE)))

\* plan_clone: a copy of the source's entry under another name.
BeginClone(s, source, n) ==
  /\ FreeName(n)
  /\ \E e \in inode[conf] :
       e[1] = source /\ Begin(s, Command("materialize", "append", Entry(n, e[2])))

\* materialize: the instance directory (the second of two fails on it) and the home.
MakeInstance(s) ==
  LET n == shell[s].entry[1]
  IN  /\ Does(s, "materialize")
      /\ IF n \in instances
         THEN Exit(s) /\ UNCHANGED dirs
         ELSE /\ instances' = instances \cup {n} /\ homes' = homes \cup {n}
              /\ Step(s, "read")
      /\ UNCHANGED <<files, kernel, fleetCounts>>

\* paidel refuses a PAI whose status says running.
BeginDelete(s, n, purge) ==
  /\ n \notin running
  /\ n \in NamesIn(inode[conf]) \cup homes \cup (IF purge THEN instances ELSE {})
  /\ Begin(s, [Command("read", "drop", Entry(n, TRUE)) EXCEPT !.purge = purge])

\* paictl start and stop.
BeginSetActive(s, n, value) ==
  n \in NamesIn(inode[conf]) /\ Begin(s, Command("read", "set", Entry(n, value)))

\* The change a command makes to the file it has read.
Change(cmd, file) ==
  LET others == {e \in file : e[1] # cmd.entry[1]}
  IN  CASE cmd.kind = "append" -> file \cup {cmd.entry}
        [] cmd.kind = "drop"   -> others
        [] cmd.kind = "set"    -> IF others = file THEN file ELSE others \cup {cmd.entry}

AfterRename(cmd) == IF cmd.kind = "drop" THEN "remove" ELSE "emit"

\* safe_load, and the change in memory; no change, no write.
ReadConfig(s) ==
  /\ Does(s, "read")
  /\ IF inode[conf] = Torn
     THEN Exit(s)
     ELSE LET new == Change(shell[s], inode[conf])
          IN  shell' = [shell EXCEPT ![s] =
                [op |-> IF new = inode[conf] THEN AfterRename(@) ELSE "open",
                 kind |-> @.kind, entry |-> @.entry, purge |-> @.purge, new |-> new]]
  /\ UNCHANGED <<files, dirs, kernel, fleetCounts>>

\* Written in place, without a .tmp.
MutTmpFile == conf

\* The file config.yaml.tmp names, or a new one.
TmpFile ==
  IF tmp # NoTmp THEN tmp
  ELSE CHOOSE i \in Inodes \ {conf} : \A s \in Shells :
         Does(s, "write") \/ Does(s, "rename") => shell[s].file # i

\* open("w"): made if it is not there, emptied if it is.
OpenTmp(s) ==
  /\ Does(s, "open")
  /\ tmp' = TmpFile /\ inode' = [inode EXCEPT ![TmpFile] = {}]
  /\ shell' = [shell EXCEPT ![s] = [op |-> "write", kind |-> @.kind, entry |-> @.entry,
                                    purge |-> @.purge, new |-> @.new, file |-> TmpFile]]
  /\ UNCHANGED <<conf, whole, dirs, kernel, fleetCounts>>

\* The text goes to the start of the open file, over what another command wrote there.
WriteTmp(s) ==
  /\ Does(s, "write")
  /\ \E text \in {shell[s].new} \cup (IF inode[shell[s].file] = {} THEN {} ELSE {Torn}) :
       inode' = [inode EXCEPT ![shell[s].file] = text]
  /\ Step(s, "rename")
  /\ UNCHANGED <<conf, tmp, whole, dirs, kernel, fleetCounts>>

\* rename(config.yaml.tmp, config.yaml): an error when another took the .tmp away.
RenameTmp(s) ==
  /\ Does(s, "rename")
  /\ IF tmp = NoTmp
     THEN Exit(s) /\ UNCHANGED files
     ELSE /\ conf' = tmp /\ tmp' = NoTmp /\ whole' = Change(shell[s], whole)
          /\ Step(s, AfterRename(shell[s]))
          /\ UNCHANGED inode
  /\ UNCHANGED <<dirs, kernel, fleetCounts>>

\* delete: home, /proc and run directories; with --purge the instance state.
RemoveDirs(s) ==
  LET n == shell[s].entry[1]
  IN  /\ Does(s, "remove")
      /\ homes' = homes \ {n} /\ running' = running \ {n}
      /\ instances' = IF shell[s].purge THEN instances \ {n} ELSE instances
      /\ Step(s, "emit")
      /\ UNCHANGED <<files, reload, fleetCounts>>

EmitReload(s) ==
  /\ Does(s, "emit") /\ reload' = TRUE /\ Exit(s)
  /\ UNCHANGED <<files, dirs, running, fleetCounts>>

\* paictl reload.
ReloadFleet ==
  /\ ~reload /\ reload' = TRUE
  /\ UNCHANGED <<files, shell, dirs, running, fleetCounts>>

KillCommand(s) ==
  /\ shell[s] # NoShell /\ killedCmds < MaxKilled
  /\ killedCmds' = killedCmds + 1 /\ Exit(s)
  /\ UNCHANGED <<files, dirs, kernel, overlapped, started>>

\* The kernel starts and stops what config.yaml says, if it can read it.
Reconcile ==
  /\ reload /\ reload' = FALSE
  /\ running' = IF inode[conf] = Torn THEN running
                ELSE {e[1] : e \in {f \in inode[conf] : f[2]}}
  /\ UNCHANGED <<files, shell, dirs, fleetCounts>>

FleetNext ==
  \/ \E s \in Shells :
       \/ \E n \in PaiNames :
            \/ BeginAdd(s, n) \/ \E source \in PaiNames : BeginClone(s, source, n)
            \/ \E b \in BOOLEAN : BeginDelete(s, n, b) \/ BeginSetActive(s, n, b)
       \/ MakeInstance(s) \/ ReadConfig(s) \/ OpenTmp(s) \/ WriteTmp(s) \/ RenameTmp(s)
       \/ RemoveDirs(s) \/ EmitReload(s) \/ KillCommand(s)
  \/ ReloadFleet \/ Reconcile

FleetSpec == FleetInit /\ [][FleetNext]_fleetVars

-----------------------------------------------------------------------------
\* As long as commands run one at a time, config.yaml holds the fleet that the finished
\* changes make, wherever a command is killed, and every entry has its instance state and
\* its home (_append_entry, _drop_entry, _set_active, materialize, delete).
FleetIsWhole ==
  ~overlapped => /\ inode[conf] = whole
                 /\ NamesIn(inode[conf]) \subseteq instances \cap homes
=============================================================================
