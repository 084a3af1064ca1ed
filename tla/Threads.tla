------------------------------ MODULE Threads -------------------------------
(***************************************************************************)
(* Conversations on disk: messages/<slug>/ with a meta.yaml and day-files, *)
(* people/<slug>/about.yaml.  ingest() finds or makes the thread of an     *)
(* incoming message; contacts.sync, addcontact, resolve-contact and the    *)
(* imessage outbound driver make and rename threads beside it, the two     *)
(* commands as processes of their own, so they are cut between their       *)
(* checks and their writes.                                                *)
(*                                                                         *)
(* A slug is <<base, n>>: base is a name, a bare handle or a group's guid, *)
(* n the suffix that keeps it unique.                                      *)
(***************************************************************************)
EXTENDS Integers, FiniteSets, FiniteSetsExt

CONSTANTS Handles, Names, Guids,
          NameOf,      \* the address book: handle -> name, or NoName
          NoName,
          Incoming,    \* messages: [id, from: Handles, guid: Guids or NoGuid]
          NoGuid,
          MaxSuffix,   \* bound: suffixes of a slug
          MaxCommands  \* bound: syncs, directories, additions and renames

\* A group's slug is "group-" and a hash of its guid: nobody else's slug.
ASSUME ThreadsAssumption ==
  /\ NameOf \in [Handles -> Names \cup {NoName}] /\ NoName \notin Names
  /\ \A m \in Incoming : m.from \in Handles /\ m.guid \in Guids \cup {NoGuid}
  /\ NoGuid \notin Guids /\ Guids \cap (Handles \cup Names) = {}
  /\ MaxSuffix \in Nat \ {0} /\ MaxCommands \in Nat

Slugs == (Handles \cup Names \cup Guids) \X (1..MaxSuffix)

NoThread == [kind |-> "none", handles |-> {}, guid |-> NoGuid]   \* no directory
Bare     == [kind |-> "bare", handles |-> {}, guid |-> NoGuid]   \* one without meta.yaml
Peer(hs) == [kind |-> "peer", handles |-> hs, guid |-> NoGuid]
Group(hs, g) == [kind |-> "group", handles |-> hs, guid |-> g]

VARIABLES
  thread,      \* per slug
  person,      \* per slug: the handles in about.yaml, {} if there is none
  dayLog,      \* per slug: the messages in its day-files
  adding,      \* what addcontact is about to write: <<slug, handles>>, or <<>>
  renaming,    \* resolve-contact, its person moved, its thread not: <<old, new>>, or <<>>
  replaced,    \* observer: slugs whose meta.yaml a command wrote over
  commands

threadVars == <<thread, person, dayLog, adding, renaming, replaced, commands>>

Command == commands < MaxCommands /\ commands' = commands + 1

ThreadsInit ==
  /\ thread = [s \in Slugs |-> NoThread] /\ person = [s \in Slugs |-> {}]
  /\ dayLog = [s \in Slugs |-> {}]
  /\ adding = <<>> /\ renaming = <<>> /\ replaced = {} /\ commands = 0

-----------------------------------------------------------------------------
(* ingest                                                                  *)

MutMatches(s, m) ==                                \* a group falls back to its sender
  \/ thread[s].guid = m.guid /\ m.guid # NoGuid
  \/ m.from \in thread[s].handles

\* A group message goes by its guid alone; any other by the handles of the thread.
Matches(s, m) ==
  IF m.guid # NoGuid THEN thread[s].guid = m.guid ELSE m.from \in thread[s].handles

\* A person who already has the handle is the same human, not a collision.
MutFree(s, h) == person[s] = {} \/ h \in person[s]  \* looks at people only

Free(s, h) == thread[s].kind = "none" /\ (person[s] = {} \/ h \in person[s])

Unique(base, h) ==
  {<<base, n>> : n \in {k \in 1..MaxSuffix :
     Free(<<base, k>>, h) /\ \A j \in 1..(k - 1) : ~Free(<<base, j>>, h)}}

\* contacts.resolve: the address book, read once, gives the name a slug is made of.
Base(h) == IF NameOf[h] = NoName THEN h ELSE NameOf[h]

\* Only a group whose meta.yaml was unreadable needs a suffix.
SlugFor(m) ==
  IF m.guid # NoGuid
  THEN IF thread[<<m.guid, 1>>].kind = "none" THEN {<<m.guid, 1>>} ELSE Unique(m.guid, m.from)
  ELSE Unique(Base(m.from), m.from)

\* The roster may lag behind the message, the sender is put in it in any case.
CreateThread(s, m, roster) ==
  thread' = [thread EXCEPT ![s] = IF m.guid # NoGuid THEN Group(roster \cup {m.from}, m.guid)
                                  ELSE Peer({m.from})]

CreatePerson(s, m) ==
  person' = IF m.guid # NoGuid \/ person[s] # {} THEN person
            ELSE [person EXCEPT ![s] = {m.from}]

\* One bracketed line, whatever line breaks the text has.
AppendDayFile(s, m) == dayLog' = [dayLog EXCEPT ![s] = @ \cup {m}]

Filed == UNION {dayLog[s] : s \in Slugs}

Ingest(m) ==
  /\ m \notin Filed
  /\ LET found == {s \in Slugs : Matches(s, m)} IN
       IF found # {}
       THEN /\ \E s \in found : AppendDayFile(s, m)
            /\ UNCHANGED <<thread, person>>
       ELSE \E s \in SlugFor(m), roster \in SUBSET Handles :
              /\ CreateThread(s, m, roster) /\ CreatePerson(s, m)
              /\ AppendDayFile(s, m)
  /\ UNCHANGED <<adding, renaming, replaced, commands>>

-----------------------------------------------------------------------------
(* The other makers of threads.                                            *)

\* contacts.sync, one contact: it looks at the slug, not at who has the handles.
SyncContact(name) ==
  LET s == <<name, 1>>
      hs == {h \in Handles : NameOf[h] = name} IN
  /\ hs # {} /\ (person[s] = {} \/ thread[s].kind \in {"none", "bare"})
  /\ person' = IF person[s] = {} THEN [person EXCEPT ![s] = hs] ELSE person
  /\ thread' = IF thread[s].kind \in {"none", "bare"} THEN [thread EXCEPT ![s] = Peer(hs)]
               ELSE thread
  /\ Command /\ UNCHANGED <<dayLog, adding, renaming, replaced>>

MakeDirectory(s) ==
  /\ s[2] = 1 /\ s[1] \notin Guids /\ thread[s].kind = "none"
  /\ thread' = [thread EXCEPT ![s] = Bare]
  /\ Command /\ UNCHANGED <<person, dayLog, adding, renaming, replaced>>

\* _materialize_meta: the person of that slug, else a slug that is a handle.
Materialize(s) ==
  LET hs == IF person[s] # {} THEN person[s] ELSE {s[1]} \cap Handles IN
  /\ thread[s].kind = "bare" /\ hs # {}
  /\ thread' = [thread EXCEPT ![s] = Peer(hs)]
  /\ UNCHANGED <<person, dayLog, adding, renaming, replaced, commands>>

CheckContact(name, hs) ==
  LET s == <<name, 1>> IN
  /\ adding = <<>> /\ person[s] = {} /\ thread[s].kind = "none"
  /\ \A h \in hs, t \in Slugs : h \notin thread[t].handles
  /\ adding' = <<s, hs>>
  /\ Command /\ UNCHANGED <<thread, person, dayLog, renaming, replaced>>

\* _create_thread writes the meta.yaml whatever has come to be there since the check.
AddContact ==
  /\ adding # <<>>
  /\ LET s == adding[1] IN
       /\ thread' = [thread EXCEPT ![s] = Peer(adding[2])]
       /\ person' = [person EXCEPT ![s] = @ \cup adding[2]]
       /\ replaced' = IF thread[s].kind = "none" THEN replaced ELSE replaced \cup {s}
  /\ adding' = <<>>
  /\ UNCHANGED <<dayLog, renaming, commands>>

\* The four checks, then the person moves.
RenamePerson(old, name) ==
  LET new == <<name, 1>> IN
  /\ renaming = <<>> /\ old # new
  /\ person[old] # {} /\ thread[old].kind # "none"
  /\ person[new] = {} /\ thread[new].kind = "none"
  /\ person' = [person EXCEPT ![old] = {}, ![new] = person[old]]
  /\ renaming' = <<old, new>>
  /\ Command /\ UNCHANGED <<thread, dayLog, adding, replaced>>

\* The thread as it stands under its new name; handles only if it had none.
MovedThread(old, new) ==
  IF thread[old].kind = "peer" /\ thread[old].handles = {}
  THEN Peer(person[new]) ELSE thread[old]

\* rename() fails on a directory that is not empty: the person has moved, the thread not.
RenameThread ==
  /\ renaming # <<>>
  /\ LET old == renaming[1]  new == renaming[2] IN
       IF thread[new].kind \in {"none", "bare"} /\ thread[old].kind # "none"
       THEN /\ thread' = [thread EXCEPT ![old] = NoThread, ![new] = MovedThread(old, new)]
            /\ dayLog' = [dayLog EXCEPT ![old] = {}, ![new] = dayLog[old] \cup dayLog[new]]
            /\ replaced' = IF old \in replaced THEN replaced \cup {new} ELSE replaced
       ELSE UNCHANGED <<thread, dayLog, replaced>>
  /\ renaming' = <<>>
  /\ UNCHANGED <<person, adding, commands>>

ThreadsNext ==
  \/ \E m \in Incoming : Ingest(m)
  \/ \E name \in Names : SyncContact(name)
  \/ \E s \in Slugs : MakeDirectory(s) \/ Materialize(s)
  \/ \E name \in Names, hs \in SUBSET Handles \ {{}} : CheckContact(name, hs)
  \/ AddContact
  \/ \E old \in Slugs, name \in Names : RenamePerson(old, name)
  \/ RenameThread

ThreadsSpec == ThreadsInit /\ [][ThreadsNext]_threadVars

-----------------------------------------------------------------------------
\* A group message is only ever in the thread of its group, whoever sent it and whatever
\* thread the sender has.  (resolve_slug: "A group message must never fall back".)
GroupStaysInGroup ==
  \A s \in Slugs : \A m \in dayLog[s] : m.guid # NoGuid => thread[s].guid = m.guid

\* A message of one person is in a thread that lists that person, through syncs, renames
\* and additions, unless addcontact wrote over a thread made since its check.
\* (resolve_slug, _unique_slug, resolve_contact.)
PrivateReachesPeer ==
  \A s \in Slugs : \A m \in dayLog[s] :
    m.guid = NoGuid => m.from \in thread[s].handles \/ s \in replaced

\* "Place an incoming message in the right thread": what one person writes to the owner
\* does not go into a group's thread.  (ingest, resolve_slug.)
PrivateStaysPrivate ==
  \A s \in Slugs : \A m \in dayLog[s] : m.guid = NoGuid => thread[s].kind # "group"
=============================================================================
