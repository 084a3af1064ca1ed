---------------------------- MODULE ThreadsProofs ----------------------------
(***************************************************************************)
(* Messages are in the right thread, for any handles, names, groups,       *)
(* messages and address book: a group's in the thread of the group         *)
(* (GroupStaysInGroup), a person's in one that lists the person            *)
(* (PrivateReachesPeer), through syncs, additions and renames.             *)
(*                                                                         *)
(* And the other way round, for any invocations, texts and pids: what a    *)
(* send command reports as done is done (ReportsAreTrue).                  *)
(***************************************************************************)
EXTENDS Threads, SendCommands, FiniteSetTheorems, TLAPS

ThreadRecords == [kind : {"none", "bare", "peer", "group"}, handles : SUBSET Handles,
                  guid : Guids \cup {NoGuid}]

ThreadsTypeOK ==
  /\ thread \in [Slugs -> ThreadRecords]
  /\ person \in [Slugs -> SUBSET Handles]
  /\ dayLog \in [Slugs -> SUBSET Incoming]
  /\ adding = <<>> \/ adding \in Slugs \X SUBSET Handles
  /\ renaming = <<>> \/ renaming \in Slugs \X Slugs
  /\ replaced \subseteq Slugs /\ commands \in Nat

\* Only a group's thread has a guid, and where there is no meta.yaml nothing is filed.
KindsFit ==
  \A s \in Slugs :
    /\ thread[s].kind # "group" => thread[s].guid = NoGuid
    /\ thread[s].kind \in {"none", "bare"} => thread[s].handles = {} /\ dayLog[s] = {}

\* A group's thread keeps the slug made of its guid: no person, command or rename has it.
GroupsKeepTheirSlugs ==
  /\ \A s \in Slugs : thread[s].kind = "group" => s[1] \in Guids
  /\ \A s \in Slugs : person[s] # {} => s[1] \notin Guids
  /\ adding # <<>> => adding[1][1] \notin Guids
  /\ renaming # <<>> =>
       renaming[1] # renaming[2] /\ renaming[1][1] \notin Guids /\ renaming[2][1] \notin Guids

ThreadsInv ==
  ThreadsTypeOK /\ KindsFit /\ GroupsKeepTheirSlugs /\ GroupStaysInGroup /\ PrivateReachesPeer

-----------------------------------------------------------------------------
(* The slugs an operation comes up with.                                   *)

LEMMA NameSlug ==
  ASSUME NEW name \in Names
  PROVE  <<name, 1>> \in Slugs /\ <<name, 1>>[1] \notin Guids
  BY ThreadsAssumption DEF Slugs

LEMMA GroupSlug == ASSUME NEW g \in Guids PROVE <<g, 1>> \in Slugs
  BY ThreadsAssumption DEF Slugs

\* Wherever _unique_slug ends up, no thread was there.
LEMMA UniqueIsFree ==
  ASSUME NEW base \in Handles \cup Names \cup Guids, NEW h \in Handles, NEW s \in Unique(base, h)
  PROVE  s \in Slugs /\ s[1] = base /\ thread[s].kind = "none"
<1>1. PICK n \in 1..MaxSuffix : s = <<base, n>> /\ Free(<<base, n>>, h)
  BY DEF Unique
<1> QED
  BY <1>1 DEF Slugs, Free

\* A group's message makes a slug of its guid, any other one of the sender.
LEMMA SlugForIsFree ==
  ASSUME NEW m \in Incoming, NEW s \in SlugFor(m)
  PROVE  /\ s \in Slugs /\ thread[s].kind = "none"
         /\ IF m.guid # NoGuid THEN s[1] \in Guids ELSE s[1] \notin Guids
<1>1. m.from \in Handles /\ m.guid \in Guids \cup {NoGuid}
  BY ThreadsAssumption
<1>2. CASE m.guid # NoGuid
  <2>1. m.guid \in Guids
    BY <1>1, <1>2
  <2>2. (s = <<m.guid, 1>> /\ thread[s].kind = "none") \/ s \in Unique(m.guid, m.from)
    BY <1>2 DEF SlugFor
  <2>3. CASE s = <<m.guid, 1>> /\ thread[s].kind = "none"
    BY <1>2, <2>1, <2>3, GroupSlug
  <2>4. CASE s \in Unique(m.guid, m.from)
    BY <1>1, <1>2, <2>1, <2>4, UniqueIsFree
  <2> QED
    BY <2>2, <2>3, <2>4
<1>3. CASE m.guid = NoGuid
  <2>1. Base(m.from) \in Handles \cup Names
    BY <1>1, ThreadsAssumption DEF Base
  <2>2. s \in Unique(Base(m.from), m.from)
    BY <1>3 DEF SlugFor
  <2>3. s \in Slugs /\ s[1] = Base(m.from) /\ thread[s].kind = "none"
    BY <1>1, <2>1, <2>2, UniqueIsFree
  <2> QED
    BY <1>3, <2>1, <2>3, ThreadsAssumption
<1> QED
  BY <1>2, <1>3

LEMMA RecordsOfThreads ==
  /\ NoThread \in ThreadRecords /\ Bare \in ThreadRecords
  /\ \A hs \in SUBSET Handles : Peer(hs) \in ThreadRecords
  /\ \A hs \in SUBSET Handles, g \in Guids : Group(hs, g) \in ThreadRecords
  BY DEF ThreadRecords, NoThread, Bare, Peer, Group

-----------------------------------------------------------------------------
LEMMA InitIsRight == ThreadsInit => ThreadsInv
<1> SUFFICES ASSUME ThreadsInit PROVE ThreadsInv
  OBVIOUS
<1>1. ThreadsTypeOK
  BY RecordsOfThreads DEF ThreadsInit, ThreadsTypeOK
<1>2. KindsFit /\ GroupsKeepTheirSlugs
  BY DEF ThreadsInit, KindsFit, GroupsKeepTheirSlugs, NoThread
<1>3. GroupStaysInGroup /\ PrivateReachesPeer
  BY DEF ThreadsInit, GroupStaysInGroup, PrivateReachesPeer
<1> QED
  BY <1>1, <1>2, <1>3 DEF ThreadsInv

LEMMA IngestIsRight == ASSUME ThreadsInv, NEW m \in Incoming, Ingest(m) PROVE ThreadsInv'
<1> USE DEF ThreadsInv
<1>1. m.from \in Handles /\ m.guid \in Guids \cup {NoGuid}
  BY ThreadsAssumption
<1>2. UNCHANGED <<adding, renaming, replaced, commands>>
  BY DEF Ingest
<1>3. ASSUME NEW s \in Slugs, Matches(s, m), AppendDayFile(s, m), UNCHANGED <<thread, person>>
      PROVE  ThreadsInv'
  <2>1. dayLog' = [dayLog EXCEPT ![s] = @ \cup {m}]
    BY <1>3 DEF AppendDayFile
  <2>2. ThreadsTypeOK'
    BY <1>2, <1>3, <2>1 DEF ThreadsTypeOK
  <2>3. thread[s].kind \notin {"none", "bare"}
    BY <1>1, <1>3 DEF Matches, KindsFit
  <2>4. KindsFit'
    BY <1>3, <2>1, <2>3 DEF KindsFit, ThreadsTypeOK
  <2>5. GroupsKeepTheirSlugs'
    BY <1>2, <1>3 DEF GroupsKeepTheirSlugs
  <2>6. \A t \in Slugs : dayLog'[t] = dayLog[t] \/ (t = s /\ dayLog'[t] = dayLog[t] \cup {m})
    BY <2>1 DEF ThreadsTypeOK
  <2>7. GroupStaysInGroup'
    BY <1>3, <2>6 DEF GroupStaysInGroup, Matches
  <2>8. PrivateReachesPeer'
    BY <1>2, <1>3, <2>6 DEF PrivateReachesPeer, Matches
  <2> QED
    BY <2>2, <2>4, <2>5, <2>7, <2>8
<1>4. ASSUME NEW s \in SlugFor(m), NEW roster \in SUBSET Handles,
             CreateThread(s, m, roster), CreatePerson(s, m), AppendDayFile(s, m)
      PROVE  ThreadsInv'
  <2> DEFINE made == IF m.guid # NoGuid THEN Group(roster \cup {m.from}, m.guid)
                     ELSE Peer({m.from})
  <2>1. /\ s \in Slugs /\ thread[s].kind = "none"
        /\ IF m.guid # NoGuid THEN s[1] \in Guids ELSE s[1] \notin Guids
    BY SlugForIsFree
  <2>2. /\ dayLog' = [dayLog EXCEPT ![s] = @ \cup {m}] /\ thread' = [thread EXCEPT ![s] = made]
        /\ person' = IF m.guid # NoGuid \/ person[s] # {} THEN person
                     ELSE [person EXCEPT ![s] = {m.from}]
    BY <1>4 DEF AppendDayFile, CreateThread, CreatePerson
  <2>3. /\ made \in ThreadRecords /\ made.kind \in {"peer", "group"}
        /\ m.guid # NoGuid => made.kind = "group" /\ made.guid = m.guid
        /\ m.guid = NoGuid => made.kind = "peer" /\ made.guid = NoGuid /\ m.from \in made.handles
    BY <1>1 DEF ThreadRecords, Group, Peer
  <2> HIDE DEF made
  <2>4. ThreadsTypeOK'
    BY <1>1, <1>2, <2>1, <2>2, <2>3 DEF ThreadsTypeOK
  <2>5. KindsFit'
    BY <2>1, <2>2, <2>3 DEF KindsFit, ThreadsTypeOK
  <2>6. GroupsKeepTheirSlugs'
    BY <1>2, <2>1, <2>2, <2>3 DEF GroupsKeepTheirSlugs, ThreadsTypeOK
  <2>7. dayLog[s] = {}
    BY <2>1 DEF KindsFit
  <2>8. \A t \in Slugs : \/ t # s /\ dayLog'[t] = dayLog[t] /\ thread'[t] = thread[t]
                         \/ t = s /\ dayLog'[t] = {m} /\ thread'[t] = made
    BY <2>2, <2>7 DEF ThreadsTypeOK
  <2>9. GroupStaysInGroup'
    BY <2>3, <2>8 DEF GroupStaysInGroup
  <2>10. PrivateReachesPeer'
    BY <1>2, <2>3, <2>8 DEF PrivateReachesPeer
  <2> QED
    BY <2>4, <2>5, <2>6, <2>9, <2>10
<1> QED
  BY <1>3, <1>4 DEF Ingest

\* A thread made where none was, or an empty one was, disturbs nothing.
LEMMA MadeIsRight ==
  ASSUME ThreadsInv, NEW s \in Slugs, thread[s].kind \in {"none", "bare"},
         NEW made \in ThreadRecords, thread' = [thread EXCEPT ![s] = made],
         made.kind \in {"bare", "peer"}, made.guid = NoGuid,
         made.kind = "bare" => made.handles = {}, UNCHANGED <<dayLog, replaced>>
  PROVE  KindsFit' /\ GroupStaysInGroup' /\ PrivateReachesPeer'
<1> USE DEF ThreadsInv
<1>1. dayLog[s] = {}
  BY DEF KindsFit
<1>2. \A t \in Slugs : thread'[t] = IF t = s THEN made ELSE thread[t]
  BY DEF ThreadsTypeOK
<1>3. KindsFit'
  BY <1>1, <1>2 DEF KindsFit
<1>4. GroupStaysInGroup'
  BY <1>1, <1>2 DEF GroupStaysInGroup
<1>5. PrivateReachesPeer'
  BY <1>1, <1>2 DEF PrivateReachesPeer
<1> QED
  BY <1>3, <1>4, <1>5

LEMMA CommandsAreRight ==
  ASSUME ThreadsInv,
         \/ \E name \in Names : SyncContact(name)
         \/ \E s \in Slugs : MakeDirectory(s) \/ Materialize(s)
         \/ \E name \in Names, hs \in SUBSET Handles \ {{}} : CheckContact(name, hs)
  PROVE  ThreadsInv'
<1> USE DEF ThreadsInv, Command
<1>1. ASSUME NEW name \in Names, SyncContact(name) PROVE ThreadsInv'
  <2> DEFINE s == <<name, 1>>
             hs == {h \in Handles : NameOf[h] = name}
  <2>1. s \in Slugs /\ s[1] \notin Guids /\ Peer(hs) \in ThreadRecords
    BY NameSlug, RecordsOfThreads
  <2>2. /\ person' = IF person[s] = {} THEN [person EXCEPT ![s] = hs] ELSE person
        /\ thread' = IF thread[s].kind \in {"none", "bare"} THEN [thread EXCEPT ![s] = Peer(hs)]
                     ELSE thread
        /\ commands' = commands + 1
        /\ UNCHANGED <<dayLog, adding, renaming, replaced>>
    BY <1>1 DEF SyncContact
  <2> HIDE DEF s, hs
  <2>3. ThreadsTypeOK'
    <3>1. hs \subseteq Handles
      BY DEF hs
    <3> QED
      BY <2>1, <2>2, <3>1 DEF ThreadsTypeOK
  <2>4. GroupsKeepTheirSlugs'
    BY <2>1, <2>2 DEF GroupsKeepTheirSlugs, ThreadsTypeOK, Peer
  <2>5. KindsFit' /\ GroupStaysInGroup' /\ PrivateReachesPeer'
    <3>1. CASE thread[s].kind \in {"none", "bare"}
      BY <2>1, <2>2, <3>1, MadeIsRight DEF Peer
    <3>2. CASE thread[s].kind \notin {"none", "bare"}
      BY <2>2, <3>2 DEF KindsFit, GroupStaysInGroup, PrivateReachesPeer
    <3> QED
      BY <3>1, <3>2
  <2> QED
    BY <2>3, <2>4, <2>5
<1>2. ASSUME NEW s \in Slugs, MakeDirectory(s) PROVE ThreadsInv'
  <2>1. /\ s[1] \notin Guids /\ thread[s].kind = "none"
        /\ thread' = [thread EXCEPT ![s] = Bare] /\ commands' = commands + 1
        /\ UNCHANGED <<person, dayLog, adding, renaming, replaced>>
    BY <1>2 DEF MakeDirectory
  <2>2. ThreadsTypeOK'
    BY <2>1, RecordsOfThreads DEF ThreadsTypeOK
  <2>3. GroupsKeepTheirSlugs'
    BY <2>1 DEF GroupsKeepTheirSlugs, ThreadsTypeOK, Bare
  <2>4. KindsFit' /\ GroupStaysInGroup' /\ PrivateReachesPeer'
    BY <2>1, MadeIsRight, RecordsOfThreads DEF Bare
  <2> QED
    BY <2>2, <2>3, <2>4
<1>3. ASSUME NEW s \in Slugs, Materialize(s) PROVE ThreadsInv'
  <2> DEFINE hs == IF person[s] # {} THEN person[s] ELSE {s[1]} \cap Handles
  <2>1. /\ thread[s].kind = "bare" /\ thread' = [thread EXCEPT ![s] = Peer(hs)]
        /\ UNCHANGED <<person, dayLog, adding, renaming, replaced, commands>>
    BY <1>3 DEF Materialize
  <2>2. hs \subseteq Handles
    BY DEF ThreadsTypeOK
  <2> HIDE DEF hs
  <2>3. ThreadsTypeOK'
    BY <2>1, <2>2, RecordsOfThreads DEF ThreadsTypeOK
  <2>4. GroupsKeepTheirSlugs'
    BY <2>1 DEF GroupsKeepTheirSlugs, ThreadsTypeOK, Peer
  <2>5. Peer(hs) \in ThreadRecords /\ Peer(hs).kind = "peer" /\ Peer(hs).guid = NoGuid
    BY <2>2, RecordsOfThreads DEF Peer
  <2>6. KindsFit' /\ GroupStaysInGroup' /\ PrivateReachesPeer'
    BY <2>1, <2>5, MadeIsRight
  <2> QED
    BY <2>3, <2>4, <2>6
<1>4. ASSUME NEW name \in Names, NEW hs \in SUBSET Handles \ {{}}, CheckContact(name, hs)
      PROVE  ThreadsInv'
  <2>1. /\ adding' = <<<<name, 1>>, hs>> /\ commands' = commands + 1
        /\ UNCHANGED <<thread, person, dayLog, renaming, replaced>>
    BY <1>4 DEF CheckContact
  <2>2. <<name, 1>> \in Slugs /\ <<name, 1>>[1] \notin Guids
    BY NameSlug
  <2>3. ThreadsTypeOK'
    BY <2>1, <2>2 DEF ThreadsTypeOK
  <2>4. GroupsKeepTheirSlugs'
    BY <2>1, <2>2 DEF GroupsKeepTheirSlugs
  <2> QED
    BY <2>1, <2>3, <2>4 DEF KindsFit, GroupStaysInGroup, PrivateReachesPeer
<1> QED
  BY <1>1, <1>2, <1>3, <1>4

\* addcontact may write over a thread: one of messages of persons, by where it is.
LEMMA AddContactIsRight == ASSUME ThreadsInv, AddContact PROVE ThreadsInv'
<1> USE DEF ThreadsInv
<1> DEFINE s == adding[1]
           hs == adding[2]
<1>1. s \in Slugs /\ hs \in SUBSET Handles /\ s[1] \notin Guids
  BY DEF AddContact, ThreadsTypeOK, GroupsKeepTheirSlugs
<1>2. /\ thread' = [thread EXCEPT ![s] = Peer(hs)] /\ person' = [person EXCEPT ![s] = @ \cup hs]
      /\ replaced' = IF thread[s].kind = "none" THEN replaced ELSE replaced \cup {s}
      /\ adding' = <<>> /\ UNCHANGED <<dayLog, renaming, commands>>
  BY DEF AddContact
<1> HIDE DEF s, hs
<1>3. ThreadsTypeOK'
  BY <1>1, <1>2, RecordsOfThreads DEF ThreadsTypeOK
<1>4. thread[s].kind # "group"
  BY <1>1 DEF GroupsKeepTheirSlugs
<1>5. GroupsKeepTheirSlugs'
  BY <1>1, <1>2 DEF GroupsKeepTheirSlugs, ThreadsTypeOK, Peer
<1>6. \A t \in Slugs : thread'[t] = IF t = s THEN Peer(hs) ELSE thread[t]
  BY <1>2 DEF ThreadsTypeOK
<1>7. KindsFit'
  BY <1>2, <1>6 DEF KindsFit, Peer
<1>8. GroupStaysInGroup'
  BY <1>2, <1>4, <1>6 DEF GroupStaysInGroup, KindsFit, Peer
<1>9. PrivateReachesPeer'
  BY <1>2, <1>6 DEF PrivateReachesPeer, KindsFit
<1> QED
  BY <1>3, <1>5, <1>7, <1>8, <1>9

\* A rename takes the person, then the thread with all that is filed in it.
LEMMA RenameIsRight ==
  ASSUME ThreadsInv,
         (\E old \in Slugs, name \in Names : RenamePerson(old, name)) \/ RenameThread
  PROVE  ThreadsInv'
<1> USE DEF ThreadsInv, Command
<1>1. ASSUME NEW old \in Slugs, NEW name \in Names, RenamePerson(old, name) PROVE ThreadsInv'
  <2> DEFINE new == <<name, 1>>
  <2>1. new \in Slugs /\ new[1] \notin Guids
    BY NameSlug
  <2>2. /\ old # new /\ person[old] # {}
        /\ person' = [person EXCEPT ![old] = {}, ![new] = person[old]]
        /\ renaming' = <<old, new>> /\ commands' = commands + 1
        /\ UNCHANGED <<thread, dayLog, adding, replaced>>
    BY <1>1 DEF RenamePerson
  <2> HIDE DEF new
  <2>3. ThreadsTypeOK'
    BY <2>1, <2>2 DEF ThreadsTypeOK
  <2>4. old[1] \notin Guids
    BY <2>2 DEF GroupsKeepTheirSlugs
  <2>5. GroupsKeepTheirSlugs'
    BY <2>1, <2>2, <2>4 DEF GroupsKeepTheirSlugs, ThreadsTypeOK
  <2> QED
    BY <2>2, <2>3, <2>5 DEF KindsFit, GroupStaysInGroup, PrivateReachesPeer
<1>2. CASE RenameThread
  <2> DEFINE old == renaming[1]
             new == renaming[2]
  <2>1. /\ old \in Slugs /\ new \in Slugs /\ old # new
        /\ old[1] \notin Guids /\ new[1] \notin Guids
    BY <1>2 DEF RenameThread, ThreadsTypeOK, GroupsKeepTheirSlugs
  <2>2. renaming' = <<>> /\ UNCHANGED <<person, adding, commands>>
    BY <1>2 DEF RenameThread
  <2>3. CASE thread[new].kind \in {"none", "bare"} /\ thread[old].kind # "none"
    <3>1. /\ thread' = [thread EXCEPT ![old] = NoThread, ![new] = MovedThread(old, new)]
          /\ dayLog' = [dayLog EXCEPT ![old] = {}, ![new] = dayLog[old] \cup dayLog[new]]
          /\ replaced' = IF old \in replaced THEN replaced \cup {new} ELSE replaced
      BY <1>2, <2>3 DEF RenameThread
    <3> HIDE DEF old, new
    <3>2. /\ MovedThread(old, new) \in ThreadRecords
          /\ thread[old].handles \subseteq MovedThread(old, new).handles
          /\ MovedThread(old, new).kind = thread[old].kind
          /\ MovedThread(old, new).guid = thread[old].guid
      <4>1. thread[old] \in ThreadRecords /\ Peer(person[new]) \in ThreadRecords
        BY <2>1, RecordsOfThreads DEF ThreadsTypeOK
      <4>2. CASE thread[old].kind = "peer" /\ thread[old].handles = {}
        BY <2>1, <4>1, <4>2 DEF MovedThread, KindsFit, Peer
      <4>3. CASE ~(thread[old].kind = "peer" /\ thread[old].handles = {})
        BY <4>1, <4>3 DEF MovedThread
      <4> QED
        BY <4>2, <4>3
    <3>3. thread[old].kind # "group" /\ thread[old].guid = NoGuid /\ dayLog[new] = {}
      BY <2>1, <2>3 DEF GroupsKeepTheirSlugs, KindsFit
    <3>4. \A t \in Slugs :
            /\ thread'[t] = IF t = new THEN MovedThread(old, new)
                            ELSE IF t = old THEN NoThread ELSE thread[t]
            /\ dayLog'[t] = IF t = new THEN dayLog[old] ELSE IF t = old THEN {} ELSE dayLog[t]
      BY <2>1, <3>1, <3>3 DEF ThreadsTypeOK
    <3>5. ThreadsTypeOK'
      BY <2>1, <2>2, <3>1, <3>2, RecordsOfThreads DEF ThreadsTypeOK
    <3>6. KindsFit'
      <4>1. thread[old].kind \in {"none", "bare"} =>
              MovedThread(old, new).handles = {} /\ dayLog[old] = {}
        BY <2>1 DEF KindsFit, MovedThread
      <4> QED
        BY <2>1, <3>2, <3>3, <3>4, <4>1 DEF KindsFit, NoThread
    <3>7. GroupsKeepTheirSlugs'
      BY <2>2, <3>2, <3>3, <3>4 DEF GroupsKeepTheirSlugs, NoThread
    <3>8. GroupStaysInGroup'
      BY <2>1, <3>2, <3>3, <3>4 DEF GroupStaysInGroup
    <3>9. PrivateReachesPeer'
      <4> SUFFICES ASSUME NEW t \in Slugs, NEW m \in dayLog'[t], m.guid = NoGuid
                   PROVE  m.from \in thread'[t].handles \/ t \in replaced'
        BY DEF PrivateReachesPeer
      <4>1. CASE t = new
        <5>1. m \in dayLog[old]
          BY <3>4, <4>1
        <5>2. m.from \in thread[old].handles \/ old \in replaced
          BY <2>1, <5>1 DEF PrivateReachesPeer
        <5> QED
          BY <3>1, <3>2, <3>4, <4>1, <5>2
      <4>2. CASE t # new
        <5>1. t # old /\ m \in dayLog[t] /\ thread'[t] = thread[t]
          BY <3>4, <4>2
        <5> QED
          BY <3>1, <5>1 DEF PrivateReachesPeer
      <4> QED
        BY <4>1, <4>2
    <3> QED
      BY <3>5, <3>6, <3>7, <3>8, <3>9
  <2>4. CASE ~(thread[new].kind \in {"none", "bare"} /\ thread[old].kind # "none")
    <3>1. UNCHANGED <<thread, dayLog, replaced>>
      BY <1>2, <2>4 DEF RenameThread
    <3> QED
      BY <2>2, <3>1 DEF ThreadsTypeOK, KindsFit, GroupsKeepTheirSlugs, GroupStaysInGroup,
                        PrivateReachesPeer
  <2> QED
    BY <2>3, <2>4
<1> QED
  BY <1>1, <1>2

LEMMA ThreadsStepIsRight == ThreadsInv /\ [ThreadsNext]_threadVars => ThreadsInv'
<1>1. ASSUME ThreadsInv, UNCHANGED threadVars PROVE ThreadsInv'
  BY <1>1 DEF threadVars, ThreadsInv, ThreadsTypeOK, KindsFit, GroupsKeepTheirSlugs,
              GroupStaysInGroup, PrivateReachesPeer
<1> QED
  BY <1>1, IngestIsRight, CommandsAreRight, AddContactIsRight, RenameIsRight DEF ThreadsNext

LEMMA ThreadsInvHolds == ThreadsSpec => []ThreadsInv
<1> QED
  BY InitIsRight, ThreadsStepIsRight, PTL DEF ThreadsSpec

-----------------------------------------------------------------------------
\* A message of a group is in the thread of that group, whoever sent it, for every instance.
\* (resolve_slug, resolve_contact, addcontact.)
THEOREM GroupsAreKeptApart == ThreadsSpec => []GroupStaysInGroup
<1>1. ThreadsInv => GroupStaysInGroup
  BY DEF ThreadsInv
<1> QED
  BY <1>1, ThreadsInvHolds, PTL

\* A message of a person is in a thread that lists the person, or in one addcontact wrote
\* over after its check.  (ingest, contacts.sync, resolve_contact, addcontact.)
THEOREM PersonsAreListed == ThreadsSpec => []PrivateReachesPeer
<1>1. ThreadsInv => PrivateReachesPeer
  BY DEF ThreadsInv
<1> QED
  BY <1>1, ThreadsInvHolds, PTL
-----------------------------------------------------------------------------
(* The send commands.                                                      *)

Entries == {"bare", "me", "queued", "frozen", "failed", "other"} \X (CallTexts \cup {"none"})
Verdicts == FinalStates \cup {"send_blocked", "pending", "queued", "delivered", "dropped"}
CallRecords == [at : {"absent", "named", "waiting", "ended"}, mark : Nat, to : Seq(Pids),
                reports : Seq(Verdicts)]

SendTypeOK ==
  /\ kind \in DayKinds \cup {"email", "peer"}
  /\ call \in [Calls -> CallRecords]
  /\ threadMeta \in {"absent", "bare", "addressed", "foreign"}
  /\ day \in Seq(Entries) /\ handed \in Nat /\ handing \in {"none", "out", "left"}
  /\ queued \subseteq CallTexts \cup {"none"}
  /\ drafts \in [Paths -> [of : Calls \cup {"none"}, state : {"absent", "new"} \cup FinalStates]]
  /\ mail = NoMail \/ mail \in [of : Calls, path : Paths]
  /\ peer \in [Calls \X Pids -> {"absent", "emitted", "delivered", "dropped", "taken"}]
  /\ sendMishaps \in Nat

\* A call is told of only as long as it waits, and of each target once.
CallsFit ==
  \A c \in Calls :
    /\ call[c].at = "absent" => call[c].to = <<>>
    /\ call[c].at \in {"absent", "named"} => call[c].reports = <<>>
    /\ kind # "peer" /\ call[c].at = "waiting" => call[c].reports = <<>>
    /\ kind # "peer" => call[c].to = <<>>
    /\ kind = "peer" /\ call[c].at = "waiting" => Len(call[c].reports) < Len(call[c].to)
    /\ kind = "email" /\ call[c].at # "absent" => call[c].mark \in 1..Cardinality(Calls)

\* What the day-file records as sent has left, and so has what the driver is about to record.
LinesAreTrue ==
  /\ \A i \in 1..Len(day) : day[i][1] = "me" => day[i][2] \in gone
  /\ handing = "left" => \E i \in 1..Len(day) : NextLine(i) /\ day[i][2] \in gone

\* Who wrote a draft took its name, and what it says of itself is so.
Wrote(c, p) == c \in Calls /\ call[c].at # "absent" /\ Path(c) = p
DraftsAreTrue ==
  /\ \A p \in Paths : drafts[p].state # "absent" => Wrote(drafts[p].of, p)
  /\ \A p \in Paths : drafts[p].state = "sent" => drafts[p].of \in gone
  /\ mail # NoMail => Wrote(mail.of, mail.path)

AnswersAreTrue == \A m \in Calls \X Pids : peer[m] = "delivered" => m \in gone

SendInv == SendTypeOK /\ CallsFit /\ LinesAreTrue /\ DraftsAreTrue /\ AnswersAreTrue /\ ReportsAreTrue

-----------------------------------------------------------------------------
\* At most one line is the next.
LEMMA NextLineIsOne ==
  ASSUME NEW i \in 1..Len(day), NEW k \in 1..Len(day), day \in Seq(Entries), NextLine(i), NextLine(k)
  PROVE  i = k
<1>1. i \notin 1..(k - 1) /\ k \notin 1..(i - 1)
  BY DEF NextLine
<1> QED
  BY <1>1

\* What is appended changes nothing before it, and leaves the next line the next.
LEMMA AppendedLine ==
  ASSUME day \in Seq(Entries), NEW e \in Entries, day' = Append(day, e)
  PROVE  /\ day' \in Seq(Entries) /\ Len(day') = Len(day) + 1
         /\ \A i \in 1..Len(day) : day'[i] = day[i]
         /\ \A i \in 1..Len(day') : i \in 1..Len(day) \/ day'[i] = e
  OBVIOUS

LEMMA NextLineStays ==
  ASSUME day \in Seq(Entries), handed' = handed, NEW e \in Entries, day' = Append(day, e),
         NEW i \in 1..Len(day), NextLine(i)
  PROVE  i \in 1..Len(day') /\ NextLine(i)' /\ day'[i] = day[i]
<1>1. Len(day') = Len(day) + 1 /\ \A j \in 1..Len(day) : day'[j] = day[j]
  OBVIOUS
<1>2. \A j \in 1..Len(day) : IsBare(j)' <=> IsBare(j)
  BY <1>1 DEF IsBare
<1>3. \A j \in 1..(i - 1) : j \in 1..Len(day)
  OBVIOUS
<1> QED
  BY <1>1, <1>2, <1>3 DEF NextLine

LEMMA CallBecomes ==
  ASSUME call \in [Calls -> CallRecords], NEW c \in Calls, NEW new \in CallRecords,
         call' = [call EXCEPT ![c] = new]
  PROVE  call' \in [Calls -> CallRecords] /\ call'[c] = new /\ \A d \in Calls \ {c} : call'[d] = call[d]
  OBVIOUS

LEMMA ToldIs ==
  ASSUME call \in [Calls -> CallRecords], NEW c \in Calls, NEW what \in Verdicts,
         NEW at \in {"absent", "named", "waiting", "ended"}
  PROVE  LET new == Told(c, what, at) IN
           /\ new \in CallRecords /\ new.at = at /\ new.mark = call[c].mark /\ new.to = call[c].to
           /\ new.reports = Append(call[c].reports, what)
<1> DEFINE r == call[c]
<1>1. r \in CallRecords
  OBVIOUS
<1>2. Append(r.reports, what) \in Seq(Verdicts)
  BY <1>1 DEF CallRecords
<1>3. Told(c, what, at) = [r EXCEPT !.at = at, !.reports = Append(r.reports, what)]
  BY DEF Told
<1> HIDE DEF r
<1>4. [r EXCEPT !.at = at, !.reports = Append(r.reports, what)] \in CallRecords
  BY <1>1, <1>2 DEF CallRecords
<1> QED
  BY <1>1, <1>2, <1>3, <1>4 DEF CallRecords, r

LEMMA SendTypeStep ==
  ASSUME SendTypeOK, CallsFit, DraftsAreTrue, SendNext
  PROVE  SendTypeOK'
<1> USE DEF SendTypeOK
<1>1. ASSUME NEW c \in Calls, WriteLine(c) PROVE SendTypeOK'
  <2>1. TextOf[c] \in CallTexts /\ <<"bare", TextOf[c]>> \in Entries
    BY SendAssumption DEF Entries
  <2>2. threadMeta' \in {"absent", "bare", "addressed", "foreign"}
    BY <1>1 DEF WriteLine, EnsureThread, EnsureWhatsapp
  <2>3. call' \in [Calls -> CallRecords]
    <3>1. call[c] \in CallRecords /\ Len(day) + 1 \in Nat
      OBVIOUS
    <3>2. [call[c] EXCEPT !.at = "waiting", !.mark = Len(day) + 1] \in CallRecords
      BY <3>1 DEF CallRecords
    <3> QED
      BY <1>1, <3>2, CallBecomes DEF WriteLine
  <2> QED
    BY <1>1, <2>1, <2>2, <2>3 DEF WriteLine, mailFiles
<1>2. ASSUME NEW c \in Calls, NEW what \in Verdicts, Report(c, what) PROVE call' \in [Calls -> CallRecords]
  BY <1>2, ToldIs, CallBecomes DEF Report
<1>3. ASSUME NEW c \in Calls, PollVerdict(c) PROVE SendTypeOK'
  <2>1. PICK i \in call[c].mark + 1 .. Len(day) :
          Classify(day[i], TextOf[c]) # "none" /\ Report(c, Classify(day[i], TextOf[c]))
    BY <1>3 DEF PollVerdict
  <2>2. Classify(day[i], TextOf[c]) \in Verdicts
    BY <2>1 DEF Classify, Verdicts, FinalStates
  <2> QED
    BY <1>2, <1>3, <2>1, <2>2 DEF PollVerdict, threadFile, mailFiles
<1>4. ASSUME NEW c \in Calls, ChoosePath(c) PROVE SendTypeOK'
  <2>1. PICK i \in 1..Cardinality(Calls) : call' = [call EXCEPT ![c] = [@ EXCEPT !.at = "named", !.mark = i]]
    BY <1>4 DEF ChoosePath
  <2>2. Cardinality(Calls) \in Nat
    BY SendAssumption, FS_CardinalityType
  <2>3. call' \in [Calls -> CallRecords]
    <3>1. call[c] \in CallRecords /\ i \in Nat
      BY <2>2
    <3>2. [call[c] EXCEPT !.at = "named", !.mark = i] \in CallRecords
      BY <3>1 DEF CallRecords
    <3> QED
      BY <2>1, <3>2, CallBecomes
  <2> QED
    BY <1>4, <2>3 DEF ChoosePath, threadFile, mailFiles
<1>5. ASSUME NEW c \in Calls, DumpDraft(c) PROVE SendTypeOK'
  <2>1. call' \in [Calls -> CallRecords]
    BY <1>5 DEF DumpDraft, CallRecords
  <2> QED
    BY <1>5, <2>1 DEF DumpDraft, threadFile
<1>6. ASSUME NEW c \in Calls, PollDraft(c) PROVE SendTypeOK'
  <2>1. drafts[Path(c)].state \in Verdicts
    BY <1>6 DEF PollDraft, Verdicts
  <2> QED
    BY <1>2, <1>6, <2>1 DEF PollDraft, threadFile, mailFiles
<1>7. ASSUME NEW c \in Calls, NEW tokens \in Pids \X Pids, NEW n \in 1..2, NEW pids \in [1..n -> Pids],
             SendMessage(c, tokens, pids) PROVE SendTypeOK'
  <2>1. pids \in Seq(Pids) /\ pids[1] \in Pids
    OBVIOUS
  <2>2. call' \in [Calls -> CallRecords]
    <3>1. call[c] \in CallRecords
      OBVIOUS
    <3>2. [call[c] EXCEPT !.at = "waiting", !.to = pids] \in CallRecords
      BY <2>1, <3>1 DEF CallRecords
    <3> QED
      BY <1>7, <3>2, CallBecomes DEF SendMessage
  <2> QED
    BY <1>7, <2>1, <2>2 DEF SendMessage, threadFile, mailFiles
<1>8. ASSUME NEW c \in Calls, NEW what \in {"delivered", "dropped", "queued"},
             NEW left \in {"absent", "emitted", "delivered", "dropped", "taken"}, ReportTarget(c, what, left)
      PROVE  /\ call' \in [Calls -> CallRecords]
             /\ peer' \in [Calls \X Pids -> {"absent", "emitted", "delivered", "dropped", "taken"}]
  <2>1. what \in Verdicts
    BY DEF Verdicts
  <2>2. PICK at \in {"waiting", "ended"} : call' = [call EXCEPT ![c] = Told(c, what, at)]
    BY <1>8 DEF ReportTarget
  <2>3. call' \in [Calls -> CallRecords]
    BY <2>1, <2>2, ToldIs, CallBecomes
  <2> QED
    BY <1>8, <2>3 DEF ReportTarget
<1>9. ASSUME NEW c \in Calls, TakeAck(c) PROVE SendTypeOK'
  BY <1>8, <1>9 DEF TakeAck, threadFile, mailFiles, Mishap
<1>10. ASSUME NEW c \in Calls, GiveUp(c) PROVE SendTypeOK'
  <2>1. CASE kind = "peer"
    <3>1. Message(c, Len(call[c].reports) + 1) \in Calls \X Pids
      BY <1>10, <2>1 DEF GiveUp, Message, CallsFit, CallRecords
    <3> QED
      BY <1>8, <1>10, <2>1, <3>1 DEF GiveUp, threadFile, mailFiles
  <2>2. CASE kind # "peer"
    <3>1. "pending" \in Verdicts
      BY DEF Verdicts
    <3> QED
      BY <1>2, <1>10, <2>2, <3>1 DEF GiveUp, threadFile, mailFiles
  <2> QED
    BY <2>1, <2>2
<1>11. ASSUME NEW m \in Calls \X Pids, NEW what \in {"delivered", "dropped"}, KernelAnswers(m, what)
       PROVE  SendTypeOK'
  BY <1>11 DEF KernelAnswers, threadFile, mailFiles
<1>12. ASSUME NEW k \in {"queued", "frozen"}, WithholdLine(k) PROVE SendTypeOK'
  <2>1. PICK i \in 1..Len(day) : handed' = i /\ queued' = IF k = "queued" THEN queued \cup {day[i][2]} ELSE queued
    BY <1>12 DEF WithholdLine
  <2>2. day[i][2] \in CallTexts \cup {"none"} /\ <<k, "none">> \in Entries
    BY DEF Entries
  <2>3. \/ day' = Append(day, <<k, "none">>) /\ sendMishaps' = sendMishaps
        \/ day' = day /\ Mishap
    BY <1>12 DEF WithholdLine, Note
  <2>5. day' \in Seq(Entries) /\ sendMishaps' \in Nat
    <3>1. CASE day' = Append(day, <<k, "none">>) /\ sendMishaps' = sendMishaps
      BY <2>2, <3>1, AppendedLine
    <3>2. CASE day' = day /\ Mishap
      BY <3>2 DEF Mishap
    <3> QED
      BY <2>3, <3>1, <3>2
  <2>4. queued' \subseteq CallTexts \cup {"none"}
    BY <2>1, <2>2
  <2> QED
    BY <1>12, <2>1, <2>4, <2>5 DEF WithholdLine, mailFiles
<1>13. ASSUME BeginLine \/ LineDeparts \/ LoseLine PROVE SendTypeOK'
  BY <1>13 DEF BeginLine, LineDeparts, LoseLine, Mishap, mailFiles
<1>14. ASSUME EndLine PROVE SendTypeOK'
  <2>1. PICK i \in 1..Len(day) :
          /\ handed' = i
          /\ day' = Append(day, IF handing = "left" THEN <<"me", day[i][2]>> ELSE <<"failed", "none">>)
    BY <1>14 DEF EndLine
  <2>2. <<"me", day[i][2]>> \in Entries /\ <<"failed", "none">> \in Entries
    BY DEF Entries
  <2> QED
    BY <1>14, <2>1, <2>2 DEF EndLine, mailFiles
<1>15. ASSUME NEW t \in CallTexts, DeliverQueued(t) \/ OtherLine(t) PROVE SendTypeOK'
  <2>1. <<"me", t>> \in Entries /\ <<"other", "none">> \in Entries
    BY DEF Entries
  <2>2. day' \in Seq(Entries)
    BY <1>15, <2>1, AppendedLine DEF DeliverQueued, OtherLine
  <2>3. sendMishaps' \in Nat /\ queued' \subseteq CallTexts \cup {"none"}
    BY <1>15 DEF DeliverQueued, OtherLine, Mishap
  <2> QED
    BY <1>15, <2>2, <2>3 DEF DeliverQueued, OtherLine, mailFiles
<1>16. ASSUME NEW p \in Paths, ReadDraft(p) PROVE SendTypeOK'
  <2>1. drafts[p].of \in Calls
    BY <1>16 DEF ReadDraft, DraftsAreTrue, Wrote
  <2> QED
    BY <1>16, <2>1 DEF ReadDraft, threadFile
<1>17. ASSUME NEW state \in FinalStates, WriteDraft(state) PROVE SendTypeOK'
  <2>1. mail \in [of : Calls, path : Paths] /\ mail' = NoMail
    BY <1>17 DEF WriteDraft
  <2> QED
    BY <1>17, <2>1 DEF WriteDraft, threadFile
<1> QED
  BY <1>1, <1>3, <1>4, <1>5, <1>6, <1>7, <1>9, <1>10, <1>11, <1>12, <1>13, <1>14, <1>15, <1>16, <1>17 DEF SendNext

-----------------------------------------------------------------------------
\* A call that was made keeps its name.
NamesStay ==
  \A c \in Calls : call[c].at # "absent" => call'[c].at # "absent" /\ call'[c].mark = call[c].mark

\* What ReportsAreTrue says of one call.
ReportIsTrue(c) ==
  /\ kind \in DayKinds /\ Reports(c, "sent", 1) => TextOf[c] \in gone
  /\ kind = "email" /\ Reports(c, "sent", 1) =>
       c \in gone \/ \E d \in Calls \ {c} : call[d].at # "absent" /\ Path(d) = Path(c)
  /\ \A i \in 1..Len(call[c].to) : Reports(c, "delivered", i) => Message(c, i) \in gone

LEMMA NoCallMoves ==
  ASSUME SendTypeOK, CallsFit, ReportsAreTrue, UNCHANGED <<kind, call>>, gone \subseteq gone'
  PROVE  CallsFit' /\ NamesStay /\ ReportsAreTrue'
<1>1. CallsFit' /\ NamesStay
  BY DEF CallsFit, NamesStay
<1>2. ASSUME NEW c \in Calls, ReportIsTrue(c) PROVE ReportIsTrue(c)'
  BY <1>2 DEF ReportIsTrue, Reports, Message, Path
<1> QED
  BY <1>1, <1>2 DEF ReportsAreTrue, ReportIsTrue

LEMMA OneCallMoves ==
  ASSUME SendTypeOK, CallsFit, ReportsAreTrue, NEW c \in Calls, NEW new \in CallRecords,
         call' = [call EXCEPT ![c] = new], kind' = kind, gone \subseteq gone',
         new.at # "absent",
         call[c].at # "absent" => new.mark = call[c].mark,
         new.at = "named" \/ (kind # "peer" /\ new.at = "waiting") => new.reports = <<>>,
         kind # "peer" => new.to = <<>>,
         kind = "peer" /\ new.at = "waiting" => Len(new.reports) < Len(new.to),
         kind = "email" => new.mark \in 1..Cardinality(Calls),
         NamesStay => ReportIsTrue(c)'
  PROVE  CallsFit' /\ NamesStay /\ ReportsAreTrue'
<1>1. call'[c] = new /\ \A d \in Calls \ {c} : call'[d] = call[d]
  BY CallBecomes DEF SendTypeOK
<1>2. CallsFit' /\ NamesStay
  BY <1>1 DEF CallsFit, NamesStay
<1>3. ASSUME NEW d \in Calls \ {c} PROVE ReportIsTrue(d)'
  <2>1. ReportIsTrue(d)
    BY DEF ReportsAreTrue, ReportIsTrue
  <2>2. call'[d] = call[d]
    BY <1>1
  <2>3. \A e \in Calls : call[e].at # "absent" => call'[e].at # "absent" /\ Path(e)' = Path(e)
    BY <1>2 DEF NamesStay, Path
  <2>4. Path(d)' = Path(d)
    BY <2>2 DEF Path
  <2>5. \A what, i : Reports(d, what, i)' <=> Reports(d, what, i)
    BY <2>2 DEF Reports
  <2> QED
    BY <2>1, <2>2, <2>3, <2>4, <2>5 DEF ReportIsTrue, Message
<1> QED
  BY <1>2, <1>3 DEF ReportsAreTrue, ReportIsTrue

\* A call that told nothing told no lie.
LEMMA SilentIsTrue ==
  ASSUME NEW c \in Calls, call'[c].reports = <<>>
  PROVE  ReportIsTrue(c)'
  BY DEF ReportIsTrue, Reports

LEMMA CallsStep ==
  ASSUME SendTypeOK, CallsFit, LinesAreTrue, DraftsAreTrue, AnswersAreTrue, ReportsAreTrue, SendNext
  PROVE  CallsFit' /\ NamesStay /\ ReportsAreTrue'
<1> USE DEF SendTypeOK
<1>1. ASSUME NEW c \in Calls, WriteLine(c) PROVE CallsFit' /\ NamesStay /\ ReportsAreTrue'
  <2> DEFINE new == [call[c] EXCEPT !.at = "waiting", !.mark = Len(day) + 1]
  <2>1. call[c] \in CallRecords /\ Len(day) + 1 \in Nat
    OBVIOUS
  <2>2. /\ new \in CallRecords /\ new.at = "waiting"
        /\ new.to = call[c].to /\ new.reports = call[c].reports
    BY <2>1 DEF CallRecords
  <2>3. /\ call' = [call EXCEPT ![c] = new] /\ call[c].at = "absent"
        /\ kind' = kind /\ gone' = gone /\ kind \in DayKinds
    BY <1>1 DEF WriteLine
  <2>4. call[c].to = <<>> /\ call[c].reports = <<>>
    BY <2>3 DEF CallsFit
  <2> HIDE DEF new
  <2>5. ReportIsTrue(c)'
    BY <2>2, <2>3, <2>4, CallBecomes, SilentIsTrue
  <2> QED
    BY <2>2, <2>3, <2>4, <2>5, OneCallMoves DEF DayKinds
<1>2. ASSUME NEW c \in Calls, ChoosePath(c) PROVE CallsFit' /\ NamesStay /\ ReportsAreTrue'
  <2>1. PICK i \in 1..Cardinality(Calls) : call' = [call EXCEPT ![c] = [@ EXCEPT !.at = "named", !.mark = i]]
    BY <1>2 DEF ChoosePath
  <2> DEFINE new == [call[c] EXCEPT !.at = "named", !.mark = i]
  <2>2. call[c] \in CallRecords /\ i \in Nat
    BY SendAssumption, FS_CardinalityType
  <2>3. /\ new \in CallRecords /\ new.at = "named" /\ new.mark = i
        /\ new.to = call[c].to /\ new.reports = call[c].reports
    BY <2>2 DEF CallRecords
  <2>4. /\ call' = [call EXCEPT ![c] = new] /\ call[c].at = "absent"
        /\ kind' = kind /\ gone' = gone /\ kind = "email"
    BY <1>2, <2>1 DEF ChoosePath
  <2>5. call[c].to = <<>> /\ call[c].reports = <<>>
    BY <2>4 DEF CallsFit
  <2> HIDE DEF new
  <2>6. ReportIsTrue(c)'
    BY <2>3, <2>4, <2>5, CallBecomes, SilentIsTrue
  <2> QED
    BY <2>3, <2>4, <2>5, <2>6, OneCallMoves
<1>3. ASSUME NEW c \in Calls, DumpDraft(c) PROVE CallsFit' /\ NamesStay /\ ReportsAreTrue'
  <2> DEFINE new == [call[c] EXCEPT !.at = "waiting"]
  <2>1. call[c] \in CallRecords
    OBVIOUS
  <2>2. /\ new \in CallRecords /\ new.at = "waiting" /\ new.mark = call[c].mark
        /\ new.to = call[c].to /\ new.reports = call[c].reports
    BY <2>1 DEF CallRecords
  <2>3. /\ call' = [call EXCEPT ![c] = new] /\ call[c].at = "named"
        /\ kind' = kind /\ gone' = gone /\ kind = "email"
    BY <1>3 DEF DumpDraft
  <2>4. call[c].to = <<>> /\ call[c].reports = <<>> /\ call[c].mark \in 1..Cardinality(Calls)
    BY <2>3 DEF CallsFit
  <2> HIDE DEF new
  <2>5. ReportIsTrue(c)'
    BY <2>2, <2>3, <2>4, CallBecomes, SilentIsTrue
  <2> QED
    BY <2>2, <2>3, <2>4, <2>5, OneCallMoves
<1>4. ASSUME NEW c \in Calls, NEW tokens \in Pids \X Pids, NEW n \in 1..2, NEW pids \in [1..n -> Pids],
             SendMessage(c, tokens, pids) PROVE CallsFit' /\ NamesStay /\ ReportsAreTrue'
  <2> DEFINE new == [call[c] EXCEPT !.at = "waiting", !.to = pids]
  <2>1. call[c] \in CallRecords /\ pids \in Seq(Pids) /\ Len(pids) = n
    OBVIOUS
  <2>2. /\ new \in CallRecords /\ new.at = "waiting" /\ new.mark = call[c].mark
        /\ new.to = pids /\ new.reports = call[c].reports
    BY <2>1 DEF CallRecords
  <2>3. /\ call' = [call EXCEPT ![c] = new] /\ call[c].at = "absent"
        /\ kind' = kind /\ gone' = gone /\ kind = "peer"
    BY <1>4 DEF SendMessage
  <2>4. call[c].reports = <<>>
    BY <2>3 DEF CallsFit
  <2> HIDE DEF new
  <2>5. ReportIsTrue(c)'
    BY <2>2, <2>3, <2>4, CallBecomes, SilentIsTrue
  <2>6. Len(new.reports) < Len(new.to)
    BY <2>1, <2>2, <2>4
  <2> QED
    BY <2>2, <2>3, <2>4, <2>5, <2>6, OneCallMoves
\* One report of a command that makes one.
<1>5. ASSUME NEW c \in Calls, NEW what \in Verdicts, Report(c, what), call[c].at = "waiting",
             kind # "peer", kind' = kind, gone' = gone,
             kind \in DayKinds /\ what = "sent" => TextOf[c] \in gone,
             kind = "email" /\ what = "sent" =>
               c \in gone \/ \E d \in Calls \ {c} : call[d].at # "absent" /\ Path(d) = Path(c)
      PROVE  CallsFit' /\ NamesStay /\ ReportsAreTrue'
  <2> DEFINE new == Told(c, what, "ended")
  <2>1. /\ new \in CallRecords /\ new.at = "ended" /\ new.mark = call[c].mark /\ new.to = call[c].to
        /\ new.reports = Append(call[c].reports, what)
    BY ToldIs
  <2>2. call' = [call EXCEPT ![c] = new]
    BY <1>5 DEF Report
  <2>3. call[c].to = <<>> /\ call[c].reports = <<>>
    BY <1>5 DEF CallsFit
  <2>4. kind = "email" => call[c].mark \in 1..Cardinality(Calls)
    BY <1>5 DEF CallsFit
  <2> HIDE DEF new
  <2>5. new.reports[1] = what
    BY <2>1, <2>3
  <2>6. call'[c] = new
    BY <2>1, <2>2, CallBecomes
  <2>7. ASSUME NamesStay PROVE ReportIsTrue(c)'
    <3>1. Path(c)' = Path(c)
      BY <2>1, <2>6 DEF Path
    <3>2. \A d \in Calls : call[d].at # "absent" => call'[d].at # "absent" /\ Path(d)' = Path(d)
      BY <2>7 DEF NamesStay, Path
    <3>3. Reports(c, "sent", 1)' => what = "sent"
      BY <2>5, <2>6 DEF Reports
    <3>4. Len(call'[c].to) = 0
      BY <2>1, <2>3, <2>6
    <3> QED
      BY <1>5, <3>1, <3>2, <3>3, <3>4 DEF ReportIsTrue
  <2> QED
    BY <1>5, <2>1, <2>2, <2>3, <2>4, <2>7, OneCallMoves
<1>6. ASSUME NEW c \in Calls, PollVerdict(c) PROVE CallsFit' /\ NamesStay /\ ReportsAreTrue'
  <2>1. PICK i \in call[c].mark + 1 .. Len(day) :
          Classify(day[i], TextOf[c]) # "none" /\ Report(c, Classify(day[i], TextOf[c]))
    BY <1>6 DEF PollVerdict
  <2>2. Classify(day[i], TextOf[c]) \in Verdicts
    BY <2>1 DEF Classify, Verdicts, FinalStates
  <2>3. i \in 1..Len(day)
    BY DEF CallRecords
  <2>4. Classify(day[i], TextOf[c]) = "sent" => day[i] = <<"me", TextOf[c]>>
    BY DEF Classify
  <2>5. Classify(day[i], TextOf[c]) = "sent" => TextOf[c] \in gone
    BY <2>3, <2>4 DEF LinesAreTrue
  <2>6. kind \in DayKinds /\ kind # "peer" /\ kind # "email" /\ kind' = kind /\ gone' = gone /\ call[c].at = "waiting"
    BY <1>6 DEF PollVerdict, DayKinds
  <2> QED
    BY <1>5, <2>1, <2>2, <2>5, <2>6
<1>7. ASSUME NEW c \in Calls, PollDraft(c) PROVE CallsFit' /\ NamesStay /\ ReportsAreTrue'
  <2> DEFINE what == drafts[Path(c)].state
  <2>1. /\ kind = "email" /\ kind' = kind /\ gone' = gone /\ call[c].at = "waiting"
        /\ what \in FinalStates /\ Report(c, what)
    BY <1>7 DEF PollDraft
  <2>2. Path(c) \in Paths
    <3>1. call[c].mark \in 1..Cardinality(Calls)
      BY <2>1 DEF CallsFit
    <3> QED
      BY <3>1, SendAssumption DEF Path, Paths
  <2>3. Wrote(drafts[Path(c)].of, Path(c))
    BY <2>1, <2>2 DEF DraftsAreTrue, FinalStates
  <2>4. what = "sent" => c \in gone \/ \E d \in Calls \ {c} : call[d].at # "absent" /\ Path(d) = Path(c)
    BY <2>2, <2>3 DEF DraftsAreTrue, Wrote
  <2>5. what \in Verdicts /\ kind \notin DayKinds
    BY <2>1 DEF Verdicts, DayKinds
  <2> HIDE DEF what
  <2> QED
    BY <1>5, <2>1, <2>4, <2>5
\* One report of send-message.
<1>8. ASSUME NEW c \in Calls, NEW what \in {"delivered", "dropped", "queued"}, NEW left, ReportTarget(c, what, left),
             kind = "peer", call[c].at = "waiting", kind' = kind, gone' = gone,
             what = "delivered" => Message(c, Len(call[c].reports) + 1) \in gone
      PROVE  CallsFit' /\ NamesStay /\ ReportsAreTrue'
  <2> DEFINE n    == Len(call[c].reports)
             last == n + 1 = Len(call[c].to)
             new  == Told(c, what, IF last THEN "ended" ELSE "waiting")
  <2>1. what \in Verdicts /\ call[c] \in CallRecords
    BY DEF Verdicts
  <2>2. /\ new \in CallRecords /\ new.at = (IF last THEN "ended" ELSE "waiting")
        /\ new.mark = call[c].mark /\ new.to = call[c].to
        /\ new.reports = Append(call[c].reports, what)
    BY <2>1, ToldIs
  <2>3. call' = [call EXCEPT ![c] = new]
    BY <1>8 DEF ReportTarget
  <2>4. n < Len(call[c].to) /\ n \in Nat /\ call[c].reports \in Seq(Verdicts) /\ Len(call[c].to) \in Nat
    <3>1. call[c].reports \in Seq(Verdicts) /\ call[c].to \in Seq(Pids)
      BY <2>1 DEF CallRecords
    <3>2. n < Len(call[c].to)
      BY <1>8 DEF CallsFit
    <3> QED
      BY <3>1, <3>2
  <2>5. call'[c] = new
    BY <2>2, <2>3, CallBecomes
  <2> HIDE DEF new
  <2>6. Len(new.reports) = n + 1 /\ new.reports[n + 1] = what /\ \A i \in 1..n : new.reports[i] = call[c].reports[i]
    BY <2>1, <2>2, <2>4
  <2>7. new.at = "waiting" => Len(new.reports) < Len(new.to)
    BY <2>2, <2>4, <2>6
  <2>8. ReportIsTrue(c)'
    <3>1. kind' \notin DayKinds /\ kind' # "email"
      BY <1>8 DEF DayKinds
    <3>2. ASSUME NEW i \in 1..Len(call'[c].to), Reports(c, "delivered", i)' PROVE Message(c, i)' \in gone'
      <4>1. i \in 1..(n + 1) /\ new.reports[i] = "delivered"
        BY <2>4, <2>5, <2>6, <3>2 DEF Reports
      <4>2. Message(c, i)' = Message(c, i)
        BY <2>2, <2>5 DEF Message
      <4>3. CASE i = n + 1
        BY <1>8, <2>6, <4>1, <4>2, <4>3
      <4>4. CASE i \in 1..n
        <5>1. Reports(c, "delivered", i) /\ i \in 1..Len(call[c].to)
          BY <2>4, <2>6, <4>1, <4>4 DEF Reports
        <5> QED
          BY <1>8, <4>2, <5>1 DEF ReportsAreTrue
      <4> QED
        BY <2>4, <4>1, <4>3, <4>4
    <3> QED
      BY <3>1, <3>2 DEF ReportIsTrue
  <2> QED
    BY <1>8, <2>2, <2>3, <2>7, <2>8, OneCallMoves
<1>9. ASSUME NEW c \in Calls, kind = "peer", call[c].at = "waiting"
      PROVE  Message(c, Len(call[c].reports) + 1) \in Calls \X Pids
  BY <1>9 DEF Message, CallsFit, CallRecords
<1>10. ASSUME NEW c \in Calls, TakeAck(c) PROVE CallsFit' /\ NamesStay /\ ReportsAreTrue'
  <2> DEFINE m == Message(c, Len(call[c].reports) + 1)
  <2>1. /\ kind = "peer" /\ call[c].at = "waiting" /\ peer[m] \in {"delivered", "dropped"}
        /\ ReportTarget(c, peer[m], "taken") \/ ReportTarget(c, "queued", "taken")
        /\ kind' = kind /\ gone' = gone
    BY <1>10 DEF TakeAck
  <2>2. peer[m] = "delivered" => m \in gone
    BY <1>9, <2>1 DEF AnswersAreTrue
  <2> HIDE DEF m
  <2>3. CASE ReportTarget(c, "queued", "taken")
    BY <1>8, <2>1, <2>3
  <2>4. CASE ReportTarget(c, peer[m], "taken")
    <3>1. peer[m] \in {"delivered", "dropped", "queued"}
      BY <2>1
    <3>2. peer[m] = "delivered" => Message(c, Len(call[c].reports) + 1) \in gone
      BY <2>2 DEF m
    <3> QED
      BY <1>8, <2>1, <2>4, <3>1, <3>2
  <2> QED
    BY <2>1, <2>3, <2>4
<1>11. ASSUME NEW c \in Calls, GiveUp(c) PROVE CallsFit' /\ NamesStay /\ ReportsAreTrue'
  <2>1. call[c].at = "waiting" /\ kind' = kind /\ gone' = gone
    BY <1>11 DEF GiveUp
  <2>2. CASE kind = "peer"
    <3>1. PICK left : ReportTarget(c, "queued", left)
      BY <1>11, <2>2 DEF GiveUp
    <3> QED
      BY <1>8, <2>1, <2>2, <3>1
  <2>3. CASE kind # "peer"
    <3>1. Report(c, "pending") /\ "pending" \in Verdicts
      BY <1>11, <2>3 DEF GiveUp, Verdicts
    <3> QED
      BY <1>5, <2>1, <2>3, <3>1
  <2> QED
    BY <2>2, <2>3
\* All other steps leave the calls alone.
<1>12. ASSUME \/ \E m \in Calls \X Pids : KernelAnswers(m, "delivered") \/ KernelAnswers(m, "dropped")
              \/ WithholdLine("queued") \/ WithholdLine("frozen")
              \/ BeginLine \/ LineDeparts \/ EndLine \/ LoseLine
              \/ \E t \in CallTexts : DeliverQueued(t) \/ OtherLine(t)
              \/ (\E p \in Paths : ReadDraft(p)) \/ \E state \in FinalStates : WriteDraft(state)
       PROVE  CallsFit' /\ NamesStay /\ ReportsAreTrue'
  <2>1. UNCHANGED <<kind, call>> /\ gone \subseteq gone'
    BY <1>12 DEF KernelAnswers, WithholdLine, BeginLine, LineDeparts, EndLine, LoseLine, DeliverQueued,
                 OtherLine, ReadDraft, WriteDraft
  <2> QED
    BY <2>1, NoCallMoves
<1> QED
  BY <1>1, <1>2, <1>3, <1>4, <1>6, <1>7, <1>10, <1>11, <1>12 DEF SendNext

-----------------------------------------------------------------------------
\* The day-file, the drafts and the answers say what is so.
LEMMA LinesStep ==
  ASSUME SendTypeOK, LinesAreTrue, SendNext
  PROVE  LinesAreTrue'
<1> USE DEF SendTypeOK
<1>1. ASSUME UNCHANGED <<day, handed, handing>>, gone \subseteq gone' PROVE LinesAreTrue'
  BY <1>1 DEF LinesAreTrue, NextLine, IsBare
\* A line that claims nothing, or only what is so.
<1>2. ASSUME NEW e \in Entries, day' = Append(day, e), gone \subseteq gone', e[1] = "me" => e[2] \in gone',
             handing' # "left" \/ UNCHANGED <<handed, handing>>
      PROVE  LinesAreTrue'
  <2>1. \A i \in 1..Len(day') : day'[i][1] = "me" => day'[i][2] \in gone'
    BY <1>2, AppendedLine DEF LinesAreTrue
  <2>2. ASSUME handing' = "left" PROVE \E i \in 1..Len(day') : NextLine(i)' /\ day'[i][2] \in gone'
    <3>1. PICK i \in 1..Len(day) : NextLine(i) /\ day[i][2] \in gone
      BY <1>2, <2>2 DEF LinesAreTrue
    <3> QED
      BY <1>2, <2>2, <3>1, NextLineStays
  <2> QED
    BY <2>1, <2>2 DEF LinesAreTrue
<1>3. ASSUME handing' # "left", day' = day, gone \subseteq gone' PROVE LinesAreTrue'
  BY <1>3 DEF LinesAreTrue
<1>4. ASSUME NEW c \in Calls, WriteLine(c) PROVE LinesAreTrue'
  <2>1. <<"bare", TextOf[c]>> \in Entries
    BY SendAssumption DEF Entries
  <2> QED
    BY <1>2, <1>4, <2>1 DEF WriteLine
<1>5. ASSUME NEW k \in {"queued", "frozen"}, WithholdLine(k) PROVE LinesAreTrue'
  <2>1. <<k, "none">> \in Entries
    BY DEF Entries
  <2>2. /\ day' = Append(day, <<k, "none">>) \/ day' = day
        /\ handing' # "left" /\ gone' = gone
    BY <1>5 DEF WithholdLine, Note
  <2> QED
    BY <1>2, <1>3, <2>1, <2>2
<1>6. CASE BeginLine
  BY <1>3, <1>6 DEF BeginLine
<1>7. CASE LineDeparts
  <2>1. PICK i \in 1..Len(day) : NextLine(i) /\ gone' = gone \cup {day[i][2]}
    BY <1>7 DEF LineDeparts
  <2>2. UNCHANGED <<day, handed>>
    BY <1>7 DEF LineDeparts
  <2>3. NextLine(i)' /\ day'[i][2] \in gone'
    BY <2>1, <2>2 DEF NextLine, IsBare
  <2> QED
    BY <2>1, <2>2, <2>3 DEF LinesAreTrue
<1>8. CASE EndLine
  <2>1. PICK i \in 1..Len(day) :
          /\ NextLine(i)
          /\ day' = Append(day, IF handing = "left" THEN <<"me", day[i][2]>> ELSE <<"failed", "none">>)
    BY <1>8 DEF EndLine
  <2> DEFINE e == IF handing = "left" THEN <<"me", day[i][2]>> ELSE <<"failed", "none">>
  <2>2. e \in Entries
    BY DEF Entries
  <2>3. e[1] = "me" => e[2] \in gone
    <3>1. SUFFICES ASSUME handing = "left" PROVE day[i][2] \in gone
      OBVIOUS
    <3> QED
      BY <2>1, <3>1, NextLineIsOne DEF LinesAreTrue
  <2>4. day' = Append(day, e) /\ handing' # "left" /\ gone' = gone
    BY <1>8, <2>1 DEF EndLine
  <2> HIDE DEF e
  <2> QED
    BY <1>2, <2>2, <2>3, <2>4
<1>9. CASE LoseLine
  BY <1>3, <1>9 DEF LoseLine
<1>10. ASSUME NEW t \in CallTexts, DeliverQueued(t) \/ OtherLine(t) PROVE LinesAreTrue'
  <2>1. <<"me", t>> \in Entries /\ <<"other", "none">> \in Entries
    BY DEF Entries
  <2>2. UNCHANGED <<handed, handing>> /\ gone \subseteq gone'
    BY <1>10 DEF DeliverQueued, OtherLine
  <2>3. \/ day' = day
        \/ day' = Append(day, <<"other", "none">>)
        \/ day' = Append(day, <<"me", t>>) /\ t \in gone'
    BY <1>10 DEF DeliverQueued, OtherLine
  <2> QED
    BY <1>1, <1>2, <2>1, <2>2, <2>3
\* All other steps leave the day-file alone.
<1>11. ASSUME \/ \E c \in Calls :
                   \/ PollVerdict(c) \/ ChoosePath(c) \/ DumpDraft(c) \/ PollDraft(c)
                   \/ \E tokens \in Pids \X Pids, n \in 1..2 : \E pids \in [1..n -> Pids] : SendMessage(c, tokens, pids)
                   \/ TakeAck(c) \/ GiveUp(c)
              \/ \E m \in Calls \X Pids : KernelAnswers(m, "delivered") \/ KernelAnswers(m, "dropped")
              \/ (\E p \in Paths : ReadDraft(p)) \/ \E state \in FinalStates : WriteDraft(state)
       PROVE  LinesAreTrue'
  <2>1. UNCHANGED <<day, handed, handing>> /\ gone \subseteq gone'
    BY <1>11 DEF PollVerdict, ChoosePath, DumpDraft, PollDraft, SendMessage, TakeAck, GiveUp, KernelAnswers,
                 ReadDraft, WriteDraft, threadFile
  <2> QED
    BY <1>1, <2>1
<1> QED
  BY <1>4, <1>5, <1>6, <1>7, <1>8, <1>9, <1>10, <1>11 DEF SendNext

LEMMA OneDraftChanges ==
  ASSUME NEW S, drafts \in [Paths -> S], NEW q, NEW new, drafts' = [drafts EXCEPT ![q] = new]
  PROVE  \A p \in Paths : drafts'[p] = drafts[p] \/ (drafts'[p] = new /\ p = q)
  OBVIOUS

LEMMA DraftsStep ==
  ASSUME SendTypeOK, CallsFit, DraftsAreTrue, NamesStay, SendNext
  PROVE  DraftsAreTrue'
<1> USE DEF SendTypeOK
<1>1. ASSUME NEW c, NEW p, Wrote(c, p) PROVE Wrote(c, p)'
  BY <1>1 DEF Wrote, NamesStay, Path
<1>2. ASSUME UNCHANGED mailFiles, gone \subseteq gone' PROVE DraftsAreTrue'
  BY <1>1, <1>2 DEF DraftsAreTrue, mailFiles
<1>3. ASSUME NEW c \in Calls, DumpDraft(c) PROVE DraftsAreTrue'
  <2>1. /\ kind = "email" /\ call[c].at = "named" /\ UNCHANGED <<mail, gone>>
        /\ drafts' = [drafts EXCEPT ![Path(c)] = [of |-> c, state |-> "new"]]
    BY <1>3 DEF DumpDraft
  <2>2. Wrote(c, Path(c))
    BY <2>1 DEF Wrote
  <2>3. \A p \in Paths : drafts'[p] = drafts[p] \/ (drafts'[p] = [of |-> c, state |-> "new"] /\ p = Path(c))
    BY <2>1, OneDraftChanges
  <2> QED
    BY <1>1, <2>1, <2>2, <2>3 DEF DraftsAreTrue
<1>4. ASSUME NEW p \in Paths, ReadDraft(p) PROVE DraftsAreTrue'
  <2>1. /\ drafts[p].state = "new" /\ UNCHANGED <<drafts, gone>>
        /\ mail' = [of |-> drafts[p].of, path |-> p]
    BY <1>4 DEF ReadDraft
  <2>2. Wrote(drafts[p].of, p)
    BY <2>1 DEF DraftsAreTrue
  <2> QED
    BY <1>1, <2>1, <2>2 DEF DraftsAreTrue
<1>5. ASSUME NEW state \in FinalStates, WriteDraft(state) PROVE DraftsAreTrue'
  <2>1. PICK c \in Calls, q \in Paths : c = mail.of /\ q = mail.path /\ mail # NoMail
    BY <1>5 DEF WriteDraft
  <2>2. /\ mail' = NoMail /\ gone \subseteq gone'
        /\ state = "sent" => c \in gone'
        /\ drafts' = [drafts EXCEPT ![q] = [of |-> c, state |-> state]]
    BY <1>5, <2>1 DEF WriteDraft
  <2>3. Wrote(c, q)'
    BY <1>1, <2>1 DEF DraftsAreTrue
  <2>4. \A p \in Paths : drafts'[p] = drafts[p] \/ (drafts'[p] = [of |-> c, state |-> state] /\ p = q)
    BY <2>2, OneDraftChanges
  <2>5. ASSUME NEW p \in Paths, drafts'[p] = drafts[p]
        PROVE  /\ drafts'[p].state # "absent" => Wrote(drafts[p].of, p)'
               /\ drafts'[p].state = "sent" => drafts[p].of \in gone'
    BY <1>1, <2>2, <2>5 DEF DraftsAreTrue
  <2> QED
    BY <2>2, <2>3, <2>4, <2>5 DEF DraftsAreTrue
<1>6. ASSUME \/ \E c \in Calls :
                  \/ WriteLine(c) \/ PollVerdict(c) \/ ChoosePath(c) \/ PollDraft(c)
                  \/ \E tokens \in Pids \X Pids, n \in 1..2 : \E pids \in [1..n -> Pids] : SendMessage(c, tokens, pids)
                  \/ TakeAck(c) \/ GiveUp(c)
             \/ \E m \in Calls \X Pids : KernelAnswers(m, "delivered") \/ KernelAnswers(m, "dropped")
             \/ WithholdLine("queued") \/ WithholdLine("frozen")
             \/ BeginLine \/ LineDeparts \/ EndLine \/ LoseLine
             \/ \E t \in CallTexts : DeliverQueued(t) \/ OtherLine(t)
      PROVE  DraftsAreTrue'
  <2>1. UNCHANGED mailFiles /\ gone \subseteq gone'
    BY <1>6 DEF WriteLine, PollVerdict, ChoosePath, PollDraft, SendMessage, TakeAck, GiveUp, KernelAnswers,
                WithholdLine, BeginLine, LineDeparts, EndLine, LoseLine, DeliverQueued, OtherLine
  <2> QED
    BY <1>2, <2>1
<1> QED
  BY <1>3, <1>4, <1>5, <1>6 DEF SendNext

LEMMA AnswersStep ==
  ASSUME SendTypeOK, CallsFit, AnswersAreTrue, SendNext
  PROVE  AnswersAreTrue'
<1> USE DEF SendTypeOK
<1>1. ASSUME peer' = peer, gone \subseteq gone' PROVE AnswersAreTrue'
  BY <1>1 DEF AnswersAreTrue
<1>2. ASSUME NEW c \in Calls, NEW tokens, NEW pids, SendMessage(c, tokens, pids) PROVE AnswersAreTrue'
  BY <1>2 DEF SendMessage, AnswersAreTrue
<1>3. ASSUME NEW c \in Calls, NEW what, NEW left, gone' = gone, ReportTarget(c, what, left),
             left = "delivered" => Message(c, Len(call[c].reports) + 1) \in gone
      PROVE  AnswersAreTrue'
  BY <1>3 DEF ReportTarget, AnswersAreTrue
<1>4. ASSUME NEW c \in Calls, TakeAck(c) PROVE AnswersAreTrue'
  BY <1>3, <1>4 DEF TakeAck
<1>5. ASSUME NEW c \in Calls, GiveUp(c) PROVE AnswersAreTrue'
  <2> DEFINE m == Message(c, Len(call[c].reports) + 1)
  <2>1. CASE kind = "peer"
    <3>1. m \in Calls \X Pids
      BY <1>5, <2>1 DEF GiveUp, Message, CallsFit, CallRecords
    <3>2. peer[m] = "delivered" => m \in gone
      BY <3>1 DEF AnswersAreTrue
    <3>3. ReportTarget(c, "queued", peer[m]) /\ gone' = gone
      BY <1>5, <2>1 DEF GiveUp
    <3> QED
      BY <1>3, <3>2, <3>3
  <2>2. CASE kind # "peer"
    BY <1>1, <1>5, <2>2 DEF GiveUp
  <2> QED
    BY <2>1, <2>2
<1>6. ASSUME NEW m \in Calls \X Pids, NEW what \in {"delivered", "dropped"}, KernelAnswers(m, what)
      PROVE  AnswersAreTrue'
  BY <1>6 DEF KernelAnswers, AnswersAreTrue
<1>7. ASSUME \/ \E c \in Calls :
                  WriteLine(c) \/ PollVerdict(c) \/ ChoosePath(c) \/ DumpDraft(c) \/ PollDraft(c)
             \/ WithholdLine("queued") \/ WithholdLine("frozen")
             \/ BeginLine \/ LineDeparts \/ EndLine \/ LoseLine
             \/ \E t \in CallTexts : DeliverQueued(t) \/ OtherLine(t)
             \/ (\E p \in Paths : ReadDraft(p)) \/ \E state \in FinalStates : WriteDraft(state)
      PROVE  AnswersAreTrue'
  <2>1. peer' = peer /\ gone \subseteq gone'
    BY <1>7 DEF WriteLine, PollVerdict, ChoosePath, DumpDraft, PollDraft, WithholdLine, BeginLine, LineDeparts,
                EndLine, LoseLine, DeliverQueued, OtherLine, ReadDraft, WriteDraft
  <2> QED
    BY <1>1, <2>1
<1> QED
  BY <1>2, <1>4, <1>5, <1>6, <1>7 DEF SendNext

-----------------------------------------------------------------------------
\* A send command that says `sent` or `delivered` says so of what has left (_classify,
\* _wait_for_terminal, _wait_for_ack), whoever else writes to the day-file, the drafts
\* directory or ACKS_DIR.
THEOREM SentIsTrue == SendSpec => []ReportsAreTrue
<1>1. SendInit => SendInv
  <2> SUFFICES ASSUME SendInit PROVE SendInv
    OBVIOUS
  <2>1. NotCalled \in CallRecords
    BY DEF NotCalled, CallRecords
  <2>2. SendTypeOK
    BY <2>1 DEF SendInit, SendTypeOK, NoFile, NoMail
  <2>3. CallsFit /\ ReportsAreTrue
    BY DEF SendInit, CallsFit, ReportsAreTrue, Reports, NotCalled
  <2>4. LinesAreTrue /\ DraftsAreTrue /\ AnswersAreTrue
    BY DEF SendInit, LinesAreTrue, DraftsAreTrue, AnswersAreTrue, NoFile
  <2> QED
    BY <2>2, <2>3, <2>4 DEF SendInv
<1>2. SendInv /\ [SendNext]_sendVars => SendInv'
  <2> SUFFICES ASSUME SendInv, [SendNext]_sendVars PROVE SendInv'
    OBVIOUS
  <2>1. CASE SendNext
    <3>1. SendTypeOK' /\ CallsFit' /\ NamesStay /\ ReportsAreTrue'
      BY <2>1, SendTypeStep, CallsStep DEF SendInv
    <3>2. LinesAreTrue' /\ DraftsAreTrue' /\ AnswersAreTrue'
      BY <2>1, <3>1, LinesStep, DraftsStep, AnswersStep DEF SendInv
    <3> QED
      BY <3>1, <3>2 DEF SendInv
  <2>2. CASE UNCHANGED sendVars
    <3>1. /\ UNCHANGED <<kind, call, threadMeta, day, handed, handing, queued>>
          /\ UNCHANGED <<drafts, mail, peer, gone, sendMishaps>>
      BY <2>2 DEF sendVars, threadFile, mailFiles
    <3>2. SendTypeOK' /\ CallsFit' /\ ReportsAreTrue'
      BY <3>1, NoCallMoves DEF SendInv, SendTypeOK
    <3>3. LinesAreTrue'
      BY <3>1 DEF SendInv, LinesAreTrue, NextLine, IsBare
    <3>4. DraftsAreTrue' /\ AnswersAreTrue'
      BY <3>1 DEF SendInv, DraftsAreTrue, AnswersAreTrue, Wrote, Path
    <3> QED
      BY <3>2, <3>3, <3>4 DEF SendInv
  <2> QED
    BY <2>1, <2>2
<1>3. SendInv => ReportsAreTrue
  BY DEF SendInv
<1> QED
  BY <1>1, <1>2, <1>3, PTL DEF SendSpec
=============================================================================
