----------------------------- MODULE BuiltDocs -----------------------------
(***************************************************************************)
(* The documents a PAI writes under usr/share/doc/built, over the runs of  *)
(* paifs-init (bin/paifs_init): from a checkout or a release, which wires  *)
(* usr/share/doc as links, or from the app's bundle, which copies it.  An  *)
(* older layout made the whole of usr/share/doc one link into a release,   *)
(* and releases are removed.  A run may end at any step.                   *)
(***************************************************************************)
EXTENDS Naturals, FiniteSets

CONSTANTS Docs,              \* names under built/
          Contents,          \* what may be written
          Releases,          \* release directories
          MaxDocWrites,      \* bound on writes
          MaxLayouts         \* bound on runs of paifs-init

NoDoc == 0                     \* there is no such file
Here  == "here"                \* usr/share/doc itself
NoLayout == [at |-> "idle", mode |-> "none", todo |-> {}]

ASSUME BuiltDocsAssumption == NoDoc \notin Contents /\ {Here, "none", "dir"} \cap Releases = {}

VARIABLES docSlot,  \* usr/share/doc: none, dir, or the release it links to
          built,    \* built in that directory: none, link (to durable), real (a directory)
          durable,  \* var/lib/doc/built
          stray,    \* the real built directories: here, and in each release
          kept,     \* the release directories that exist
          run,      \* the run of paifs-init
          owed,     \* what was written last under each path
          excused,  \* what a run had to leave where it was
          docWrites, layouts

docVars   == <<docSlot, built, durable, stray, kept, run, owed, excused, docWrites, layouts>>
docTree   == <<docSlot, built, durable, stray, kept>>
authored  == <<owed, excused, docWrites>>
Empty     == [d \in Docs |-> NoDoc]

DocsInit ==
  /\ docSlot \in {"none"} \cup Releases
  /\ built = "none" /\ durable = Empty /\ stray = [p \in Releases \cup {Here} |-> Empty]
  /\ kept = Releases /\ run = NoLayout /\ owed = {} /\ excused = {} /\ docWrites = 0 /\ layouts = 0

\* Where usr/share/doc/built is, when it is a directory of its own.
Legacy      == IF docSlot \in Releases THEN docSlot ELSE Here
LegacyIsDir == docSlot \in Releases \/ (docSlot = "dir" /\ built = "real")

-----------------------------------------------------------------------------
\* A PAI writes a document through usr/share/doc/built; the directory is made if need be.  The
\* app lays out before it starts a kernel, so nobody writes while it does.
WriteDoc(d, c) ==
  /\ docWrites < MaxDocWrites /\ docWrites' = docWrites + 1
  /\ run.mode # "bundle"
  /\ LET linked == docSlot = "dir" /\ built = "link"
         old    == IF linked THEN durable[d] ELSE stray[Legacy][d]
     IN  /\ durable' = IF linked THEN [durable EXCEPT ![d] = c] ELSE durable
         /\ stray' = IF linked THEN stray ELSE [stray EXCEPT ![Legacy][d] = c]
         /\ owed' = (owed \ {<<d, old>>}) \cup {<<d, c>>}
         /\ excused' = IF run # NoLayout /\ docSlot \in Releases THEN excused \cup {<<d, c>>}
                                                          ELSE excused \ {<<d, c>>}
  /\ docSlot' = IF docSlot = "none" THEN "dir" ELSE docSlot
  /\ built' = IF docSlot \notin Releases /\ built = "none" THEN "real" ELSE built
  /\ UNCHANGED <<kept, run, layouts>>

-----------------------------------------------------------------------------
DocsGo(place)   == run' = [run EXCEPT !.at = place]
Listed        == IF LegacyIsDir THEN {d \in Docs : stray[Legacy][d] # NoDoc} ELSE {}
ToMerge(place) == run' = [run EXCEPT !.at = place, !.todo = Listed]

\* lay_out: the bundle's run and the checkout's both rescue what is in built first.
BeginLayout(mode) ==
  /\ run = NoLayout /\ layouts < MaxLayouts /\ layouts' = layouts + 1
  /\ run' = [at |-> "rescue", mode |-> mode, todo |-> Listed]
  /\ UNCHANGED <<docTree, authored>>

\* What is at the destination already is dropped, whatever it holds.
MutSame(d) == durable[d] # NoDoc

\* A byte-identical file is a copy.
Same(d) == durable[d] = stray[Legacy][d]

\* _merge_move_docs: one entry of the listing is moved, dropped as a copy, or left in place.
MergeDoc(d) ==
  /\ run.at \in {"rescue", "again"} /\ d \in run.todo
  /\ run' = [run EXCEPT !.todo = @ \ {d}]
  /\ \/ /\ durable[d] = NoDoc
        /\ durable' = [durable EXCEPT ![d] = stray[Legacy][d]]
        /\ stray' = [stray EXCEPT ![Legacy][d] = NoDoc] /\ UNCHANGED excused
     \/ /\ durable[d] # NoDoc /\ Same(d)
        /\ stray' = [stray EXCEPT ![Legacy][d] = NoDoc] /\ UNCHANGED <<durable, excused>>
     \/ /\ durable[d] # NoDoc /\ ~Same(d)
        /\ excused' = excused \cup {<<d, stray[Legacy][d]>>} /\ UNCHANGED <<durable, stray>>
  /\ UNCHANGED <<docSlot, built, kept, owed, docWrites, layouts>>

\* migrate_built_docs: the directory goes if nothing is left in it.
EndMerge ==
  /\ run.at \in {"rescue", "again"} /\ run.todo = {}
  /\ built' = IF docSlot = "dir" /\ built = "real" /\ stray[Here] = Empty THEN "none" ELSE built
  /\ DocsGo(IF run.at = "again" THEN "expose" ELSE IF run.mode = "bundle" THEN "wipe" ELSE "unlink")
  /\ UNCHANGED <<docSlot, durable, stray, kept, authored, layouts>>

\* ensure_doc_shipped_links: the whole-directory link goes.
UnlinkDocs ==
  /\ run.at = "unlink" /\ DocsGo("wire")
  /\ docSlot' = IF docSlot \in Releases THEN "none" ELSE docSlot
  /\ built' = IF docSlot \in Releases THEN "none" ELSE built
  /\ UNCHANGED <<durable, stray, kept, authored, layouts>>

\* A real directory, one link per shipped document; links that dangle go, files stay.
WireDocs ==
  /\ run.at = "wire" /\ docSlot' = "dir" /\ ToMerge("again")
  /\ UNCHANGED <<built, durable, stray, kept, authored, layouts>>

\* copy_seed_content: a link goes, a directory goes with what is in it.
WipeDocs ==
  /\ run.at = "wipe" /\ DocsGo("copy")
  /\ stray' = IF docSlot = "dir" THEN [stray EXCEPT ![Here] = Empty] ELSE stray
  /\ docSlot' = "none" /\ built' = "none"
  /\ UNCHANGED <<durable, kept, authored, layouts>>

CopyDocs ==
  /\ run.at = "copy" /\ docSlot' = "dir" /\ ToMerge("again")
  /\ UNCHANGED <<built, durable, stray, kept, authored, layouts>>

\* ensure_built_docs: the link to the durable directory, unless a directory is in its place.
ExposeBuilt ==
  /\ run.at = "expose" /\ run' = NoLayout
  /\ built' = IF docSlot = "dir" /\ built = "none" THEN "link" ELSE built
  /\ UNCHANGED <<docSlot, durable, stray, kept, authored, layouts>>

\* A run that fails leaves things as they are.
LayoutDies ==
  /\ run # NoLayout /\ run' = NoLayout
  /\ UNCHANGED <<docTree, authored, layouts>>

\* _gc_versions, after a run from another release.
RemoveRelease(r) ==
  /\ run = NoLayout /\ r \in kept /\ docSlot # r /\ Cardinality(kept) > 1
  /\ kept' = kept \ {r} /\ stray' = [stray EXCEPT ![r] = Empty]
  /\ UNCHANGED <<docSlot, built, durable, run, authored, layouts>>

DocsNext ==
  \/ \E d \in Docs : MergeDoc(d) \/ \E c \in Contents : WriteDoc(d, c)
  \/ \E mode \in {"checkout", "bundle"} : BeginLayout(mode)
  \/ EndMerge \/ UnlinkDocs \/ WireDocs \/ WipeDocs \/ CopyDocs \/ ExposeBuilt \/ LayoutDies
  \/ \E r \in Releases : RemoveRelease(r)

DocsSpec == DocsInit /\ [][DocsNext]_docVars

-----------------------------------------------------------------------------
Found(d, c) == durable[d] = c \/ \E p \in kept \cup {Here} : stray[p][d] = c

\* What a PAI wrote last under a path of usr/share/doc/built is still in the durable directory or
\* in a directory that exists, whatever runs of paifs-init began, ended or died and whatever
\* releases went; but for what a run met with another content at the destination, and what was
\* written into an old release while a run was leaving it (_merge_move_docs: "without ever
\* discarding data"; copy_seed_content, ensure_doc_shipped_links).
DocsAreKept == \A x \in owed : x \in excused \/ Found(x[1], x[2])
=============================================================================
