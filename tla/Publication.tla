----------------------------- MODULE Publication ----------------------------
(***************************************************************************)
(* How evidence reaches the checked-in trees and the demonstration.        *)
(* run_golden rewrites artifacts/golden and schemas in place, file after   *)
(* file, with nothing that locks or swaps them; it may stop anywhere, and  *)
(* a second one may run beside it.                                         *)
(* run_demo generates the same files in a directory of its own, compares   *)
(* every byte with the checked-in trees and prints only after equality.    *)
(* Meanwhile the sources may be edited and files left in artifacts/golden. *)
(***************************************************************************)
EXTENDS Sequences, Naturals

CONSTANTS
  Versions,       \* the states of the fixtures and of the code
  Publishable,    \* those whose controls pass and whose attribution is valid
  Original,       \* the version of the checked-in trees at the start
  EvidenceFiles,  \* the evidence files in the order write_evidence writes them
  SchemaFiles,    \* the schema files in the order write_schemas writes them
  NameOrder,      \* every name as listings sort them, artifacts/golden first
  Manifest,       \* bundle_manifest.json
  Stray,          \* the name of a file nothing generates
  StrayContent,   \* what it holds
  Content,        \* what each generated file holds in each version
  BundleId,       \* the hash of each version's inputs
  Absent, Torn,   \* no file; a file opened for writing and not yet written
  Mixed,          \* a file two writers had open, with bytes of both
  Publishers,     \* the processes that may execute run_golden
  MaxEdits        \* bound on what people do to the repository in a behaviour

VARIABLES
  sources,        \* the version on disk
  edits,          \* how often people touched the repository
  accepted,       \* the checked-in trees: what each name holds
  publisher,      \* the run_golden of each process
  demo,           \* the run_demo
  stood           \* history: the versions whose evidence has stood whole

vars == <<sources, edits, accepted, publisher, demo, stood>>

-----------------------------------------------------------------------------
(***************************************************************************)
(* Files and bundles.                                                      *)
(***************************************************************************)
InOrder(seq) == {seq[i] : i \in DOMAIN seq}

Generated     == InOrder(EvidenceFiles) \cup InOrder(SchemaFiles)
EvidenceNames == InOrder(EvidenceFiles) \cup {Manifest, Stray}
Names         == Generated \cup {Manifest, Stray}

ASSUME NamesDistinct ==
  /\ InOrder(EvidenceFiles) \cap InOrder(SchemaFiles) = {}
  /\ Manifest \notin Generated /\ Stray \notin Generated /\ Manifest # Stray
ASSUME NamesSorted ==
  InOrder(NameOrder) = Names
ASSUME VersionsGiven == Original \in Publishable /\ Publishable \subseteq Versions
ASSUME MarkersDistinct ==
  /\ Absent # Torn /\ Mixed \notin {Absent, Torn}
  /\ \A f \in Generated, v \in Versions : Content[v][f] \notin {Absent, Torn, Mixed}
ASSUME EditsBounded == MaxEdits \in Nat
ASSUME FilesGiven ==
  /\ EvidenceFiles \in Seq(InOrder(EvidenceFiles)) /\ EvidenceFiles # <<>>
  /\ SchemaFiles \in Seq(InOrder(SchemaFiles))

\* The manifest: the identity of the inputs and every other file of the
\* directory, by its bytes.
ManifestOf(v, artifacts) == [bundle_id |-> BundleId[v], artifacts |-> artifacts]

\* The trees as one uninterrupted execution writes them into an empty place.
Bundle(v) ==
  [ f \in Names |->
      CASE f = Manifest -> ManifestOf(v, [g \in InOrder(EvidenceFiles) |-> Content[v][g]])
        [] f = Stray    -> Absent
        [] OTHER        -> Content[v][f] ]

Nothing == [f \in Names |-> Absent]

ASSUME ManifestsAreWritten ==
  \A v \in Versions : Bundle(v)[Manifest] \notin {Absent, Torn, Mixed}

\* The versions whose generated evidence a tree holds, its manifest included.
StandsWhole(tree) ==
  {v \in Versions : \A f \in EvidenceNames \ {Stray} : tree[f] = Bundle(v)[f]}

ReadNextOffByOne(f, left) ==
  \E i \in DOMAIN NameOrder :
    /\ NameOrder[i] = f /\ f \in left
    /\ \A j \in 1..i : NameOrder[j] \notin left

\* A sorted listing goes on with f of the names it has left.
ReadNext(f, left) ==
  \E i \in DOMAIN NameOrder :
    /\ NameOrder[i] = f /\ f \in left
    /\ \A j \in 1..(i - 1) : NameOrder[j] \notin left

ListedEverywhere(tree) == {f \in Names \ {Manifest} : tree[f] # Absent}

\* path.iterdir() without the manifest.
ListedByManifest(tree) ==
  {f \in EvidenceNames \ {Manifest} : tree[f] # Absent}

-----------------------------------------------------------------------------
(***************************************************************************)
(* run_golden.  queue holds the names still to write, in order, the first  *)
(* of them opened if opened holds; hashes what has been read for the       *)
(* manifest of the names in listed; alone is history: no other run wrote   *)
(* since this one began.                                                   *)
(***************************************************************************)
Idle ==
  [ pc |-> "idle", version |-> Original, queue |-> <<>>, opened |-> FALSE,
    listed |-> {}, hashes |-> <<>>, alone |-> FALSE ]

ManifestFirst == <<Manifest>> \o EvidenceFiles \o SchemaFiles

WithoutSchemas == EvidenceFiles \o <<Manifest>>

\* write_evidence, its manifest last, then write_schemas.
WriteOrder == EvidenceFiles \o <<Manifest>> \o SchemaFiles

\* Whether build_evidence and the checks of execute let a version be written.
Passes(v) == v \in Publishable

Execute(p) ==
  /\ publisher[p].pc = "idle"
  /\ Passes(sources)
  /\ publisher' =
       [ q \in Publishers |->
           IF q # p THEN [publisher[q] EXCEPT !.alone = FALSE]
           ELSE [Idle EXCEPT !.pc = "writing", !.version = sources, !.queue = WriteOrder,
                   !.alone = \A other \in Publishers : publisher[other].pc # "writing"] ]
  /\ UNCHANGED <<sources, edits, accepted, demo, stood>>

\* Otherwise it raises before it writes anything.
Reject(p) ==
  /\ publisher[p].pc = "idle"
  /\ ~Passes(sources)
  /\ UNCHANGED vars

\* write_bytes opens the file, which empties it.
Open(p) ==
  LET me == publisher[p] IN
  /\ me.pc = "writing" /\ me.queue # <<>> /\ ~me.opened
  /\ Head(me.queue) = Manifest => me.listed = DOMAIN me.hashes /\ me.listed # {}
  /\ accepted' = [accepted EXCEPT ![Head(me.queue)] = Torn]
  /\ publisher' = [publisher EXCEPT ![p].opened = TRUE]
  /\ UNCHANGED <<sources, edits, demo, stood>>

\* Over what another run wrote since this one opened the file: of bytes longer
\* than the new ones the rest stays.
Overwritten(mine, theirs) ==
  IF theirs \in {Torn, mine} THEN {mine} ELSE {mine, Mixed}

Write(p) ==
  LET me == publisher[p]
      f  == Head(me.queue)
      mine == IF f = Manifest THEN ManifestOf(me.version, me.hashes)
              ELSE Content[me.version][f]
  IN
  /\ me.pc = "writing" /\ me.queue # <<>> /\ me.opened
  /\ \E bytes \in Overwritten(mine, accepted[f]) :
       accepted' = [accepted EXCEPT ![f] = bytes]
  /\ publisher' = [publisher EXCEPT ![p].opened = FALSE, ![p].queue = Tail(me.queue)]
  /\ stood' = stood \cup StandsWhole(accepted')
  /\ UNCHANGED <<sources, edits, demo>>

\* The manifest is composed before it is opened: the directory is listed, then
\* each file that is still there is read.
ListDirectory(p) ==
  LET me == publisher[p] IN
  /\ me.pc = "writing" /\ me.queue # <<>>
  /\ Head(me.queue) = Manifest /\ me.listed = {}
  /\ publisher' = [publisher EXCEPT ![p].listed = ListedByManifest(accepted)]
  /\ UNCHANGED <<sources, edits, accepted, demo, stood>>

HashFile(p) ==
  LET me == publisher[p] IN
  \E f \in me.listed :
    /\ me.pc = "writing"
    /\ ReadNext(f, me.listed \ DOMAIN me.hashes)
    /\ publisher' =
         IF accepted[f] = Absent
         THEN [publisher EXCEPT ![p].listed = @ \ {f}]
         ELSE [publisher EXCEPT
                 ![p].hashes = [g \in DOMAIN me.hashes \cup {f} |->
                                  IF g = f THEN accepted[f] ELSE me.hashes[g]]]
    /\ UNCHANGED <<sources, edits, accepted, demo, stood>>

Finish(p) ==
  /\ publisher[p].pc = "writing" /\ publisher[p].queue = <<>>
  /\ publisher' = [publisher EXCEPT ![p].pc = "published"]
  /\ UNCHANGED <<sources, edits, accepted, demo, stood>>

\* The process exits.
Exit(p) ==
  /\ publisher[p].pc = "published"
  /\ publisher' = [publisher EXCEPT ![p] = Idle]
  /\ UNCHANGED <<sources, edits, accepted, demo, stood>>

\* It may be killed between any two steps; what it wrote stays.
Crash(p) ==
  /\ publisher[p].pc = "writing"
  /\ publisher' = [publisher EXCEPT ![p] = Idle]
  /\ UNCHANGED <<sources, edits, accepted, demo, stood>>

-----------------------------------------------------------------------------
(***************************************************************************)
(* run_demo.  Its own files are in a directory nobody else writes; read    *)
(* holds what it has read of the checked-in trees.                         *)
(***************************************************************************)
NoDemo ==
  [ pc |-> "idle", generated |-> Nothing, listed |-> {}, read |-> <<>> ]

\* The first command; set -e ends the script if execute refuses the sources.
Generate ==
  /\ demo.pc = "idle"
  /\ Passes(sources)
  /\ demo' = [NoDemo EXCEPT !.pc = "generated", !.generated = Bundle(sources)]
  /\ UNCHANGED <<sources, edits, accepted, publisher, stood>>

\* A signal the script traps removes the directory and does not end the script.
Interrupt ==
  /\ demo.pc = "generated"
  /\ demo' = [demo EXCEPT !.generated = Nothing]
  /\ UNCHANGED <<sources, edits, accepted, publisher, stood>>

ListAccepted ==
  /\ demo.pc = "generated"
  /\ demo' = [demo EXCEPT
       !.pc = "comparing", !.listed = {f \in Names : accepted[f] # Absent}]
  /\ UNCHANGED <<sources, edits, accepted, publisher, stood>>

ReadAccepted ==
  \E f \in Names :
    /\ demo.pc = "comparing"
    /\ ReadNext(f, demo.listed \ DOMAIN demo.read)
    /\ demo' =
         IF accepted[f] = Absent
         THEN [demo EXCEPT !.listed = @ \ {f}]
         ELSE [demo EXCEPT !.read = [g \in DOMAIN demo.read \cup {f} |->
                                       IF g = f THEN accepted[f] ELSE demo.read[g]]]
    /\ UNCHANGED <<sources, edits, accepted, publisher, stood>>

SameListedFiles ==
  \A f \in Names \ {Manifest} :
    demo.generated[f] = IF f \in DOMAIN demo.read THEN demo.read[f] ELSE Absent

\* generated_files.get(name) against accepted_files.get(name), over both.
SameFiles ==
  \A f \in Names :
    demo.generated[f] = IF f \in DOMAIN demo.read THEN demo.read[f] ELSE Absent

Compare ==
  /\ demo.pc = "comparing" /\ demo.listed = DOMAIN demo.read
  /\ demo' = [demo EXCEPT !.pc = IF SameFiles THEN "printed" ELSE "failed"]
  /\ UNCHANGED <<sources, edits, accepted, publisher, stood>>

DemoExits ==
  /\ demo.pc \in {"printed", "failed"}
  /\ demo' = NoDemo
  /\ UNCHANGED <<sources, edits, accepted, publisher, stood>>

-----------------------------------------------------------------------------
(***************************************************************************)
(* The people who work in the repository.                                  *)
(***************************************************************************)
Edit ==
  /\ edits < MaxEdits /\ edits' = edits + 1
  /\ \E v \in Versions \ {sources} : sources' = v
  /\ UNCHANGED <<accepted, publisher, demo, stood>>

LeaveFile ==
  /\ edits < MaxEdits /\ edits' = edits + 1
  /\ accepted[Stray] = Absent
  /\ accepted' = [accepted EXCEPT ![Stray] = StrayContent]
  /\ UNCHANGED <<sources, publisher, demo, stood>>

RemoveFile ==
  /\ edits < MaxEdits /\ edits' = edits + 1
  /\ accepted[Stray] # Absent
  /\ accepted' = [accepted EXCEPT ![Stray] = Absent]
  /\ UNCHANGED <<sources, publisher, demo, stood>>

Init ==
  /\ sources = Original
  /\ edits = 0
  /\ accepted = Bundle(Original)
  /\ publisher = [p \in Publishers |-> Idle]
  /\ demo = NoDemo
  /\ stood = StandsWhole(accepted)

GoldenStep(p) ==
  Open(p) \/ Write(p) \/ ListDirectory(p) \/ HashFile(p) \/ Finish(p) \/ Exit(p)

DemoStep == ListAccepted \/ ReadAccepted \/ Compare \/ DemoExits

GoldenNext ==
  \/ \E p \in Publishers : Execute(p) \/ Reject(p) \/ GoldenStep(p) \/ Crash(p)
  \/ Edit \/ LeaveFile \/ RemoveFile

Next == GoldenNext \/ Generate \/ Interrupt \/ DemoStep

\* A process that runs goes on; nobody has to start one.
Spec ==
  /\ Init /\ [][Next]_vars
  /\ WF_vars(DemoStep)
  /\ \A p \in Publishers : WF_vars(GoldenStep(p))

\* The same without the demonstration.
GoldenSpec == Init /\ [][GoldenNext]_vars

-----------------------------------------------------------------------------
(***************************************************************************)
(* Properties.                                                             *)
(***************************************************************************)
FileContents(f) ==
  {Absent, Torn, Mixed} \cup
    IF f = Stray THEN {StrayContent} ELSE {Content[v][f] : v \in Versions}

\* Every variable has its shape; a publisher that has opened a file has one to
\* write, and one that has composed its manifest has hashed what it listed.
TypeOK ==
  /\ sources \in Versions
  /\ edits \in 0..MaxEdits
  /\ DOMAIN accepted = Names
  /\ \A f \in Names \ {Manifest} : accepted[f] \in FileContents(f)
  /\ \A p \in Publishers :
       LET me == publisher[p] IN
       /\ me.pc \in {"idle", "writing", "published"}
       /\ me.version \in Versions
       /\ me.queue \in Seq(Names)
       /\ me.opened => me.queue # <<>>
       /\ DOMAIN me.hashes \subseteq me.listed /\ me.listed \subseteq EvidenceNames
  /\ demo.pc \in {"idle", "generated", "comparing", "printed", "failed"}
  /\ demo.generated \in {Nothing} \cup {Bundle(v) : v \in Versions}
  /\ DOMAIN demo.read \subseteq demo.listed /\ demo.listed \subseteq Names

\* The demonstration prints only a version whose controls pass and whose evidence
\* has stood whole in the checked-in tree, although it reads that tree file after
\* file while it may be rewritten and whatever interrupted runs left there: the
\* manifest, which identifies the inputs, is written after the files it lists.
PrintedEvidenceStood ==
  demo.pc = "printed" =>
    \E v \in stood \cap Publishable : demo.generated = Bundle(v)

\* A directory whose manifest lists exactly the other files, each with the
\* bytes it has, holds one whole bundle: one of the inputs the manifest is of,
\* and one that passed its controls.
ManifestVouches ==
  LET manifest == accepted[Manifest]
      others == ListedByManifest(accepted)
  IN  /\ manifest \notin {Absent, Torn, Mixed}
      /\ manifest.artifacts = [f \in others |-> accepted[f]]
      => \E v \in Publishable :
           /\ manifest.bundle_id = BundleId[v]
           /\ \A f \in InOrder(EvidenceFiles) : accepted[f] = Content[v][f]

\* A run_golden that ended, and beside which no other wrote, leaves every generated
\* file of its version and a manifest of the files beside it, whatever earlier runs
\* left: files they were killed in, or mixed where they collided.
PublishedIsWhole ==
  \A p \in Publishers : publisher[p].pc = "published" /\ publisher[p].alone =>
    /\ \A f \in Generated : accepted[f] = Content[publisher[p].version][f]
    /\ accepted[Manifest].bundle_id = BundleId[publisher[p].version]
    /\ \A f \in InOrder(EvidenceFiles) :
         accepted[Manifest].artifacts[f] = accepted[f]

\* A command that began ends, whatever the other does to the files it reads: the
\* demonstration prints or fails, run_golden publishes or is killed.
CommandsEnd ==
  /\ (demo.pc = "generated") ~> (demo.pc = "idle")
  /\ \A p \in Publishers : (publisher[p].pc = "writing") ~> (publisher[p].pc = "idle")
=============================================================================
