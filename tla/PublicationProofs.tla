-------------------------- MODULE PublicationProofs --------------------------
(***************************************************************************)
(* Proofs about publication, for any files, versions and number of edits.  *)
(* What a finished run_golden leaves is proved for any number of processes *)
(* that write at a time; what a manifest vouches for and what the          *)
(* demonstration prints, for any number of which one writes at a time.     *)
(***************************************************************************)
EXTENDS Publication, TLAPS, SequenceTheorems

Evidence == InOrder(EvidenceFiles)
Schemas  == InOrder(SchemaFiles)
Written  == Generated \cup {Manifest}

-----------------------------------------------------------------------------
(***************************************************************************)
(* The inductive invariant.                                                *)
(***************************************************************************)
\* The manifest comes after every evidence file, the schemas after it.
Ordered(queue) ==
  /\ \A i \in DOMAIN queue :
       queue[i] \in Evidence => \E j \in DOMAIN queue : i < j /\ queue[j] = Manifest
  /\ \A i, j \in DOMAIN queue :
       i < j /\ queue[i] = Manifest => queue[j] \in Schemas

Fields == {"pc", "version", "queue", "opened", "listed", "hashes", "alone"}

HasFields(me) == me = [field \in Fields |-> me[field]]

PublisherInv(me) ==
  /\ HasFields(me)
  /\ me.pc \in {"idle", "writing", "published"}
  /\ me.version \in Publishable
  /\ me.queue \in Seq(Written)
  /\ Ordered(me.queue)
  /\ me.opened \in BOOLEAN /\ me.alone \in BOOLEAN
  /\ me.opened => me.queue # <<>>
  /\ me.pc = "published" => me.queue = <<>>
  /\ me.hashes = [f \in DOMAIN me.hashes |-> me.hashes[f]]
  /\ DOMAIN me.hashes \subseteq me.listed
  /\ me.listed \subseteq EvidenceNames \ {Manifest}

\* A manifest of version v: its identity, and its evidence among the hashes.
VouchesFor(manifest, v) ==
  /\ manifest = ManifestOf(v, manifest.artifacts)
  /\ Evidence \subseteq DOMAIN manifest.artifacts
  /\ \A f \in Evidence : manifest.artifacts[f] = Content[v][f]

\* The manifest about to be written: the hashes are those of the evidence files,
\* and once it is opened there is one for each of them.
ComposedInv(me) ==
  /\ me.listed # {} =>
       /\ Head(me.queue) = Manifest
       /\ Evidence \subseteq me.listed
       /\ \A f \in DOMAIN me.hashes \cap Evidence : me.hashes[f] = Content[me.version][f]
  /\ me.opened /\ Head(me.queue) = Manifest =>
       me.listed # {} /\ me.listed = DOMAIN me.hashes

\* What a run beside which no other wrote has done: every file it need not write
\* any more is of its version, and the manifest is of those files.
WorkInv(me, tree) ==
  /\ \A f \in Generated \ InOrder(me.queue) : tree[f] = Content[me.version][f]
  /\ me.opened => tree[Head(me.queue)] = Torn
  /\ IF Manifest \in InOrder(me.queue) THEN ComposedInv(me)
     ELSE VouchesFor(tree[Manifest], me.version)

AloneInv(p) ==
  publisher[p].alone =>
    /\ publisher[p].pc # "idle"
    /\ \A q \in Publishers \ {p} : publisher[q].pc # "writing"
    /\ WorkInv(publisher[p], accepted)

TreeInv ==
  /\ sources \in Versions
  /\ edits \in 0..MaxEdits
  /\ accepted = [f \in Names |-> accepted[f]]
  /\ \A f \in Names \ {Manifest} : accepted[f] \in FileContents(f)
  /\ \A f \in Generated : accepted[f] # Absent

HasDemoFields(me) == me = [field \in {"pc", "generated", "listed", "read"} |-> me[field]]

DemoInv ==
  /\ HasDemoFields(demo)
  /\ demo.pc \in {"idle", "generated", "comparing", "printed", "failed"}
  /\ demo.generated \in {Nothing} \cup {Bundle(v) : v \in Publishable}
  /\ demo.read = [f \in DOMAIN demo.read |-> demo.read[f]]
  /\ DOMAIN demo.read \subseteq demo.listed /\ demo.listed \subseteq Names
  /\ demo.pc = "generated" => demo.read = <<>>
  /\ demo.pc = "comparing" => Generated \subseteq demo.listed
  /\ \A f \in DOMAIN demo.read : demo.read[f] # Absent

PublishersInv ==
  /\ publisher = [p \in Publishers |-> publisher[p]]
  /\ \A p \in Publishers : PublisherInv(publisher[p])

IInv == TreeInv /\ DemoInv /\ PublishersInv /\ \A p \in Publishers : AloneInv(p)

(***************************************************************************)
(* As long as no two processes write at a time whoever writes is alone,    *)
(* and more holds of the manifest: it is torn or of one version that       *)
(* passed, and if it is the manifest of a whole bundle, that bundle stood  *)
(* when it was written.                                                    *)
(***************************************************************************)
OneAtATime ==
  \A p, q \in Publishers :
    publisher[p].pc = "writing" /\ publisher[q].pc = "writing" => p = q

ManifestInv ==
  \/ accepted[Manifest] = Torn
  \/ \E v \in Publishable : VouchesFor(accepted[Manifest], v)

\* manifest is of no bundle but those that have stood.
OfBundlesThatStood(manifest) ==
  \A v \in Versions : manifest = Bundle(v)[Manifest] => v \in stood

OneInv ==
  /\ \A p \in Publishers : publisher[p].pc = "writing" => publisher[p].alone
  /\ ManifestInv
  /\ OfBundlesThatStood(accepted[Manifest])
  /\ Manifest \in DOMAIN demo.read => OfBundlesThatStood(demo.read[Manifest])
  /\ PrintedEvidenceStood

-----------------------------------------------------------------------------
(***************************************************************************)
(* Lists of names.                                                         *)
(***************************************************************************)
\* Taking the first name of a list leaves the others.
LEMMA HeadAndRest ==
  ASSUME NEW S, NEW queue \in Seq(S), queue # <<>>
  PROVE  /\ Tail(queue) \in Seq(S)
         /\ Head(queue) \in S
         /\ InOrder(queue) = {Head(queue)} \cup InOrder(Tail(queue))
         /\ InOrder(queue) \subseteq S
<1>1. Len(queue) \in Nat \ {0} /\ DOMAIN queue = 1..Len(queue)
  OBVIOUS
<1>2. /\ DOMAIN Tail(queue) = 1..(Len(queue) - 1)
      /\ \A i \in 1..(Len(queue) - 1) : Tail(queue)[i] = queue[i + 1]
  BY <1>1
<1>3. Head(queue) = queue[1]
  OBVIOUS
<1>4. ASSUME NEW i \in 1..Len(queue)
      PROVE  queue[i] \in {Head(queue)} \cup InOrder(Tail(queue))
  <2>1. CASE i = 1
    BY <2>1, <1>3
  <2>2. CASE i # 1
    <3>1. i - 1 \in 1..(Len(queue) - 1) /\ Tail(queue)[i - 1] = queue[i]
      BY <2>2, <1>1, <1>2
    <3> QED
      BY <3>1, <1>2 DEF InOrder
  <2> QED
    BY <2>1, <2>2
<1>5. ASSUME NEW i \in 1..(Len(queue) - 1) PROVE Tail(queue)[i] \in InOrder(queue)
  <2>1. i + 1 \in 1..Len(queue) /\ Tail(queue)[i] = queue[i + 1]
    BY <1>1, <1>2
  <2> QED
    BY <2>1, <1>1 DEF InOrder
<1>6. Head(queue) \in InOrder(queue)
  BY <1>1, <1>3 DEF InOrder
<1>7. InOrder(queue) \subseteq {Head(queue)} \cup InOrder(Tail(queue))
  BY <1>4, <1>1 DEF InOrder
<1>8. InOrder(Tail(queue)) \subseteq InOrder(queue)
  BY <1>5, <1>2 DEF InOrder
<1>9. InOrder(queue) \subseteq S
  BY <1>1 DEF InOrder
<1>10. Tail(queue) \in Seq(S) /\ Head(queue) \in S
  OBVIOUS
<1> HIDE DEF InOrder
<1> QED
  BY <1>6, <1>7, <1>8, <1>9, <1>10

\* No evidence file comes after the manifest, and the manifest comes once.
LEMMA ManifestIsLast ==
  ASSUME NEW queue \in Seq(Written), queue # <<>>, Ordered(queue)
  PROVE  /\ Ordered(Tail(queue))
         /\ Head(queue) = Manifest =>
              InOrder(queue) \cap Evidence = {} /\ Manifest \notin InOrder(Tail(queue))
         /\ Manifest \notin InOrder(queue) => InOrder(queue) \cap Evidence = {}
<1>1. Len(queue) \in Nat \ {0} /\ DOMAIN queue = 1..Len(queue)
  OBVIOUS
<1>2. /\ DOMAIN Tail(queue) = 1..(Len(queue) - 1)
      /\ \A i \in 1..(Len(queue) - 1) : Tail(queue)[i] = queue[i + 1]
  BY <1>1
<1>3. Head(queue) = queue[1]
  OBVIOUS
<1>4. Manifest \notin Schemas /\ Manifest \notin Evidence /\ Evidence \cap Schemas = {}
  BY NamesDistinct DEF Schemas, Evidence, Generated
<1>5. Ordered(Tail(queue))
  <2>1. ASSUME NEW i \in 1..(Len(queue) - 1), Tail(queue)[i] \in Evidence
        PROVE  \E j \in 1..(Len(queue) - 1) : i < j /\ Tail(queue)[j] = Manifest
    <3>1. i + 1 \in DOMAIN queue /\ queue[i + 1] \in Evidence
      BY <2>1, <1>1, <1>2
    <3>2. PICK j \in DOMAIN queue : i + 1 < j /\ queue[j] = Manifest
      BY <3>1 DEF Ordered
    <3>3. j - 1 \in 1..(Len(queue) - 1) /\ i < j - 1 /\ Tail(queue)[j - 1] = Manifest
      BY <3>2, <1>1, <1>2
    <3> QED
      BY <3>3
  <2>2. ASSUME NEW i \in 1..(Len(queue) - 1), NEW j \in 1..(Len(queue) - 1),
               i < j, Tail(queue)[i] = Manifest
        PROVE  Tail(queue)[j] \in Schemas
    <3>1. /\ i + 1 \in DOMAIN queue /\ j + 1 \in DOMAIN queue /\ i + 1 < j + 1
          /\ queue[i + 1] = Manifest /\ Tail(queue)[j] = queue[j + 1]
      BY <2>2, <1>1, <1>2
    <3> QED
      BY <3>1 DEF Ordered
  <2> QED
    BY <2>1, <2>2, <1>2 DEF Ordered
<1>6. ASSUME Head(queue) = Manifest, NEW j \in 2..Len(queue) PROVE queue[j] \in Schemas
  <2>1. 1 \in DOMAIN queue /\ j \in DOMAIN queue /\ 1 < j /\ queue[1] = Manifest
    BY <1>6, <1>1, <1>3
  <2> QED
    BY <2>1 DEF Ordered
<1>7. ASSUME Head(queue) = Manifest
      PROVE  InOrder(queue) \cap Evidence = {} /\ Manifest \notin InOrder(Tail(queue))
  <2>1. ASSUME NEW i \in DOMAIN queue PROVE queue[i] \notin Evidence
    <3>1. i = 1 \/ i \in 2..Len(queue)
      BY <1>1
    <3> QED
      BY <3>1, <1>6, <1>7, <1>3, <1>4
  <2>2. ASSUME NEW i \in DOMAIN Tail(queue) PROVE Tail(queue)[i] # Manifest
    <3>1. i + 1 \in 2..Len(queue) /\ Tail(queue)[i] = queue[i + 1]
      BY <1>1, <1>2
    <3> QED
      BY <3>1, <1>6, <1>7, <1>4
  <2> QED
    BY <2>1, <2>2 DEF InOrder
<1>8. ASSUME Manifest \notin InOrder(queue) PROVE InOrder(queue) \cap Evidence = {}
  BY <1>8 DEF Ordered, InOrder
<1> QED
  BY <1>5, <1>7, <1>8

\* A run_golden starts with every generated file and the manifest to write.
LEMMA WriteOrderIsOrdered ==
  /\ WriteOrder \in Seq(Written)
  /\ Ordered(WriteOrder)
  /\ WriteOrder # <<>>
  /\ InOrder(WriteOrder) = Written
<1> DEFINE e == Len(EvidenceFiles)
           s == Len(SchemaFiles)
<1>1. /\ e \in Nat /\ s \in Nat
      /\ DOMAIN EvidenceFiles = 1..e /\ DOMAIN SchemaFiles = 1..s
  BY FilesGiven
<1>2. \A i \in 1..e : EvidenceFiles[i] \in Evidence
  BY <1>1 DEF Evidence, InOrder
<1>3. \A i \in 1..s : SchemaFiles[i] \in Schemas
  BY <1>1 DEF Schemas, InOrder
<1>4. /\ WriteOrder \in Seq(Written)
      /\ Len(WriteOrder) = e + 1 + s
      /\ DOMAIN WriteOrder = 1..(e + 1 + s)
  <2>1. /\ EvidenceFiles \in Seq(Written) /\ SchemaFiles \in Seq(Written)
        /\ <<Manifest>> \in Seq(Written)
    <3>1. Evidence \subseteq Written /\ Schemas \subseteq Written
      BY DEF Evidence, Schemas, Written, Generated
    <3> QED
      BY <3>1, FilesGiven, SeqMonotonic DEF Evidence, Schemas, Written
  <2> QED
    BY <2>1 DEF WriteOrder
<1>5. /\ \A i \in 1..e : WriteOrder[i] = EvidenceFiles[i]
      /\ WriteOrder[e + 1] = Manifest
      /\ \A i \in 1..s : WriteOrder[e + 1 + i] = SchemaFiles[i]
  BY <1>1, FilesGiven DEF WriteOrder
<1> HIDE DEF e, s
<1>6. ASSUME NEW i \in 1..(e + 1 + s)
      PROVE  \/ i < e + 1 /\ WriteOrder[i] \in Evidence
             \/ i = e + 1 /\ WriteOrder[i] = Manifest
             \/ e + 1 < i /\ WriteOrder[i] \in Schemas
  <2>1. i \in 1..e \/ i = e + 1 \/ (e + 1 < i /\ i - (e + 1) \in 1..s)
    BY <1>1
  <2>2. CASE e + 1 < i /\ i - (e + 1) \in 1..s
    <3>1. WriteOrder[i] = SchemaFiles[i - (e + 1)]
      BY <2>2, <1>1, <1>5
    <3> QED
      BY <3>1, <2>2, <1>3
  <2> QED
    BY <2>1, <2>2, <1>1, <1>5, <1>2
<1>7. Manifest \notin Schemas /\ Manifest \notin Evidence /\ Evidence \cap Schemas = {}
  BY NamesDistinct DEF Schemas, Evidence, Generated
<1>8. e + 1 \in DOMAIN WriteOrder
  BY <1>1, <1>4
<1>9. Ordered(WriteOrder)
  <2>1. ASSUME NEW i \in DOMAIN WriteOrder, WriteOrder[i] \in Evidence
        PROVE  i < e + 1
    BY <2>1, <1>4, <1>6, <1>7
  <2>2. ASSUME NEW i \in DOMAIN WriteOrder, NEW j \in DOMAIN WriteOrder,
               i < j, WriteOrder[i] = Manifest
        PROVE  WriteOrder[j] \in Schemas
    <3>1. i = e + 1
      BY <2>2, <1>4, <1>6, <1>7
    <3> QED
      BY <3>1, <2>2, <1>1, <1>4, <1>6
  <2> QED
    BY <2>1, <2>2, <1>8, <1>5 DEF Ordered
<1>10. InOrder(WriteOrder) = Written
  <2>1. InOrder(WriteOrder) \subseteq Written
    BY <1>4, <1>6 DEF InOrder, Written, Generated, Evidence, Schemas
  <2>2. ASSUME NEW f \in Written PROVE f \in InOrder(WriteOrder)
    <3>1. CASE f = Manifest
      BY <3>1, <1>8, <1>5 DEF InOrder
    <3>2. CASE f \in Evidence
      <4>1. PICK i \in 1..e : f = EvidenceFiles[i]
        BY <3>2, <1>1 DEF Evidence, InOrder
      <4>2. i \in DOMAIN WriteOrder
        BY <1>1, <1>4
      <4> QED
        BY <4>1, <4>2, <1>5 DEF InOrder
    <3>3. CASE f \in Schemas
      <4>1. PICK i \in 1..s : f = SchemaFiles[i]
        BY <3>3, <1>1 DEF Schemas, InOrder
      <4>2. e + 1 + i \in DOMAIN WriteOrder
        BY <1>1, <1>4
      <4> QED
        BY <4>1, <4>2, <1>5 DEF InOrder
    <3> QED
      BY <3>1, <3>2, <3>3 DEF Written, Generated, Evidence, Schemas
  <2> QED
    BY <2>1, <2>2
<1> QED
  BY <1>4, <1>9, <1>10, <1>8

-----------------------------------------------------------------------------
(***************************************************************************)
(* The invariant holds at the start and every step keeps it.               *)
(***************************************************************************)
\* What is known of a generated file and of the manifest.
LEMMA NamesAndContents ==
  /\ Evidence \subseteq Generated /\ Schemas \subseteq Generated
  /\ Generated = Evidence \cup Schemas
  /\ Manifest \notin Generated /\ Stray \notin Generated /\ Stray # Manifest
  /\ Manifest \in Names /\ Stray \in Names /\ Generated \subseteq Names
  /\ Written \subseteq Names /\ Evidence \subseteq EvidenceNames \ {Manifest}
  /\ EvidenceNames \subseteq Names
  /\ \A f \in Generated, v \in Versions :
       /\ Content[v][f] \notin {Absent, Torn, Mixed}
       /\ Content[v][f] \in FileContents(f)
       /\ Bundle(v)[f] = Content[v][f]
BY NamesDistinct, MarkersDistinct
DEF Evidence, Schemas, Written, Generated, Names, EvidenceNames, FileContents, Bundle

\* The manifest of a whole bundle is of its version.
LEMMA BundleManifest ==
  ASSUME NEW v \in Versions
  PROVE  /\ Bundle(v)[Manifest] = ManifestOf(v, [g \in Evidence |-> Content[v][g]])
         /\ Bundle(v)[Stray] = Absent
         /\ VouchesFor(Bundle(v)[Manifest], v)
<1>1. Bundle(v)[Manifest] = ManifestOf(v, [g \in Evidence |-> Content[v][g]])
  BY NamesAndContents DEF Bundle, Evidence
<1>2. Bundle(v)[Stray] = Absent
  BY NamesAndContents DEF Bundle
<1>3. VouchesFor(Bundle(v)[Manifest], v)
  BY <1>1 DEF VouchesFor, ManifestOf
<1> QED
  BY <1>1, <1>2, <1>3

LEMMA IdleIsSound == PublisherInv(Idle) /\ Idle.alone = FALSE /\ Idle.pc = "idle"
<1>1. <<>> \in Seq(Written) /\ Ordered(<<>>)
  BY DEF Ordered
<1>2. HasFields(Idle)
  BY DEF HasFields, Fields, Idle
<1> QED
  BY <1>1, <1>2, VersionsGiven DEF PublisherInv, Idle

LEMMA NoDemoFields ==
  /\ HasDemoFields(NoDemo)
  /\ NoDemo.pc = "idle" /\ NoDemo.generated = Nothing
  /\ NoDemo.listed = {} /\ NoDemo.read = <<>>
BY DEF NoDemo, HasDemoFields

LEMMA InitIInv == Init => IInv
<1> SUFFICES ASSUME Init PROVE IInv
  OBVIOUS
<1>1. TreeInv
  <2>1. accepted = [f \in Names |-> accepted[f]] /\ Original \in Versions
    BY VersionsGiven DEF Init, Bundle
  <2>2. \A f \in Generated : accepted[f] = Content[Original][f]
    BY <2>1, NamesAndContents DEF Init
  <2>3. accepted[Stray] = Absent
    BY <2>1, BundleManifest DEF Init
  <2>4. Names \ {Manifest} = Generated \cup {Stray}
    BY NamesAndContents DEF Names
  <2>5. \A f \in Names \ {Manifest} : accepted[f] \in FileContents(f)
    <3>1. accepted[Stray] \in FileContents(Stray)
      BY <2>3 DEF FileContents
    <3> QED
      BY <3>1, <2>1, <2>2, <2>4, NamesAndContents
  <2>6. \A f \in Generated : accepted[f] # Absent
    BY <2>1, <2>2, NamesAndContents
  <2> QED
    BY <2>1, <2>5, <2>6, EditsBounded DEF Init, TreeInv
<1>2. DemoInv
  BY NoDemoFields DEF Init, DemoInv
<1>3. /\ publisher = [p \in Publishers |-> publisher[p]]
      /\ \A p \in Publishers : publisher[p] = Idle
  BY DEF Init
<1> QED
  BY <1>1, <1>2, <1>3, IdleIsSound DEF IInv, PublishersInv, AloneInv

\* The variables no step of run_golden touches but by writing a file.
LEMMA FilesKept ==
  ASSUME TreeInv, UNCHANGED <<sources, edits>>,
         \/ accepted' = accepted
         \/ \E f \in Written : \E bytes :
               /\ accepted' = [accepted EXCEPT ![f] = bytes]
               /\ f # Manifest => bytes # Absent /\ bytes \in FileContents(f)
  PROVE  TreeInv'
<1>1. CASE accepted' = accepted
  BY <1>1 DEF TreeInv, FileContents
<1>2. ASSUME NEW f \in Written, NEW bytes,
             accepted' = [accepted EXCEPT ![f] = bytes],
             f # Manifest => bytes # Absent /\ bytes \in FileContents(f)
      PROVE  TreeInv'
  <2>1. /\ accepted' = [g \in Names |-> accepted'[g]]
        /\ \A g \in Names : accepted'[g] = IF g = f THEN bytes ELSE accepted[g]
    BY <1>2 DEF TreeInv
  <2>2. Generated \subseteq Names /\ Manifest \notin Generated
    BY NamesAndContents
  <2> QED
    BY <2>1, <2>2, <1>2 DEF TreeInv, FileContents
<1> QED
  BY <1>1, <1>2

LEMMA DemoKept ==
  ASSUME DemoInv, UNCHANGED demo
  PROVE  DemoInv'
BY DEF DemoInv, HasDemoFields

\* The run of p goes on; nobody else is alone while it writes.
LEMMA RunMoves ==
  ASSUME IInv, NEW p \in Publishers, NEW next,
         publisher' = [publisher EXCEPT ![p] = next],
         publisher[p].pc = "writing",
         TreeInv', UNCHANGED demo,
         PublisherInv(next),
         next.alone => /\ publisher[p].alone
                       /\ next.pc # "idle"
                       /\ WorkInv(next, accepted')
  PROVE  IInv'
<1>1. /\ publisher' = [q \in Publishers |-> publisher'[q]]
      /\ \A q \in Publishers : publisher'[q] = IF q = p THEN next ELSE publisher[q]
  BY DEF IInv, PublishersInv
<1>2. PublishersInv'
  <2>1. ASSUME NEW q \in Publishers PROVE PublisherInv(publisher'[q])
    BY <1>1 DEF IInv, PublishersInv
  <2> QED
    BY <2>1, <1>1 DEF PublishersInv, PublisherInv, HasFields
<1>3. ASSUME NEW q \in Publishers PROVE AloneInv(q)'
  <2>1. CASE q # p
    BY <2>1, <1>1 DEF IInv, AloneInv
  <2>2. CASE q = p
    <3>1. \A r \in Publishers \ {q} : publisher[q].alone => publisher'[r].pc # "writing"
      BY <2>2, <1>1 DEF IInv, AloneInv
    <3> QED
      BY <3>1, <2>2, <1>1 DEF AloneInv
  <2> QED
    BY <2>1, <2>2
<1>4. DemoInv'
  BY DemoKept DEF IInv
<1> QED
  BY <1>2, <1>3, <1>4 DEF IInv

\* Opening the next file leaves what is known of the others.
LEMMA OpenKeeps ==
  ASSUME IInv, NEW p \in Publishers, Open(p)
  PROVE  IInv'
<1> DEFINE me   == publisher[p]
           f    == Head(me.queue)
           next == [me EXCEPT !.opened = TRUE]
<1>1. /\ me.pc = "writing" /\ me.queue # <<>>
      /\ f = Manifest => me.listed = DOMAIN me.hashes /\ me.listed # {}
      /\ accepted' = [accepted EXCEPT ![f] = Torn]
      /\ UNCHANGED <<sources, edits, demo, stood>>
  BY DEF Open
<1>2. PublisherInv(me) /\ AloneInv(p) /\ TreeInv
  BY DEF IInv, PublishersInv
<1>3. /\ publisher' = [publisher EXCEPT ![p] = next]
      /\ HasFields(next)
      /\ next.pc = me.pc /\ next.version = me.version /\ next.queue = me.queue
      /\ next.opened /\ next.listed = me.listed /\ next.hashes = me.hashes
      /\ next.alone = me.alone
  <2>1. HasFields(me) /\ publisher = [q \in Publishers |-> publisher[q]]
    BY <1>2 DEF IInv, PublishersInv, PublisherInv
  <2>2. publisher' = [publisher EXCEPT ![p] = next]
    BY <2>1 DEF Open
  <2> QED
    BY <2>1, <2>2 DEF HasFields, Fields
<1>4. f \in Written /\ f \in InOrder(me.queue)
  BY <1>1, <1>2, HeadAndRest DEF PublisherInv
<1>5. TreeInv'
  <2>1. f # Manifest => Torn # Absent /\ Torn \in FileContents(f)
    BY MarkersDistinct DEF FileContents
  <2> QED
    BY <2>1, <1>1, <1>2, <1>4, FilesKept
<1>6. PublisherInv(next)
  <2> HIDE DEF next
  <2> QED
    BY <1>1, <1>2, <1>3 DEF PublisherInv
<1>7. ASSUME me.alone PROVE WorkInv(next, accepted')
  <2>1. WorkInv(me, accepted)
    BY <1>2, <1>7 DEF AloneInv
  <2>2. /\ f \in Names /\ Manifest \in Names /\ Generated \subseteq Names
        /\ accepted'[f] = Torn
        /\ \A g \in Names \ {f} : accepted'[g] = accepted[g]
    BY <1>1, <1>2, <1>4, NamesAndContents DEF TreeInv
  <2>3. \A g \in Generated \ InOrder(me.queue) : accepted'[g] = Content[me.version][g]
    BY <2>1, <2>2, <1>4 DEF WorkInv
  <2>4. ASSUME Manifest \in InOrder(me.queue) PROVE ComposedInv(next)
    <3>1. ComposedInv(me)
      BY <2>1, <2>4 DEF WorkInv
    <3> QED
      BY <3>1, <1>1, <1>3 DEF ComposedInv
  <2>5. ASSUME Manifest \notin InOrder(me.queue)
        PROVE  VouchesFor(accepted'[Manifest], me.version)
    <3>1. f # Manifest
      BY <2>5, <1>4
    <3> QED
      BY <3>1, <2>1, <2>2, <2>5 DEF WorkInv
  <2> QED
    BY <2>2, <2>3, <2>4, <2>5, <1>3 DEF WorkInv
<1> HIDE DEF next
<1> QED
  BY <1>1, <1>3, <1>5, <1>6, <1>7, RunMoves

\* A file is written over what is in it; of a run that is alone, over nothing.
LEMMA WriteKeeps ==
  ASSUME IInv, NEW p \in Publishers, Write(p)
  PROVE  /\ IInv'
         /\ publisher[p].alone /\ Head(publisher[p].queue) = Manifest =>
              /\ accepted'[Manifest] = ManifestOf(publisher[p].version, publisher[p].hashes)
              /\ \A g \in Evidence : accepted'[g] = Content[publisher[p].version][g]
              /\ VouchesFor(accepted'[Manifest], publisher[p].version)
<1> DEFINE me   == publisher[p]
           f    == Head(me.queue)
           mine == IF f = Manifest THEN ManifestOf(me.version, me.hashes)
                   ELSE Content[me.version][f]
           next == [me EXCEPT !.opened = FALSE, !.queue = Tail(me.queue)]
<1>1. /\ me.pc = "writing" /\ me.queue # <<>> /\ me.opened
      /\ UNCHANGED <<sources, edits, demo>>
  BY DEF Write
<1>2. PICK bytes \in Overwritten(mine, accepted[f]) :
        accepted' = [accepted EXCEPT ![f] = bytes]
  BY DEF Write
<1>3. PublisherInv(me) /\ AloneInv(p) /\ TreeInv
  BY DEF IInv, PublishersInv
<1>4. /\ publisher' = [publisher EXCEPT ![p] = next]
      /\ HasFields(next)
      /\ next.pc = me.pc /\ next.version = me.version /\ next.queue = Tail(me.queue)
      /\ next.opened = FALSE /\ next.listed = me.listed /\ next.hashes = me.hashes
      /\ next.alone = me.alone
  <2>1. HasFields(me) /\ publisher = [q \in Publishers |-> publisher[q]]
    BY <1>3 DEF IInv, PublishersInv, PublisherInv
  <2>2. publisher' = [publisher EXCEPT ![p] = next]
    BY <2>1 DEF Write
  <2> QED
    BY <2>1, <2>2 DEF HasFields, Fields
<1>5. /\ me.queue \in Seq(Written) /\ Ordered(me.queue)
      /\ me.version \in Versions
  BY <1>3, VersionsGiven DEF PublisherInv
<1>6. /\ Tail(me.queue) \in Seq(Written)
      /\ f \in Written
      /\ InOrder(me.queue) = {f} \cup InOrder(Tail(me.queue))
  BY <1>1, <1>5, HeadAndRest
<1>7. /\ Ordered(Tail(me.queue))
      /\ f = Manifest => /\ InOrder(me.queue) \cap Evidence = {}
                         /\ Manifest \notin InOrder(Tail(me.queue))
  BY <1>1, <1>5, ManifestIsLast
<1>8. TreeInv'
  <2>1. ASSUME f # Manifest PROVE bytes # Absent /\ bytes \in FileContents(f)
    <3>1. f \in Generated /\ mine = Content[me.version][f]
      BY <2>1, <1>6 DEF Written
    <3>2. mine \notin {Absent, Torn, Mixed} /\ mine \in FileContents(f)
      BY <3>1, <1>5, NamesAndContents
    <3>3. Mixed # Absent /\ Mixed \in FileContents(f)
      BY MarkersDistinct DEF FileContents
    <3> HIDE DEF mine, f
    <3> QED
      BY <3>2, <3>3, <1>2 DEF Overwritten
  <2> HIDE DEF f
  <2> QED
    BY <2>1, <1>1, <1>2, <1>3, <1>6, FilesKept
<1>9. PublisherInv(next)
  <2> HIDE DEF next
  <2> QED
    BY <1>3, <1>4, <1>6, <1>7, <1>1 DEF PublisherInv
<1>10. /\ f \in Names /\ Manifest \in Names /\ Generated \subseteq Names
       /\ accepted'[f] = bytes
       /\ \A g \in Names \ {f} : accepted'[g] = accepted[g]
  BY <1>2, <1>3, <1>6, NamesAndContents DEF TreeInv
<1>11. ASSUME me.alone
       PROVE  WorkInv(me, accepted) /\ accepted'[f] = mine
  <2>1. WorkInv(me, accepted)
    BY <1>3, <1>11 DEF AloneInv
  <2>2. accepted[f] = Torn
    BY <2>1, <1>1 DEF WorkInv
  <2> HIDE DEF mine, f
  <2> QED
    BY <2>1, <2>2, <1>2, <1>10 DEF Overwritten
<1>12. ASSUME me.alone, f = Manifest
       PROVE  /\ accepted'[Manifest] = ManifestOf(me.version, me.hashes)
              /\ \A g \in Evidence : accepted'[g] = Content[me.version][g]
              /\ VouchesFor(accepted'[Manifest], me.version)
  <2>1. WorkInv(me, accepted) /\ accepted'[Manifest] = ManifestOf(me.version, me.hashes)
    BY <1>11, <1>12
  <2>2. ComposedInv(me) /\ InOrder(me.queue) \cap Evidence = {}
    BY <2>1, <1>12, <1>6, <1>7 DEF WorkInv
  <2>3. Evidence \subseteq DOMAIN me.hashes
    BY <2>2, <1>12, <1>1 DEF ComposedInv
  <2>4. \A g \in Evidence : me.hashes[g] = Content[me.version][g]
    BY <2>2, <2>3, <1>12, <1>1 DEF ComposedInv
  <2>5. VouchesFor(accepted'[Manifest], me.version)
    BY <2>1, <2>3, <2>4 DEF VouchesFor, ManifestOf
  <2>6. \A g \in Evidence : accepted'[g] = Content[me.version][g]
    <3>1. \A g \in Evidence : g \in Generated \ InOrder(me.queue) /\ g # Manifest
      BY <2>2, NamesAndContents
    <3> QED
      BY <3>1, <2>1, <1>10, <1>12 DEF WorkInv
  <2> QED
    BY <2>1, <2>5, <2>6
<1>13. ASSUME me.alone PROVE WorkInv(next, accepted')
  <2>1. \A g \in Generated \ InOrder(Tail(me.queue)) : accepted'[g] = Content[me.version][g]
    <3> SUFFICES ASSUME NEW g \in Generated \ InOrder(Tail(me.queue))
                 PROVE  accepted'[g] = Content[me.version][g]
      OBVIOUS
    <3>1. CASE g = f
      <4>1. f # Manifest
        BY <3>1, NamesAndContents
      <4> QED
        BY <4>1, <3>1, <1>11, <1>13
    <3>2. CASE g # f
      BY <3>2, <1>6, <1>10, <1>11, <1>13 DEF WorkInv
    <3> QED
      BY <3>1, <3>2
  <2>2. ASSUME Manifest \in InOrder(Tail(me.queue)) PROVE ComposedInv(next)
    <3>1. f # Manifest /\ Manifest \in InOrder(me.queue)
      BY <2>2, <1>6, <1>7
    <3>2. ComposedInv(me)
      BY <3>1, <1>11, <1>13 DEF WorkInv
    <3> QED
      BY <3>1, <3>2, <1>4 DEF ComposedInv
  <2>3. ASSUME Manifest \notin InOrder(Tail(me.queue))
        PROVE  VouchesFor(accepted'[Manifest], me.version)
    <3>1. CASE f = Manifest
      BY <3>1, <1>12, <1>13
    <3>2. CASE f # Manifest
      <4>1. Manifest \notin InOrder(me.queue) /\ accepted'[Manifest] = accepted[Manifest]
        BY <3>2, <2>3, <1>6, <1>10
      <4> QED
        BY <4>1, <1>11, <1>13 DEF WorkInv
    <3> QED
      BY <3>1, <3>2
  <2> QED
    BY <2>1, <2>2, <2>3, <1>4 DEF WorkInv
<1>14. next.pc = me.pc /\ next.alone = me.alone
  BY <1>4
<1>15. IInv'
  <2> HIDE DEF next, f, mine
  <2> QED
    BY <1>1, <1>4, <1>8, <1>9, <1>13, <1>14, RunMoves
<1> QED
  BY <1>12, <1>15

\* The listing has every evidence file, since none is ever absent.
LEMMA ListDirectoryKeeps ==
  ASSUME IInv, NEW p \in Publishers, ListDirectory(p)
  PROVE  IInv'
<1> DEFINE me   == publisher[p]
           next == [me EXCEPT !.listed = ListedByManifest(accepted)]
<1>1. /\ me.pc = "writing" /\ me.queue # <<>>
      /\ Head(me.queue) = Manifest /\ me.listed = {}
      /\ UNCHANGED <<sources, edits, accepted, demo, stood>>
  BY DEF ListDirectory
<1>2. PublisherInv(me) /\ AloneInv(p) /\ TreeInv
  BY DEF IInv, PublishersInv
<1>3. /\ publisher' = [publisher EXCEPT ![p] = next]
      /\ HasFields(next)
      /\ next.pc = me.pc /\ next.version = me.version /\ next.queue = me.queue
      /\ next.opened = me.opened /\ next.listed = ListedByManifest(accepted)
      /\ next.hashes = me.hashes /\ next.alone = me.alone
  <2>1. HasFields(me) /\ publisher = [q \in Publishers |-> publisher[q]]
    BY <1>2 DEF IInv, PublishersInv, PublisherInv
  <2>2. publisher' = [publisher EXCEPT ![p] = next]
    BY <2>1 DEF ListDirectory
  <2> QED
    BY <2>1, <2>2 DEF HasFields, Fields
<1>4. /\ ListedByManifest(accepted) \subseteq EvidenceNames \ {Manifest}
      /\ Evidence \subseteq ListedByManifest(accepted)
  BY <1>2, NamesAndContents DEF ListedByManifest, TreeInv
<1>5. TreeInv'
  BY <1>1, <1>2, FilesKept
<1>6. DOMAIN me.hashes = {}
  BY <1>1, <1>2 DEF PublisherInv
<1> HIDE DEF next
<1>7. PublisherInv(next)
  BY <1>2, <1>3, <1>4, <1>6 DEF PublisherInv
<1>8. ASSUME me.alone PROVE WorkInv(next, accepted')
  <2>1. WorkInv(me, accepted)
    BY <1>2, <1>8 DEF AloneInv
  <2>2. Manifest \in InOrder(me.queue)
    BY <1>1, <1>2, HeadAndRest DEF PublisherInv
  <2>3. ComposedInv(next) /\ ~me.opened
    BY <2>1, <2>2, <1>1, <1>3, <1>4, <1>6 DEF WorkInv, ComposedInv
  <2> QED
    BY <2>1, <2>2, <2>3, <1>1, <1>3 DEF WorkInv
<1> QED
  BY <1>1, <1>3, <1>5, <1>7, <1>8, RunMoves

\* A file that is there is hashed as it is; of a run that is alone, as it wrote it.
LEMMA HashFileKeeps ==
  ASSUME IInv, NEW p \in Publishers, HashFile(p)
  PROVE  IInv'
<1> DEFINE me == publisher[p]
<1>1. PICK f \in me.listed :
        /\ me.pc = "writing"
        /\ ReadNext(f, me.listed \ DOMAIN me.hashes)
        /\ publisher' =
             IF accepted[f] = Absent
             THEN [publisher EXCEPT ![p].listed = @ \ {f}]
             ELSE [publisher EXCEPT
                     ![p].hashes = [g \in DOMAIN me.hashes \cup {f} |->
                                      IF g = f THEN accepted[f] ELSE me.hashes[g]]]
        /\ UNCHANGED <<sources, edits, accepted, demo, stood>>
  BY DEF HashFile
<1>2. PublisherInv(me) /\ AloneInv(p) /\ TreeInv
  BY DEF IInv, PublishersInv
<1>3. f \notin DOMAIN me.hashes
  BY <1>1 DEF ReadNext
<1>4. HasFields(me) /\ publisher = [q \in Publishers |-> publisher[q]]
  BY <1>2 DEF IInv, PublishersInv, PublisherInv
<1>5. TreeInv'
  BY <1>1, <1>2, FilesKept
<1>6. CASE accepted[f] = Absent
  <2> DEFINE next == [me EXCEPT !.listed = me.listed \ {f}]
  <2>1. /\ publisher' = [publisher EXCEPT ![p] = next]
        /\ HasFields(next)
        /\ next.pc = me.pc /\ next.version = me.version /\ next.queue = me.queue
        /\ next.opened = me.opened /\ next.listed = me.listed \ {f}
        /\ next.hashes = me.hashes /\ next.alone = me.alone
    <3>1. publisher' = [publisher EXCEPT ![p] = next]
      BY <1>1, <1>4, <1>6
    <3> QED
      BY <3>1, <1>4 DEF HasFields, Fields
  <2>2. f \notin Evidence
    BY <1>2, <1>6, NamesAndContents DEF TreeInv
  <2> HIDE DEF next
  <2>3. PublisherInv(next)
    BY <1>2, <1>3, <2>1 DEF PublisherInv
  <2>4. ASSUME me.alone PROVE WorkInv(next, accepted')
    <3>1. WorkInv(me, accepted)
      BY <1>2, <2>4 DEF AloneInv
    <3>2. ASSUME ComposedInv(me), ~(me.opened /\ Head(me.queue) = Manifest)
          PROVE  ComposedInv(next)
      BY <3>2, <2>1, <2>2 DEF ComposedInv
    <3>3. ASSUME ComposedInv(me) PROVE ~(me.opened /\ Head(me.queue) = Manifest)
      BY <3>3, <1>3 DEF ComposedInv
    <3> QED
      BY <3>1, <3>2, <3>3, <2>1, <1>1 DEF WorkInv
  <2> QED
    BY <1>1, <1>5, <2>1, <2>3, <2>4, RunMoves
<1>7. CASE accepted[f] # Absent
  <2> DEFINE hashed == [g \in DOMAIN me.hashes \cup {f} |->
                          IF g = f THEN accepted[f] ELSE me.hashes[g]]
             next   == [me EXCEPT !.hashes = hashed]
  <2>1. /\ publisher' = [publisher EXCEPT ![p] = next]
        /\ HasFields(next)
        /\ next.pc = me.pc /\ next.version = me.version /\ next.queue = me.queue
        /\ next.opened = me.opened /\ next.listed = me.listed
        /\ next.hashes = hashed /\ next.alone = me.alone
    <3>1. publisher' = [publisher EXCEPT ![p] = next]
      BY <1>1, <1>4, <1>7
    <3> HIDE DEF hashed
    <3> QED
      BY <3>1, <1>4 DEF HasFields, Fields
  <2>2. /\ DOMAIN hashed = DOMAIN me.hashes \cup {f}
        /\ hashed = [g \in DOMAIN hashed |-> hashed[g]]
        /\ \A g \in DOMAIN hashed : hashed[g] = IF g = f THEN accepted[f] ELSE me.hashes[g]
    OBVIOUS
  <2> HIDE DEF next, hashed
  <2>3. PublisherInv(next)
    BY <1>2, <2>1, <2>2 DEF PublisherInv
  <2>4. ASSUME me.alone PROVE WorkInv(next, accepted')
    <3>1. WorkInv(me, accepted)
      BY <1>2, <2>4 DEF AloneInv
    <3>2. ASSUME ComposedInv(me), Manifest \in InOrder(me.queue) PROVE ComposedInv(next)
      <4>1. /\ Head(me.queue) = Manifest
            /\ Evidence \subseteq me.listed
            /\ \A g \in DOMAIN me.hashes \cap Evidence : me.hashes[g] = Content[me.version][g]
            /\ ~me.opened
        BY <3>2, <1>1, <1>3 DEF ComposedInv
      <4>2. me.queue \in Seq(Written) /\ me.queue # <<>> /\ Ordered(me.queue)
        BY <3>2, <1>2 DEF PublisherInv, InOrder
      <4>3. InOrder(me.queue) \cap Evidence = {}
        BY <4>1, <4>2, ManifestIsLast
      <4>4. f \in Evidence => accepted[f] = Content[me.version][f]
        BY <4>3, <3>1, NamesAndContents DEF WorkInv
      <4> QED
        BY <4>1, <4>4, <2>1, <2>2 DEF ComposedInv
    <3> QED
      BY <3>1, <3>2, <2>1, <1>1 DEF WorkInv
  <2> QED
    BY <1>1, <1>5, <2>1, <2>3, <2>4, RunMoves
<1> QED
  BY <1>6, <1>7

\* A run that has nothing left to write has written everything.
LEMMA FinishKeeps ==
  ASSUME IInv, NEW p \in Publishers, Finish(p)
  PROVE  IInv'
<1> DEFINE me   == publisher[p]
           next == [me EXCEPT !.pc = "published"]
<1>1. /\ me.pc = "writing" /\ me.queue = <<>>
      /\ UNCHANGED <<sources, edits, accepted, demo, stood>>
  BY DEF Finish
<1>2. PublisherInv(me) /\ AloneInv(p) /\ TreeInv
  BY DEF IInv, PublishersInv
<1>3. /\ publisher' = [publisher EXCEPT ![p] = next]
      /\ HasFields(next)
      /\ next.pc = "published" /\ next.version = me.version /\ next.queue = me.queue
      /\ next.opened = me.opened /\ next.listed = me.listed
      /\ next.hashes = me.hashes /\ next.alone = me.alone
  <2>1. HasFields(me) /\ publisher = [q \in Publishers |-> publisher[q]]
    BY <1>2 DEF IInv, PublishersInv, PublisherInv
  <2>2. publisher' = [publisher EXCEPT ![p] = next]
    BY <2>1 DEF Finish
  <2> QED
    BY <2>1, <2>2 DEF HasFields, Fields
<1>4. TreeInv'
  BY <1>1, <1>2, FilesKept
<1> HIDE DEF next
<1>5. PublisherInv(next)
  BY <1>1, <1>2, <1>3 DEF PublisherInv
<1>6. ASSUME me.alone PROVE WorkInv(next, accepted')
  <2>1. WorkInv(me, accepted) /\ ~me.opened
    BY <1>1, <1>2, <1>6 DEF AloneInv, PublisherInv
  <2>2. Manifest \notin InOrder(me.queue)
    BY <1>1 DEF InOrder
  <2> QED
    BY <2>1, <2>2, <1>1, <1>3 DEF WorkInv
<1> QED
  BY <1>1, <1>3, <1>4, <1>5, <1>6, RunMoves

\* A killed run leaves its files to a run that cannot have been alone.
LEMMA CrashKeeps ==
  ASSUME IInv, NEW p \in Publishers, Crash(p)
  PROVE  IInv'
<1>1. /\ publisher[p].pc = "writing"
      /\ publisher' = [publisher EXCEPT ![p] = Idle]
      /\ UNCHANGED <<sources, edits, accepted, demo, stood>>
  BY DEF Crash
<1>2. TreeInv'
  BY <1>1, FilesKept DEF IInv
<1> QED
  BY <1>1, <1>2, IdleIsSound, RunMoves

LEMMA ExitKeeps ==
  ASSUME IInv, NEW p \in Publishers, Exit(p)
  PROVE  IInv'
<1>1. /\ publisher[p].pc = "published"
      /\ publisher' = [publisher EXCEPT ![p] = Idle]
      /\ UNCHANGED <<sources, edits, accepted, demo, stood>>
  BY DEF Exit
<1>2. TreeInv' /\ DemoInv'
  BY <1>1, FilesKept, DemoKept DEF IInv
<1>3. /\ publisher' = [q \in Publishers |-> publisher'[q]]
      /\ \A q \in Publishers : publisher'[q] = IF q = p THEN Idle ELSE publisher[q]
  BY <1>1 DEF IInv, PublishersInv
<1>4. PublishersInv'
  <2>1. ASSUME NEW q \in Publishers PROVE PublisherInv(publisher'[q])
    BY <1>3, IdleIsSound DEF IInv, PublishersInv
  <2> QED
    BY <2>1, <1>3 DEF PublishersInv, PublisherInv, HasFields
<1>5. ASSUME NEW q \in Publishers PROVE AloneInv(q)'
  <2>1. \A r \in Publishers : publisher'[r].pc = "writing" => publisher[r].pc = "writing"
    BY <1>3, IdleIsSound
  <2>2. publisher'[q].alone => q # p /\ publisher'[q] = publisher[q]
    BY <1>3, IdleIsSound
  <2> QED
    BY <2>1, <2>2, <1>1 DEF IInv, AloneInv, WorkInv
<1> QED
  BY <1>2, <1>4, <1>5 DEF IInv

\* A run that starts has everything to write, and nobody else is alone any more.
LEMMA ExecuteKeeps ==
  ASSUME IInv, NEW p \in Publishers, Execute(p)
  PROVE  /\ IInv'
         /\ \A q \in Publishers :
              publisher'[q].pc = IF q = p THEN "writing" ELSE publisher[q].pc
         /\ publisher'[p].alone <=> \A q \in Publishers : publisher[q].pc # "writing"
<1> DEFINE alone == \A other \in Publishers : publisher[other].pc # "writing"
           begun == [Idle EXCEPT !.pc = "writing", !.version = sources,
                       !.queue = WriteOrder, !.alone = alone]
           rest(q) == [publisher[q] EXCEPT !.alone = FALSE]
<1>1. /\ publisher[p].pc = "idle"
      /\ sources \in Publishable
      /\ publisher' = [q \in Publishers |-> IF q # p THEN rest(q) ELSE begun]
      /\ UNCHANGED <<sources, edits, accepted, demo, stood>>
  BY DEF Execute, Passes
<1>2. TreeInv' /\ DemoInv'
  BY <1>1, FilesKept, DemoKept DEF IInv
<1>3. /\ HasFields(begun)
      /\ begun.pc = "writing" /\ begun.version = sources /\ begun.queue = WriteOrder
      /\ begun.opened = FALSE /\ begun.listed = {} /\ begun.hashes = <<>>
      /\ begun.alone = alone
  <2> HIDE DEF alone
  <2> QED
    BY DEF Idle, HasFields, Fields
<1>4. ASSUME NEW q \in Publishers
      PROVE  /\ HasFields(rest(q))
             /\ rest(q).pc = publisher[q].pc /\ rest(q).version = publisher[q].version
             /\ rest(q).queue = publisher[q].queue /\ rest(q).opened = publisher[q].opened
             /\ rest(q).listed = publisher[q].listed /\ rest(q).hashes = publisher[q].hashes
             /\ rest(q).alone = FALSE
  <2>1. HasFields(publisher[q])
    BY DEF IInv, PublishersInv, PublisherInv
  <2> QED
    BY <2>1 DEF HasFields, Fields
<1>5. alone \in BOOLEAN
  OBVIOUS
<1> HIDE DEF alone, begun, rest
<1>6. PublisherInv(begun)
  <2>1. /\ begun.hashes = [f \in DOMAIN begun.hashes |-> begun.hashes[f]]
        /\ DOMAIN begun.hashes \subseteq begun.listed
        /\ begun.listed \subseteq EvidenceNames \ {Manifest}
    BY <1>3
  <2>2. begun.opened \in BOOLEAN /\ begun.alone \in BOOLEAN /\ ~begun.opened
    BY <1>3, <1>5
  <2>3. begun.queue \in Seq(Written) /\ Ordered(begun.queue)
    BY <1>3, WriteOrderIsOrdered
  <2>4. HasFields(begun) /\ begun.pc = "writing" /\ begun.version \in Publishable
    BY <1>1, <1>3
  <2> QED
    BY <2>1, <2>2, <2>3, <2>4 DEF PublisherInv
<1>7. ASSUME NEW q \in Publishers PROVE PublisherInv(rest(q))
  BY <1>4 DEF IInv, PublishersInv, PublisherInv
<1>8. PublishersInv'
  <2>1. ASSUME NEW q \in Publishers PROVE PublisherInv(publisher'[q])
    BY <1>1, <1>6, <1>7
  <2> QED
    BY <2>1, <1>1 DEF PublishersInv, PublisherInv, HasFields
<1>9. \A q \in Publishers : publisher'[q].pc = IF q = p THEN "writing" ELSE publisher[q].pc
  BY <1>1, <1>3, <1>4
<1>10. ASSUME NEW q \in Publishers PROVE publisher'[q].alone <=> q = p /\ alone
  <2>1. CASE q = p
    <3>1. publisher'[q].alone = alone
      BY <2>1, <1>1, <1>3
    <3> QED
      BY <3>1, <2>1, Zenon
  <2>2. CASE q # p
    <3>1. publisher'[q].alone = FALSE
      BY <2>2, <1>1, <1>4
    <3> QED
      BY <3>1, <2>2, Zenon
  <2> QED
    BY <2>1, <2>2
<1>11. ASSUME NEW q \in Publishers PROVE AloneInv(q)'
  <2> SUFFICES ASSUME publisher'[q].alone PROVE AloneInv(q)'
    BY DEF AloneInv
  <2>1. q = p /\ alone /\ publisher'[q] = begun
    BY <1>1, <1>10
  <2>2. \A r \in Publishers \ {q} : publisher'[r].pc # "writing"
    BY <2>1, <1>9 DEF alone
  <2>3. ComposedInv(begun) /\ InOrder(begun.queue) = Written
    BY <1>3, WriteOrderIsOrdered DEF ComposedInv
  <2>4. WorkInv(begun, accepted')
    BY <2>3, <1>3 DEF WorkInv, Written
  <2> QED
    BY <2>1, <2>2, <2>4, <1>9 DEF AloneInv
<1> QED
  BY <1>2, <1>8, <1>9, <1>10, <1>11 DEF IInv, alone

\* What people do changes neither a generated file nor the manifest.
LEMMA PeopleKeep ==
  ASSUME IInv, Edit \/ LeaveFile \/ RemoveFile
  PROVE  /\ IInv'
         /\ \A f \in Written : accepted'[f] = accepted[f]
<1>1. Written \subseteq Names \ {Stray} /\ Manifest \in Written /\ Generated \subseteq Written
  BY NamesAndContents DEF Written
<1>2. /\ sources' \in Versions /\ edits' \in 0..MaxEdits
      /\ UNCHANGED <<publisher, demo>>
      /\ \/ accepted' = accepted
         \/ \E bytes \in {StrayContent, Absent} :
              accepted' = [accepted EXCEPT ![Stray] = bytes]
  BY EditsBounded DEF IInv, TreeInv, Edit, LeaveFile, RemoveFile
<1>3. /\ accepted' = [f \in Names |-> accepted'[f]]
      /\ \A f \in Names \ {Stray} : accepted'[f] = accepted[f]
      /\ accepted'[Stray] \in {accepted[Stray], StrayContent, Absent}
  BY <1>2, NamesAndContents DEF IInv, TreeInv
<1>4. TreeInv'
  <2>1. \A f \in Names \ {Manifest} : accepted'[f] \in FileContents(f)
    <3>1. {StrayContent, Absent} \subseteq FileContents(Stray)
      BY DEF FileContents
    <3> QED
      BY <3>1, <1>3, NamesAndContents DEF IInv, TreeInv
  <2>2. \A f \in Generated : accepted'[f] # Absent
    BY <1>1, <1>3 DEF IInv, TreeInv
  <2> QED
    BY <2>1, <2>2, <1>2, <1>3 DEF TreeInv, FileContents
<1>5. DemoInv' /\ PublishersInv'
  BY <1>2, DemoKept DEF IInv, PublishersInv, PublisherInv, HasFields
<1>6. ASSUME NEW p \in Publishers PROVE AloneInv(p)'
  <2>1. publisher[p].opened => Head(publisher[p].queue) \in Written
    BY HeadAndRest DEF IInv, PublishersInv, PublisherInv
  <2>2. ASSUME WorkInv(publisher[p], accepted) PROVE WorkInv(publisher[p], accepted')
    BY <2>1, <2>2, <1>1, <1>3 DEF WorkInv
  <2> QED
    BY <2>2, <1>2 DEF IInv, AloneInv
<1> QED
  BY <1>1, <1>3, <1>4, <1>5, <1>6 DEF IInv

DemoNext == Generate \/ Interrupt \/ DemoStep

\* The demonstration only reads the trees.
LEMMA DemoKeeps ==
  ASSUME IInv, DemoNext
  PROVE  IInv'
<1>1. UNCHANGED <<sources, edits, accepted, publisher, stood>>
  BY DEF DemoNext, DemoStep, Generate, Interrupt, ListAccepted, ReadAccepted, Compare, DemoExits
<1>2. TreeInv' /\ PublishersInv' /\ \A p \in Publishers : AloneInv(p)'
  BY <1>1, FilesKept DEF IInv, PublishersInv, PublisherInv, HasFields, AloneInv, WorkInv
<1>3. DemoInv /\ TreeInv
  BY DEF IInv
<1>4. Generated \subseteq Names
  BY NamesAndContents
<1>5. ASSUME Generate PROVE DemoInv'
  <2>1. /\ HasDemoFields(demo')
        /\ demo'.pc = "generated" /\ demo'.generated = Bundle(sources)
        /\ demo'.listed = {} /\ demo'.read = <<>>
    BY <1>5, NoDemoFields DEF Generate, HasDemoFields
  <2>2. sources \in Publishable
    BY <1>5 DEF Generate, Passes
  <2> QED
    BY <2>1, <2>2 DEF DemoInv, HasDemoFields
<1>6. ASSUME Interrupt PROVE DemoInv'
  <2>1. /\ HasDemoFields(demo')
        /\ demo'.pc = demo.pc /\ demo'.generated = Nothing
        /\ demo'.listed = demo.listed /\ demo'.read = demo.read
    BY <1>6, <1>3 DEF Interrupt, DemoInv, HasDemoFields
  <2> QED
    BY <2>1, <1>6, <1>3 DEF Interrupt, DemoInv, HasDemoFields
<1>7. ASSUME ListAccepted PROVE DemoInv'
  <2>1. /\ HasDemoFields(demo')
        /\ demo'.pc = "comparing" /\ demo'.generated = demo.generated
        /\ demo'.listed = {f \in Names : accepted[f] # Absent} /\ demo'.read = demo.read
    BY <1>7, <1>3 DEF ListAccepted, DemoInv, HasDemoFields
  <2>2. demo.read = <<>>
    BY <1>7, <1>3 DEF ListAccepted, DemoInv
  <2> QED
    BY <2>1, <2>2, <1>3, <1>4 DEF DemoInv, HasDemoFields, TreeInv
<1>8. ASSUME ReadAccepted PROVE DemoInv'
  <2>1. PICK f \in Names :
          /\ demo.pc = "comparing"
          /\ ReadNext(f, demo.listed \ DOMAIN demo.read)
          /\ demo' =
               IF accepted[f] = Absent
               THEN [demo EXCEPT !.listed = @ \ {f}]
               ELSE [demo EXCEPT !.read = [g \in DOMAIN demo.read \cup {f} |->
                                             IF g = f THEN accepted[f] ELSE demo.read[g]]]
    BY <1>8 DEF ReadAccepted
  <2>2. f \in demo.listed \ DOMAIN demo.read
    BY <2>1 DEF ReadNext
  <2>3. CASE accepted[f] = Absent
    <3>1. f \notin Generated
      BY <2>3, <1>3 DEF TreeInv
    <3> QED
      BY <3>1, <2>1, <2>2, <2>3, <1>3 DEF DemoInv, HasDemoFields
  <2>4. CASE accepted[f] # Absent
    BY <2>1, <2>2, <2>4, <1>3 DEF DemoInv, HasDemoFields
  <2> QED
    BY <2>3, <2>4
<1>9. ASSUME Compare PROVE DemoInv'
  BY <1>9, <1>3 DEF Compare, DemoInv, HasDemoFields
<1>10. ASSUME DemoExits PROVE DemoInv'
  <2>1. demo' = NoDemo
    BY <1>10 DEF DemoExits
  <2>2. /\ HasDemoFields(demo')
        /\ demo'.pc = "idle" /\ demo'.generated = Nothing
        /\ demo'.listed = {} /\ demo'.read = <<>>
    BY <2>1, NoDemoFields
  <2> QED
    BY <2>2 DEF DemoInv, HasDemoFields
<1> QED
  BY <1>2, <1>5, <1>6, <1>7, <1>8, <1>9, <1>10 DEF IInv, DemoNext, DemoStep

LEMMA NextIInv == IInv /\ [Next]_vars => IInv'
<1> SUFFICES ASSUME IInv, [Next]_vars PROVE IInv'
  OBVIOUS
<1>1. ASSUME UNCHANGED vars PROVE IInv'
  BY <1>1, FilesKept, DemoKept
  DEF vars, IInv, PublishersInv, PublisherInv, HasFields, AloneInv, WorkInv
<1>2. ASSUME NEW p \in Publishers,
             Execute(p) \/ Reject(p) \/ GoldenStep(p) \/ Crash(p)
      PROVE  IInv'
  BY <1>1, <1>2, ExecuteKeeps, OpenKeeps, WriteKeeps, ListDirectoryKeeps,
     HashFileKeeps, FinishKeeps, ExitKeeps, CrashKeeps
  DEF Reject, GoldenStep
<1> QED
  BY <1>1, <1>2, PeopleKeep, DemoKeeps DEF Next, GoldenNext, DemoNext

\* GoldenSpec is Spec without the demonstration and without fairness.
LEMMA GoldenIInv == GoldenSpec => []IInv
<1>1. [GoldenNext]_vars => [Next]_vars
  BY DEF Next
<1> QED
  BY <1>1, InitIInv, NextIInv, PTL DEF GoldenSpec

LEMMA SpecIInv == Spec => []IInv
BY InitIInv, NextIInv, PTL DEF Spec

-----------------------------------------------------------------------------
(***************************************************************************)
(* What the invariant implies, for any number of runs at a time.           *)
(***************************************************************************)
LEMMA IInvImpliesTypeOK == IInv => TypeOK
<1> SUFFICES ASSUME IInv PROVE TypeOK
  OBVIOUS
<1>1. Written \subseteq Names /\ Publishable \subseteq Versions
  BY NamesAndContents, VersionsGiven
<1>2. ASSUME NEW p \in Publishers PROVE publisher[p].queue \in Seq(Names)
  BY <1>1, SeqMonotonic DEF IInv, PublishersInv, PublisherInv
<1> QED
  BY <1>1, <1>2 DEF IInv, TreeInv, DemoInv, PublishersInv, PublisherInv, TypeOK

LEMMA IInvImpliesPublishedIsWhole == IInv => PublishedIsWhole
<1> SUFFICES ASSUME IInv, NEW p \in Publishers,
                    publisher[p].pc = "published", publisher[p].alone
             PROVE  /\ \A f \in Generated : accepted[f] = Content[publisher[p].version][f]
                    /\ accepted[Manifest].bundle_id = BundleId[publisher[p].version]
                    /\ \A f \in Evidence : accepted[Manifest].artifacts[f] = accepted[f]
  BY DEF PublishedIsWhole, Evidence
<1>1. AloneInv(p) /\ PublisherInv(publisher[p])
  BY DEF IInv, PublishersInv
<1>2. WorkInv(publisher[p], accepted) /\ publisher[p].queue = <<>>
  BY <1>1 DEF AloneInv, PublisherInv
<1>3. InOrder(publisher[p].queue) = {}
  BY <1>2 DEF InOrder
<1>4. VouchesFor(accepted[Manifest], publisher[p].version)
  BY <1>2, <1>3 DEF WorkInv
<1> QED
  BY <1>2, <1>3, <1>4, NamesAndContents DEF WorkInv, VouchesFor, ManifestOf

\* Every variable has its shape whatever runs together, is killed or is edited.
THEOREM PublicationTypes == Spec => []TypeOK
BY SpecIInv, IInvImpliesTypeOK, PTL

\* A run_golden beside which no other wrote leaves its version whole, whatever the
\* demonstration reads and whatever earlier runs left behind.
THEOREM PublishedBundleIsWhole == Spec => []PublishedIsWhole
BY SpecIInv, IInvImpliesPublishedIsWhole, PTL

\* The same where any number of processes execute run_golden.
THEOREM PublishedBundleIsWholeAmongMany == GoldenSpec => []PublishedIsWhole
BY GoldenIInv, IInvImpliesPublishedIsWhole, PTL

-----------------------------------------------------------------------------
(***************************************************************************)
(* One run_golden that writes at a time.                                   *)
(***************************************************************************)
\* A tree whose manifest is that of a bundle, over evidence of the version it
\* was composed of, holds that bundle.
LEMMA ManifestOfWholeBundle ==
  ASSUME NEW v \in Versions, NEW own \in Versions, NEW tree,
         tree[Manifest] = Bundle(v)[Manifest],
         VouchesFor(tree[Manifest], own),
         \A g \in Evidence : tree[g] = Content[own][g]
  PROVE  v \in StandsWhole(tree)
<1>1. tree[Manifest].artifacts = [g \in Evidence |-> Content[v][g]]
  <2> DEFINE artifacts == [g \in Evidence |-> Content[v][g]]
  <2>1. tree[Manifest] = ManifestOf(v, artifacts)
    BY BundleManifest
  <2> HIDE DEF artifacts
  <2>2. tree[Manifest].artifacts = artifacts
    BY <2>1 DEF ManifestOf
  <2> QED
    BY <2>2 DEF artifacts
<1>2. \A g \in Evidence : tree[g] = Bundle(v)[g]
  BY <1>1, NamesAndContents DEF VouchesFor
<1> QED
  BY <1>2, NamesAndContents DEF StandsWhole, EvidenceNames, Evidence

LEMMA InitOneInv == Init => OneInv
<1> SUFFICES ASSUME Init PROVE OneInv
  OBVIOUS
<1>1. \A p \in Publishers : publisher[p].pc = "idle"
  BY IdleIsSound DEF Init
<1>2. Original \in Versions /\ accepted = Bundle(Original) /\ stood = StandsWhole(accepted)
  BY VersionsGiven DEF Init
<1>3. VouchesFor(accepted[Manifest], Original)
  BY <1>2, BundleManifest
<1>4. \A g \in Evidence : accepted[g] = Content[Original][g]
  BY <1>2, NamesAndContents
<1>5. OfBundlesThatStood(accepted[Manifest])
  BY <1>2, <1>3, <1>4, ManifestOfWholeBundle DEF OfBundlesThatStood
<1>6. demo.pc = "idle" /\ DOMAIN demo.read = {}
  BY NoDemoFields DEF Init
<1> QED
  BY <1>1, <1>3, <1>5, <1>6, VersionsGiven DEF OneInv, ManifestInv, PrintedEvidenceStood

\* Whoever writes is alone, since it began while nobody wrote.
LEMMA WriterIsAlone ==
  ASSUME OneAtATime', IInv, OneInv, NEW p \in Publishers,
         Execute(p) \/ Reject(p) \/ GoldenStep(p) \/ Crash(p)
  PROVE  \A q \in Publishers : publisher'[q].pc = "writing" => publisher'[q].alone
<1>1. publisher = [q \in Publishers |-> publisher[q]]
  BY DEF IInv, PublishersInv
<1>2. CASE Execute(p)
  <2>1. \A q \in Publishers : publisher'[q].pc = "writing" => q = p
    BY <1>2, ExecuteKeeps DEF OneAtATime
  <2>2. \A q \in Publishers : publisher[q].pc # "writing"
    BY <1>2, <2>1, ExecuteKeeps DEF Execute
  <2> QED
    BY <1>2, <2>1, <2>2, ExecuteKeeps
<1>3. CASE Reject(p)
  BY <1>3 DEF Reject, vars, OneInv
<1>4. CASE Exit(p) \/ Crash(p)
  BY <1>1, <1>4, IdleIsSound DEF Exit, Crash, OneInv
<1>5. CASE Open(p) \/ Write(p) \/ ListDirectory(p) \/ HashFile(p) \/ Finish(p)
  <2>1. /\ publisher[p].pc = "writing" /\ publisher'[p].alone = publisher[p].alone
        /\ \A q \in Publishers \ {p} : publisher'[q] = publisher[q]
    <3>1. HasFields(publisher[p]) /\ publisher = [q \in Publishers |-> publisher[q]]
      BY DEF IInv, PublishersInv, PublisherInv
    <3>2. CASE Open(p)
      BY <3>1, <3>2 DEF Open, HasFields, Fields
    <3>3. CASE Write(p)
      BY <3>1, <3>3 DEF Write, HasFields, Fields
    <3>4. CASE ListDirectory(p)
      BY <3>1, <3>4 DEF ListDirectory, HasFields, Fields
    <3>5. CASE HashFile(p)
      BY <3>1, <3>5 DEF HashFile, HasFields, Fields
    <3>6. CASE Finish(p)
      BY <3>1, <3>6 DEF Finish, HasFields, Fields
    <3> QED
      BY <1>5, <3>2, <3>3, <3>4, <3>5, <3>6
  <2> QED
    BY <2>1 DEF OneInv
<1> QED
  BY <1>2, <1>3, <1>4, <1>5 DEF GoldenStep

\* A step of run_golden leaves the manifest torn, or that of a whole bundle only
\* when the bundle then stands.
LEMMA RunKeepsManifest ==
  ASSUME IInv, OneInv, NEW p \in Publishers,
         Execute(p) \/ Reject(p) \/ GoldenStep(p) \/ Crash(p)
  PROVE  /\ ManifestInv'
         /\ OfBundlesThatStood(accepted[Manifest])'
         /\ stood \subseteq stood'
<1> DEFINE me == publisher[p]
<1>1. CASE UNCHANGED <<accepted, stood>>
  BY <1>1 DEF OneInv, ManifestInv, OfBundlesThatStood
<1>2. CASE Open(p)
  <2>1. Head(me.queue) \in Written
    BY <1>2, HeadAndRest DEF Open, IInv, PublishersInv, PublisherInv
  <2>2. \/ accepted'[Manifest] = Torn
        \/ accepted'[Manifest] = accepted[Manifest]
    BY <1>2, <2>1, NamesAndContents DEF Open, IInv, TreeInv
  <2>3. stood' = stood
    BY <1>2 DEF Open
  <2> QED
    BY <2>2, <2>3, ManifestsAreWritten DEF OneInv, ManifestInv, OfBundlesThatStood
<1>3. CASE Write(p)
  <2>1. me.pc = "writing" /\ stood' = stood \cup StandsWhole(accepted')
    BY <1>3 DEF Write
  <2>2. me.alone /\ me.version \in Publishable /\ me.version \in Versions
    BY <2>1, VersionsGiven DEF OneInv, IInv, PublishersInv, PublisherInv
  <2>3. CASE Head(me.queue) = Manifest
    <3>1. /\ VouchesFor(accepted'[Manifest], me.version)
          /\ \A g \in Evidence : accepted'[g] = Content[me.version][g]
      BY <1>3, <2>2, <2>3, WriteKeeps
    <3>2. ManifestInv'
      BY <2>2, <3>1 DEF ManifestInv, VouchesFor
    <3>3. ASSUME NEW v \in Versions, accepted'[Manifest] = Bundle(v)[Manifest]
          PROVE  v \in stood'
      BY <2>1, <2>2, <3>1, <3>3, ManifestOfWholeBundle
    <3> QED
      BY <2>1, <3>2, <3>3 DEF OfBundlesThatStood
  <2>4. CASE Head(me.queue) # Manifest
    <3>1. accepted'[Manifest] = accepted[Manifest]
      BY <1>3, <2>4, NamesAndContents DEF Write, IInv, TreeInv
    <3> QED
      BY <2>1, <3>1 DEF OneInv, ManifestInv, OfBundlesThatStood
  <2> QED
    BY <2>3, <2>4
<1> QED
  BY <1>1, <1>2, <1>3
  DEF GoldenStep, Execute, Reject, vars, ListDirectory, HashFile, Finish, Exit, Crash

LEMMA NextOneInv == OneAtATime' /\ IInv /\ OneInv /\ [Next]_vars => OneInv'
<1> SUFFICES ASSUME OneAtATime', IInv, OneInv, [Next]_vars PROVE OneInv'
  OBVIOUS
<1>1. ASSUME UNCHANGED demo, stood \subseteq stood'
      PROVE  /\ Manifest \in DOMAIN demo'.read => OfBundlesThatStood(demo.read[Manifest])'
             /\ PrintedEvidenceStood'
  BY <1>1 DEF OneInv, OfBundlesThatStood, PrintedEvidenceStood
<1>2. CASE UNCHANGED vars
  BY <1>2 DEF vars, OneInv, ManifestInv, OfBundlesThatStood, PrintedEvidenceStood
<1>3. ASSUME NEW p \in Publishers,
             Execute(p) \/ Reject(p) \/ GoldenStep(p) \/ Crash(p)
      PROVE  OneInv'
  <2>1. UNCHANGED demo
    BY <1>3 DEF GoldenStep, Execute, Reject, vars, Open, Write, ListDirectory,
                HashFile, Finish, Exit, Crash
  <2> QED
    BY <2>1, <1>1, <1>3, WriterIsAlone, RunKeepsManifest DEF OneInv
<1>4. CASE Edit \/ LeaveFile \/ RemoveFile
  <2>1. UNCHANGED <<publisher, demo, stood>> /\ accepted'[Manifest] = accepted[Manifest]
    BY <1>4, PeopleKeep DEF Edit, LeaveFile, RemoveFile, Written
  <2> QED
    BY <2>1, <1>1 DEF OneInv, ManifestInv, OfBundlesThatStood
<1>5. CASE DemoNext
  <2>1. UNCHANGED <<accepted, publisher, stood>>
    BY <1>5 DEF DemoNext, DemoStep, Generate, Interrupt, ListAccepted, ReadAccepted,
                Compare, DemoExits
  <2>2. DemoInv /\ HasDemoFields(demo)
    BY DEF IInv, DemoInv
  <2>3. /\ Manifest \in DOMAIN demo'.read => OfBundlesThatStood(demo'.read[Manifest])
        /\ demo'.pc = "printed" =>
             \E v \in stood \cap Publishable : demo'.generated = Bundle(v)
    <3>1. CASE Generate
      <4>1. demo'.read = <<>> /\ demo'.pc = "generated"
        BY <3>1, NoDemoFields DEF Generate, HasDemoFields
      <4> QED
        BY <4>1
    <3>2. CASE Interrupt
      <4>1. demo'.read = demo.read /\ demo'.pc = "generated"
        BY <3>2, <2>2 DEF Interrupt, HasDemoFields
      <4> QED
        BY <4>1 DEF OneInv
    <3>3. CASE ListAccepted
      <4>1. demo'.read = demo.read /\ demo'.pc = "comparing"
        BY <3>3, <2>2 DEF ListAccepted, HasDemoFields
      <4> QED
        BY <4>1 DEF OneInv
    <3>4. CASE ReadAccepted
      <4>1. /\ demo'.pc = "comparing"
            /\ \/ demo'.read = demo.read
               \/ \E f \in Names :
                    demo'.read = [g \in DOMAIN demo.read \cup {f} |->
                                    IF g = f THEN accepted[f] ELSE demo.read[g]]
        BY <3>4, <2>2 DEF ReadAccepted, HasDemoFields
      <4>2. Manifest \in DOMAIN demo'.read =>
              \/ demo'.read[Manifest] = accepted[Manifest]
              \/ Manifest \in DOMAIN demo.read /\ demo'.read[Manifest] = demo.read[Manifest]
        BY <4>1
      <4> QED
        BY <4>1, <4>2 DEF OneInv
    <3>5. CASE Compare
      <4>1. /\ demo.pc = "comparing" /\ demo.listed = DOMAIN demo.read
            /\ demo'.read = demo.read /\ demo'.generated = demo.generated
            /\ demo'.pc = "printed" => SameFiles
        BY <3>5, <2>2 DEF Compare, HasDemoFields
      <4>2. ASSUME SameFiles
            PROVE  \E v \in stood \cap Publishable : demo.generated = Bundle(v)
        <5>1. demo.generated # Nothing
          <6>1. Evidence # {}
            BY FilesGiven DEF Evidence, InOrder
          <6>2. PICK f \in Evidence : TRUE
            BY <6>1
          <6>3. f \in Names /\ f \in DOMAIN demo.read /\ demo.read[f] # Absent
            BY <4>1, <2>2, NamesAndContents DEF DemoInv
          <6>4. demo.generated[f] # Absent
            BY <6>3, <4>2 DEF SameFiles
          <6> QED
            BY <6>3, <6>4 DEF Nothing
        <5>2. PICK v \in Publishable : demo.generated = Bundle(v)
          BY <5>1, <2>2 DEF DemoInv
        <5>3. v \in Versions /\ Bundle(v)[Manifest] # Absent
          BY VersionsGiven, ManifestsAreWritten
        <5>4. Manifest \in DOMAIN demo.read /\ demo.read[Manifest] = Bundle(v)[Manifest]
          BY <4>2, <5>2, <5>3, NamesAndContents DEF SameFiles
        <5>5. v \in stood
          BY <5>3, <5>4 DEF OneInv, OfBundlesThatStood
        <5> QED
          BY <5>2, <5>5
      <4> QED
        BY <4>1, <4>2 DEF OneInv
    <3>6. CASE DemoExits
      <4>1. demo'.read = <<>> /\ demo'.pc = "idle"
        BY <3>6, NoDemoFields DEF DemoExits
      <4> QED
        BY <4>1
    <3> QED
      BY <1>5, <3>1, <3>2, <3>3, <3>4, <3>5, <3>6 DEF DemoNext, DemoStep
  <2> QED
    BY <2>1, <2>3 DEF OneInv, ManifestInv, OfBundlesThatStood, PrintedEvidenceStood
<1> QED
  BY <1>2, <1>3, <1>4, <1>5 DEF Next, GoldenNext, DemoNext

LEMMA OneInvImpliesManifestVouches == IInv /\ OneInv => ManifestVouches
<1> SUFFICES ASSUME ManifestInv, accepted[Manifest] # Torn,
                    accepted[Manifest].artifacts =
                      [f \in ListedByManifest(accepted) |-> accepted[f]]
             PROVE  \E v \in Publishable :
                      /\ accepted[Manifest].bundle_id = BundleId[v]
                      /\ \A f \in Evidence : accepted[f] = Content[v][f]
  BY DEF ManifestVouches, OneInv, Evidence
<1>1. PICK v \in Publishable : VouchesFor(accepted[Manifest], v)
  BY DEF ManifestInv
<1>2. accepted[Manifest].bundle_id = BundleId[v]
  BY <1>1 DEF VouchesFor, ManifestOf
<1>3. ASSUME NEW f \in Evidence PROVE accepted[f] = Content[v][f]
  BY <1>1 DEF VouchesFor
<1> QED
  BY <1>2, <1>3

\* As long as no two processes write at a time, a manifest of exactly the files
\* beside it is the manifest of a version that passed its controls.
THEOREM ManifestVouchesForBundle == Spec /\ []OneAtATime => []ManifestVouches
<1>1. Spec /\ []OneAtATime => [](IInv /\ OneInv)
  BY InitIInv, NextIInv, InitOneInv, NextOneInv, PTL DEF Spec
<1> QED
  BY <1>1, OneInvImpliesManifestVouches, PTL

\* As long as no two processes write at a time, the demonstration prints only a
\* version whose bundle has stood whole in the checked-in tree.
THEOREM PrintedBundleStood == Spec /\ []OneAtATime => []PrintedEvidenceStood
<1>1. Spec /\ []OneAtATime => []OneInv
  BY InitIInv, NextIInv, InitOneInv, NextOneInv, PTL DEF Spec
<1>2. OneInv => PrintedEvidenceStood
  BY DEF OneInv
<1> QED
  BY <1>1, <1>2, PTL
=============================================================================
