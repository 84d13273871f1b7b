--------------------------- MODULE LoadingProofs ----------------------------
(***************************************************************************)
(* Proofs about loading, for any contents of the fixtures and any number   *)
(* of edits.                                                               *)
(***************************************************************************)
EXTENDS Loading, TLAPS, FiniteSetTheorems

-----------------------------------------------------------------------------
(***************************************************************************)
(* The inductive invariant.  A command that is loading holds some of the   *)
(* fixtures, as they were when it read them, and has the others to read;   *)
(* one that is loaded holds sources that resolve.  The accepted evidence   *)
(* is that of such sources.                                                *)
(***************************************************************************)
ReadSoFar(inputs) ==
  /\ inputs = [name \in DOMAIN inputs |-> inputs[name]]
  /\ "account_records" \in DOMAIN inputs => inputs["account_records"] \in RecordFiles
  /\ "g4_case" \in DOMAIN inputs => inputs["g4_case"] = <<"1.0.0", "2.0.0">>

Sound(inputs) ==
  /\ DOMAIN inputs = FixtureNames
  /\ ReadSoFar(inputs)
  /\ SourcesResolve(inputs)

Listed(queue) == {queue[i] : i \in DOMAIN queue}

CommandIInv(me) ==
  /\ me = [pc |-> me.pc, queue |-> me.queue, inputs |-> me.inputs]
  /\ me.pc = "loading" =>
       /\ me.queue \in Seq(FixtureNames)
       /\ DOMAIN me.inputs \cup Listed(me.queue) = FixtureNames
       /\ ReadSoFar(me.inputs)
  /\ me.pc = "loaded" => Sound(me.inputs)

DiskIInv ==
  /\ disk = [name \in FixtureNames |-> disk[name]]
  /\ disk["account_records"] # Broken => disk["account_records"] \in RecordFiles

LoaderIInv ==
  /\ loader = [command \in Commands |-> loader[command]]
  /\ \A command \in Commands : CommandIInv(loader[command])

AcceptedIInv == accepted = Evidence(source) /\ Sound(source)

IInv == DiskIInv /\ LoaderIInv /\ AcceptedIInv

-----------------------------------------------------------------------------
LEMMA FixturesListed ==
  /\ Fixtures \in Seq(FixtureNames)
  /\ Listed(Fixtures) = FixtureNames
  /\ "account_records" \in FixtureNames
  /\ "g4_case" \in FixtureNames
BY DEF Fixtures, FixtureNames, Listed

\* The first name of a list and the rest of it are the whole list.
LEMMA HeadAndRest ==
  ASSUME NEW S, NEW queue \in Seq(S), queue # <<>>
  PROVE  /\ Tail(queue) \in Seq(S)
         /\ Head(queue) \in S
         /\ Listed(queue) = {Head(queue)} \cup Listed(Tail(queue))
<1>1. Len(queue) \in Nat \ {0} /\ DOMAIN queue = 1..Len(queue)
  OBVIOUS
<1>2. /\ Len(Tail(queue)) = Len(queue) - 1
      /\ DOMAIN Tail(queue) = 1..(Len(queue) - 1)
      /\ \A i \in 1..(Len(queue) - 1) : Tail(queue)[i] = queue[i + 1]
  BY <1>1
<1>3. Head(queue) = queue[1]
  OBVIOUS
<1>4. Listed(queue) \subseteq {Head(queue)} \cup Listed(Tail(queue))
  <2> SUFFICES ASSUME NEW i \in 1..Len(queue)
               PROVE  queue[i] \in {Head(queue)} \cup Listed(Tail(queue))
    BY <1>1 DEF Listed
  <2>1. CASE i = 1
    BY <2>1, <1>3
  <2>2. CASE i # 1
    <3>1. i - 1 \in 1..(Len(queue) - 1) /\ Tail(queue)[i - 1] = queue[i]
      BY <2>2, <1>1, <1>2
    <3> QED
      BY <3>1, <1>2 DEF Listed
  <2> QED
    BY <2>1, <2>2
<1>5. Listed(Tail(queue)) \subseteq Listed(queue)
  <2> SUFFICES ASSUME NEW i \in 1..(Len(queue) - 1)
               PROVE  Tail(queue)[i] \in Listed(queue)
    BY <1>2 DEF Listed
  <2>1. i + 1 \in 1..Len(queue) /\ Tail(queue)[i] = queue[i + 1]
    BY <1>1, <1>2
  <2> QED
    BY <2>1, <1>1 DEF Listed
<1>6. Head(queue) \in Listed(queue)
  BY <1>1, <1>3 DEF Listed
<1>7. Tail(queue) \in Seq(S) /\ Head(queue) \in S
  OBVIOUS
<1> HIDE DEF Listed
<1> QED
  BY <1>4, <1>5, <1>6, <1>7

LEMMA InitIInv == Init => IInv
<1> SUFFICES ASSUME Init PROVE IInv
  OBVIOUS
<1>1. Sound(Original)
  BY OriginalIsSound, FixturesListed, EveryFixtureGiven
  DEF Sound, ReadSoFar, RecordFiles
<1>2. DiskIInv
  BY OriginalIsSound DEF Init, DiskIInv, RecordFiles
<1>3. LoaderIInv
  BY DEF Init, LoaderIInv, CommandIInv, Idle
<1>4. AcceptedIInv
  BY <1>1 DEF Init, AcceptedIInv
<1> QED
  BY <1>2, <1>3, <1>4 DEF IInv

\* One command moves to a state that holds what it should; the other stays.
LEMMA MoveHolds ==
  ASSUME LoaderIInv, DiskIInv, NEW command \in Commands, NEW next,
         Move(command, next), CommandIInv(next)
  PROVE  LoaderIInv' /\ DiskIInv'
<1>1. LoaderIInv'
  <2>1. loader' = [loader EXCEPT ![command] = next]
    BY DEF Move
  <2>2. /\ loader' = [c \in Commands |-> loader'[c]]
        /\ \A c \in Commands : loader'[c] = IF c = command THEN next ELSE loader[c]
    BY <2>1 DEF LoaderIInv
  <2>3. ASSUME NEW c \in Commands PROVE CommandIInv(loader'[c])
    BY <2>2 DEF LoaderIInv
  <2> QED
    BY <2>2, <2>3 DEF LoaderIInv, CommandIInv
<1>2. DiskIInv'
  BY DEF Move, DiskIInv
<1> QED
  BY <1>1, <1>2

\* A command at rest, or past loading, holds nothing of interest.
LEMMA IdleHolds == CommandIInv(Idle)
BY DEF CommandIInv, Idle

LEMMA ReadKeeps ==
  ASSUME IInv, NEW command \in Commands, Read(command)
  PROVE  IInv'
<1> DEFINE me   == loader[command]
           name == Head(me.queue)
           read == Holding(me.inputs, name, disk[name])
           next == [pc |-> "loading", queue |-> Tail(me.queue), inputs |-> read]
<1>1. /\ me.pc = "loading" /\ me.queue # <<>>
      /\ Readable(name)
      /\ Move(command, next)
      /\ UNCHANGED <<accepted, source>>
  BY DEF Read
<1>2. CommandIInv(me)
  BY DEF IInv, LoaderIInv
<1>3. /\ me.queue \in Seq(FixtureNames)
      /\ DOMAIN me.inputs \cup Listed(me.queue) = FixtureNames
      /\ ReadSoFar(me.inputs)
      /\ me = [pc |-> me.pc, queue |-> me.queue, inputs |-> me.inputs]
  BY <1>1, <1>2 DEF CommandIInv
<1>4. /\ Tail(me.queue) \in Seq(FixtureNames)
      /\ name \in FixtureNames
      /\ Listed(me.queue) = {name} \cup Listed(Tail(me.queue))
  BY <1>1, <1>3, HeadAndRest
<1>5. /\ DOMAIN read = {name} \cup DOMAIN me.inputs
      /\ read = [n \in DOMAIN read |-> read[n]]
      /\ \A n \in DOMAIN read : read[n] = IF n = name THEN disk[name] ELSE me.inputs[n]
  BY DEF Holding
<1> HIDE DEF me, name, read
<1>7. ReadSoFar(read)
  BY <1>1, <1>3, <1>5 DEF ReadSoFar, Readable, IInv, DiskIInv
<1>8. CommandIInv(next)
  BY <1>3, <1>4, <1>5, <1>7 DEF CommandIInv
<1> HIDE DEF next
<1>9. LoaderIInv' /\ DiskIInv'
  BY <1>1, <1>8, MoveHolds DEF IInv
<1> QED
  BY <1>1, <1>9 DEF IInv, AcceptedIInv

LEMMA LoadedKeeps ==
  ASSUME IInv, NEW command \in Commands, Loaded(command)
  PROVE  IInv'
<1> DEFINE me   == loader[command]
           next == [me EXCEPT !.pc = "loaded"]
<1>1. /\ me.pc = "loading" /\ me.queue = <<>>
      /\ SourcesResolve(me.inputs)
      /\ Move(command, next)
      /\ UNCHANGED <<accepted, source>>
  BY DEF Loaded
<1>2. CommandIInv(me)
  BY DEF IInv, LoaderIInv
<1> HIDE DEF me
<1>3. next = [pc |-> "loaded", queue |-> me.queue, inputs |-> me.inputs]
  BY <1>2 DEF CommandIInv
<1>4. Listed(me.queue) = {}
  BY <1>1 DEF Listed
<1>5. Sound(me.inputs)
  BY <1>1, <1>2, <1>4 DEF CommandIInv, Sound
<1> HIDE DEF next
<1>6. CommandIInv(next)
  BY <1>3, <1>5 DEF CommandIInv
<1>7. LoaderIInv' /\ DiskIInv'
  BY <1>1, <1>6, MoveHolds DEF IInv
<1> QED
  BY <1>1, <1>7 DEF IInv, AcceptedIInv

LEMMA CompareKeeps ==
  ASSUME IInv, Compare
  PROVE  IInv'
<1> DEFINE me   == loader["run_demo"]
           next == [me EXCEPT !.pc = IF Evidence(me.inputs) = accepted
                                     THEN "printed" ELSE "failed"]
<1>1. /\ me.pc = "loaded"
      /\ Move("run_demo", next)
      /\ UNCHANGED <<accepted, source>>
  BY DEF Compare
<1>2. CommandIInv(me)
  BY DEF IInv, LoaderIInv, Commands
<1> HIDE DEF me
<1>3. /\ next = [pc |-> next.pc, queue |-> me.queue, inputs |-> me.inputs]
      /\ next.pc \in {"printed", "failed"}
  BY <1>2 DEF CommandIInv
<1> HIDE DEF next
<1>4. CommandIInv(next)
  BY <1>3 DEF CommandIInv
<1>5. LoaderIInv' /\ DiskIInv'
  BY <1>1, <1>4, MoveHolds DEF IInv, Commands
<1> QED
  BY <1>1, <1>5 DEF IInv, AcceptedIInv

\* The accepted evidence becomes that of what run_golden holds.
LEMMA PublishKeeps ==
  ASSUME IInv, Publish
  PROVE  IInv'
<1> DEFINE me == loader["run_golden"]
<1>1. /\ me.pc = "loaded"
      /\ accepted' = Evidence(me.inputs)
      /\ source' = me.inputs
      /\ Move("run_golden", Idle)
  BY DEF Publish
<1>2. CommandIInv(me)
  BY DEF IInv, LoaderIInv, Commands
<1>3. AcceptedIInv'
  <2>1. Sound(source')
    BY <1>1, <1>2 DEF CommandIInv
  <2> QED
    BY <1>1, <2>1 DEF AcceptedIInv, Evidence, Sound, ReadSoFar, SourcesResolve,
      AccountsUnique, DeclaredProvenance, Shown, Hashed
<1>4. LoaderIInv' /\ DiskIInv'
  BY <1>1, IdleHolds, MoveHolds DEF IInv, Commands
<1> QED
  BY <1>3, <1>4 DEF IInv

LEMMA EditKeeps ==
  ASSUME IInv, Edit
  PROVE  IInv'
<1>1. PICK name \in FixtureNames :
        \E content \in ({Original[name]} \cup Others[name]) \ {disk[name]} :
          disk' = [disk EXCEPT ![name] = content]
  BY DEF Edit
<1>2. PICK content \in ({Original[name]} \cup Others[name]) \ {disk[name]} :
        disk' = [disk EXCEPT ![name] = content]
  BY <1>1
<1>3. DiskIInv'
  BY <1>2, FixturesListed DEF IInv, DiskIInv, RecordFiles
<1> QED
  BY <1>3 DEF Edit, IInv, LoaderIInv, AcceptedIInv

\* A command starts, or gives up.
LEMMA RestKeeps ==
  ASSUME IInv,
         \/ \E command \in Commands :
              Start(command) \/ LoadRaises(command) \/ Refuse(command)
         \/ DemoExits
  PROVE  IInv'
<1> DEFINE fresh == [pc |-> "loading", queue |-> Fixtures, inputs |-> <<>>]
<1>1. PICK command \in Commands, next \in {Idle, fresh} :
        Move(command, next) /\ UNCHANGED <<accepted, source>>
  BY DEF Start, LoadRaises, Refuse, DemoExits, Commands
<1>2. ReadSoFar(<<>>) /\ DOMAIN <<>> = {}
  BY DEF ReadSoFar
<1>3. CommandIInv(fresh)
  BY <1>2, FixturesListed DEF CommandIInv
<1>4. CommandIInv(next)
  BY <1>3, IdleHolds
<1>5. LoaderIInv' /\ DiskIInv'
  BY <1>1, <1>4, MoveHolds DEF IInv
<1> QED
  BY <1>1, <1>5 DEF IInv, AcceptedIInv

LEMMA StepIInv == IInv /\ [Next]_vars => IInv'
<1> SUFFICES ASSUME IInv, [Next]_vars PROVE IInv'
  OBVIOUS
<1>1. CASE \E command \in Commands : Read(command)
  BY <1>1, ReadKeeps
<1>2. CASE \E command \in Commands : Loaded(command)
  BY <1>2, LoadedKeeps
<1>3. CASE \E command \in Commands :
             Start(command) \/ LoadRaises(command) \/ Refuse(command)
  BY <1>3, RestKeeps
<1>4. CASE Publish
  BY <1>4, PublishKeeps
<1>5. CASE Compare
  BY <1>5, CompareKeeps
<1>6. CASE DemoExits
  BY <1>6, RestKeeps
<1>7. CASE Edit
  BY <1>7, EditKeeps
<1>8. CASE UNCHANGED vars
  BY <1>8 DEF vars, IInv, DiskIInv, LoaderIInv, AcceptedIInv
<1> QED
  BY <1>1, <1>2, <1>3, <1>4, <1>5, <1>6, <1>7, <1>8 DEF Next

\* What a command holds has its sources resolved once it is loaded, and the
\* accepted evidence is that of such inputs, whatever was edited between reads.
THEOREM LoadingInvariance == Spec => []IInv
BY InitIInv, StepIInv, PTL DEF Spec

-----------------------------------------------------------------------------
\* A list whose elements differ in a field has as many values of it as elements.
LEMMA DistinctFields ==
  ASSUME NEW records, Len(records) \in Nat, DOMAIN records = 1..Len(records),
         AccountsUnique(records)
  PROVE  Cardinality({records[i].account_id : i \in DOMAIN records}) = Len(records)
<1> DEFINE ids == {records[i].account_id : i \in DOMAIN records}
           f   == [i \in 1..Len(records) |-> records[i].account_id]
<1>1. f \in [1..Len(records) -> ids]
  OBVIOUS
<1>2. \A i, j \in 1..Len(records) : f[i] = f[j] => i = j
  BY DEF AccountsUnique
<1>3. \A id \in ids : \E i \in 1..Len(records) : f[i] = id
  OBVIOUS
<1> HIDE DEF f
<1>4. f \in Bijection(1..Len(records), ids)
  BY <1>1, <1>2, <1>3 DEF Bijection, Injection, Surjection, IsInjective
<1>5. ExistsBijection(1..Len(records), ids)
  BY <1>4 DEF ExistsBijection
<1> HIDE DEF ids
<1>6. Cardinality(ids) = Len(records)
  BY <1>5, FS_CountingElements
<1> QED
  BY <1>6 DEF ids

LEMMA SoundSourcesAgree == IInv => AcceptedSourcesAgree
<1> SUFFICES ASSUME IInv PROVE AcceptedSourcesAgree
  OBVIOUS
<1> DEFINE records == source["account_records"]
<1>1. Sound(source)
  BY DEF IInv, AcceptedIInv
<1>2. /\ records \in RecordFiles
      /\ source["g4_case"] = <<"1.0.0", "2.0.0">>
      /\ AccountsUnique(records)
      /\ \A i \in DOMAIN records : records[i].provenance_id \in source["provenance"]
  BY <1>1, FixturesListed DEF Sound, ReadSoFar, SourcesResolve, DeclaredProvenance
<1>3. Len(records) \in Nat /\ DOMAIN records = 1..Len(records)
  BY <1>2, RecordsAreSequences
<1>4. Cardinality({records[i].account_id : i \in DOMAIN records}) = Len(records)
  BY <1>2, <1>3, DistinctFields
<1>5. {records[i].provenance_id : i \in DOMAIN records} \subseteq source["provenance"]
  BY <1>2
<1> QED
  BY <1>2, <1>4, <1>5 DEF AcceptedSourcesAgree

\* Equal hashes of every input leave no room for different inputs.
LEMMA EvidenceShowsInputs ==
  ASSUME NEW a, NEW b, Sound(a), Sound(b), Evidence(a) = Evidence(b)
  PROVE  a = b
<1>1. [name \in FixtureNames |-> a[name]] = [name \in FixtureNames |-> b[name]]
  BY DEF Evidence, Hashed
<1> QED
  BY <1>1 DEF Sound, ReadSoFar

\* No step but Compare lets run_demo begin to print.
LEMMA OnlyComparePrints ==
  ASSUME IInv, [Next]_vars,
         loader["run_demo"].pc = "loaded", loader'["run_demo"].pc = "printed"
  PROVE  Compare
<1>1. ASSUME NEW command \in Commands, NEW next, Move(command, next),
             next.pc # "printed"
      PROVE  FALSE
  BY <1>1 DEF Move, IInv, LoaderIInv, Commands
<1>2. ASSUME NEW command \in Commands,
             Start(command) \/ Read(command) \/ LoadRaises(command) \/ Refuse(command)
      PROVE  FALSE
  BY <1>1, <1>2 DEF Start, Read, LoadRaises, Refuse, Idle
<1>3. ASSUME NEW command \in Commands, Loaded(command) PROVE FALSE
  <2> DEFINE next == [loader[command] EXCEPT !.pc = "loaded"]
  <2>1. next.pc = "loaded"
    BY DEF IInv, LoaderIInv, CommandIInv
  <2>2. Move(command, next)
    BY <1>3 DEF Loaded
  <2> HIDE DEF next
  <2> QED
    BY <1>1, <2>1, <2>2
<1>4. ASSUME Publish \/ DemoExits PROVE FALSE
  BY <1>1, <1>4 DEF Publish, DemoExits, Idle, Commands
<1>5. ASSUME Edit \/ UNCHANGED vars PROVE FALSE
  BY <1>5 DEF Edit, vars
<1> QED
  BY <1>2, <1>3, <1>4, <1>5 DEF Next

LEMMA PrintingStep ==
  ASSUME IInv, [Next]_vars,
         loader["run_demo"].pc = "loaded", loader'["run_demo"].pc = "printed"
  PROVE  loader["run_demo"].inputs = source
<1> DEFINE me == loader["run_demo"]
<1>1. Compare
  BY OnlyComparePrints
<1>2. /\ me = [pc |-> me.pc, queue |-> me.queue, inputs |-> me.inputs]
      /\ Sound(me.inputs)
  BY DEF IInv, LoaderIInv, CommandIInv, Commands
<1>3. loader'["run_demo"] =
        [me EXCEPT !.pc = IF Evidence(me.inputs) = accepted THEN "printed" ELSE "failed"]
  BY <1>1 DEF Compare, Move, IInv, LoaderIInv, Commands
<1>4. Evidence(me.inputs) = accepted
  BY <1>2, <1>3
<1>5. accepted = Evidence(source) /\ Sound(source)
  BY DEF IInv, AcceptedIInv
<1> QED
  BY <1>2, <1>4, <1>5, EvidenceShowsInputs

-----------------------------------------------------------------------------
\* Evidence is accepted only from sources that agree with each other, however the
\* fixtures were edited while they were read.
THEOREM AcceptedSources == Spec => []AcceptedSourcesAgree
BY LoadingInvariance, SoundSourcesAgree, PTL

\* The demonstration begins to print only what it computed from the inputs of the
\* accepted evidence.
THEOREM PrintedSources == Spec => PrintedFromSameInputs
<1> DEFINE A == loader'["run_demo"].pc = "printed" /\ loader["run_demo"].pc = "loaded"
                  => loader["run_demo"].inputs = source
<1>1. IInv /\ [Next]_vars => [A]_vars
  BY PrintingStep
<1> HIDE DEF A
<1>2. Spec => [][A]_vars
  BY <1>1, LoadingInvariance, PTL DEF Spec
<1> QED
  BY <1>2 DEF PrintedFromSameInputs, A
=============================================================================
