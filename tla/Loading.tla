------------------------------ MODULE Loading -------------------------------
(***************************************************************************)
(* How run_golden and run_demo come to their inputs.  Each reads eleven    *)
(* fixture files, one after another, while people edit them, so that what  *)
(* it holds at the end may never have stood on disk; only what it holds is *)
(* checked, hashed and used.  run_golden replaces the accepted evidence,   *)
(* run_demo compares its own with it.  What the evidence shows of records  *)
(* and coverage beyond their hash may be the same for different ones, and  *)
(* is left out.  How files reach the accepted trees is in Publication.     *)
(***************************************************************************)
EXTENDS Sequences, Naturals, FiniteSets

CONSTANTS
  Original,   \* what each fixture holds at the start
  Others,     \* what else people may write into each of them
  Broken,     \* a file in the middle of being saved, which does not parse
  MaxEdits    \* bound on the edits in a behaviour

VARIABLES
  disk,       \* the fixtures
  edits,      \* how often people edited one
  loader,     \* the two commands: where each is and what it holds
  accepted,   \* the evidence in the checked-in tree
  source      \* history: the inputs the accepted evidence was computed from

vars == <<disk, edits, loader, accepted, source>>

\* The fixtures in the order build_evidence reads them.
Fixtures ==
  << "v1", "v2", "v1_0_1", "account_records", "provenance", "g3_provenance",
     "g4_case", "coverage", "decision", "migration_policy", "assumptions" >>

FixtureNames == {Fixtures[i] : i \in DOMAIN Fixtures}

ASSUME EveryFixtureGiven ==
  DOMAIN Original = FixtureNames /\ DOMAIN Others = FixtureNames
ASSUME EditsAreNatural == MaxEdits \in Nat

-----------------------------------------------------------------------------
(***************************************************************************)
(* What a fixture says: records a sequence of accounts with the provenance *)
(* each cites, provenance a set of ids, the G4 case a pair of versions.    *)
(***************************************************************************)
AccountsUnique(records) ==
  \A i, j \in DOMAIN records :
    records[i].account_id = records[j].account_id => i = j

DeclaredWithControl(inputs) == inputs["provenance"] \cup {inputs["g3_provenance"]}

\* The snapshot of control G3 is no source of records.
DeclaredProvenance(inputs) == inputs["provenance"]

SourcesResolve(inputs) ==
  LET records == inputs["account_records"]
  IN  /\ AccountsUnique(records)
      /\ \A i \in DOMAIN records :
           records[i].provenance_id \in DeclaredProvenance(inputs)

Readable(name) ==
  /\ disk[name] # Broken
  /\ name = "g4_case" => disk[name] = <<"1.0.0", "2.0.0">>

HashedWithoutRecords == FixtureNames \ {"account_records"}

\* canonical_input_bundle_hash stands for the values of the fixtures it covers.
Hashed == FixtureNames

\* Fixtures the evidence repeats or hashes elsewhere.
Shown == FixtureNames \ {"account_records", "coverage"}

Evidence(inputs) ==
  [ bundle_id |-> [name \in Hashed |-> inputs[name]],
    shown |-> [name \in Shown |-> inputs[name]] ]

\* The repository begins with records, of account and provenance each, whose
\* sources resolve, and people write no other kind of file into their place.
RecordFiles == ({Original["account_records"]} \cup Others["account_records"]) \ {Broken}

ASSUME RecordsAreSequences ==
  \A records \in RecordFiles :
    Len(records) \in Nat /\ DOMAIN records = 1..Len(records)
ASSUME OriginalIsSound ==
  /\ Original = [name \in FixtureNames |-> Original[name]]
  /\ Original["account_records"] # Broken
  /\ Original["g4_case"] = <<"1.0.0", "2.0.0">>
  /\ SourcesResolve(Original)

-----------------------------------------------------------------------------
Commands == {"run_golden", "run_demo"}

Idle == [pc |-> "idle", queue |-> <<>>, inputs |-> <<>>]

Init ==
  /\ disk = Original
  /\ edits = 0
  /\ loader = [command \in Commands |-> Idle]
  /\ accepted = Evidence(Original)
  /\ source = Original

Move(command, next) ==
  /\ loader' = [loader EXCEPT ![command] = next]
  /\ UNCHANGED <<disk, edits>>

Start(command) ==
  /\ loader[command].pc = "idle"
  /\ Move(command, [pc |-> "loading", queue |-> Fixtures, inputs |-> <<>>])
  /\ UNCHANGED <<accepted, source>>

Holding(inputs, name, content) ==
  [ n \in DOMAIN inputs \cup {name} |->
      IF n = name THEN content ELSE inputs[n] ]

Read(command) ==
  LET me   == loader[command]
      name == Head(me.queue)
  IN  /\ me.pc = "loading" /\ me.queue # <<>>
      /\ Readable(name)
      /\ Move(command, [ pc |-> "loading", queue |-> Tail(me.queue),
                         inputs |-> Holding(me.inputs, name, disk[name]) ])
      /\ UNCHANGED <<accepted, source>>

\* A file that does not parse, a G4 case of other versions, or sources that do not
\* resolve.
LoadRaises(command) ==
  LET me == loader[command]
  IN  /\ me.pc = "loading"
      /\ IF me.queue = <<>> THEN ~SourcesResolve(me.inputs)
         ELSE ~Readable(Head(me.queue))
      /\ Move(command, Idle)
      /\ UNCHANGED <<accepted, source>>

Loaded(command) ==
  LET me == loader[command]
  IN  /\ me.pc = "loading" /\ me.queue = <<>>
      /\ SourcesResolve(me.inputs)
      /\ Move(command, [me EXCEPT !.pc = "loaded"])
      /\ UNCHANGED <<accepted, source>>

\* A later stage, a control or a comparison of execute refuses.
Refuse(command) ==
  /\ loader[command].pc = "loaded"
  /\ Move(command, Idle)
  /\ UNCHANGED <<accepted, source>>

Publish ==
  LET me == loader["run_golden"]
  IN  /\ me.pc = "loaded"
      /\ accepted' = Evidence(me.inputs)
      /\ source' = me.inputs
      /\ Move("run_golden", Idle)

Compare ==
  LET me == loader["run_demo"]
  IN  /\ me.pc = "loaded"
      /\ Move("run_demo",
           [me EXCEPT !.pc = IF Evidence(me.inputs) = accepted
                             THEN "printed" ELSE "failed"])
      /\ UNCHANGED <<accepted, source>>

DemoExits ==
  /\ loader["run_demo"].pc \in {"printed", "failed"}
  /\ Move("run_demo", Idle)
  /\ UNCHANGED <<accepted, source>>

Edit ==
  /\ edits < MaxEdits
  /\ edits' = edits + 1
  /\ \E name \in FixtureNames :
       \E content \in ({Original[name]} \cup Others[name]) \ {disk[name]} :
         disk' = [disk EXCEPT ![name] = content]
  /\ UNCHANGED <<loader, accepted, source>>

Next ==
  \/ \E command \in Commands :
       Start(command) \/ Read(command) \/ LoadRaises(command)
         \/ Loaded(command) \/ Refuse(command)
  \/ Publish \/ Compare \/ DemoExits \/ Edit

Spec == Init /\ [][Next]_vars

-----------------------------------------------------------------------------
(***************************************************************************)
(* Properties.                                                             *)
(***************************************************************************)
\* When the demonstration begins to print, it computed its evidence from the very
\* inputs of the accepted one, fixture by fixture, although each of the two may
\* have read a mixture that never stood on disk and the evidence shows neither
\* records nor coverage (canonical_input_bundle_hash covers every input).
PrintedFromSameInputs ==
  [][ loader'["run_demo"].pc = "printed" /\ loader["run_demo"].pc = "loaded"
        => loader["run_demo"].inputs = source ]_vars

\* Whatever was edited between the reads, such as an id renamed first in one file
\* and then in another, evidence is accepted only from sources that agree with each
\* other: one account to a record, each from a source snapshot that is not the one
\* of control G3, which the reference graph would let pass.
AcceptedSourcesAgree ==
  LET records == source["account_records"]
  IN  /\ Cardinality({records[i].account_id : i \in DOMAIN records}) = Len(records)
      /\ {records[i].provenance_id : i \in DOMAIN records} \subseteq source["provenance"]
      /\ source["g4_case"] = <<"1.0.0", "2.0.0">>
=============================================================================
