-------------------------- MODULE RfdArtifactsProofs --------------------------
(***************************************************************************)
(* Proofs about RfdArtifacts, for any number of runs and any revisions,    *)
(* sections and bounds: the types, what the search service serves when     *)
(* runs overlap and fail, and what the index and the drive hold after a    *)
(* run that nothing overlapped.                                            *)
(***************************************************************************)
EXTENDS RfdArtifacts, TLAPS

-----------------------------------------------------------------------------
(* Types. *)

\* The files that runs know exist.
FilesInv ==
    \A r \in Run : /\ run[r].file \in 0 .. Len(files)
                   /\ run[r].pdf \in 0 .. Len(files)
                   /\ run[r].pc = "record" => run[r].pdf # 0

StateInv == TypeOK /\ FilesInv

\* Nothing of a run but its flags has changed.
Same(q) ==
    /\ run'[q].pc = run[q].pc
    /\ run'[q].revision = run[q].revision
    /\ run'[q].public = run[q].public
    /\ run'[q].search = run[q].search
    /\ run'[q].file = run[q].file
    /\ run'[q].pdf = run[q].pdf

\* What every step of a run keeps, of the run and of the others.
Shape(r) ==
    /\ run' \in [Run -> RunType]
    /\ \A q \in Run \ {r} : Same(q)
    /\ run'[r].revision = run[r].revision
    /\ run[r].pc # "idle" => run'[r].public = run[r].public
    /\ run'[r].pc # "idle"

LEMMA Replaced ==
    ASSUME NEW r \in Run, run \in [Run -> RunType], NEW x \in RunType,
           run' = [run EXCEPT ![r] = x]
    PROVE  /\ run' \in [Run -> RunType]
           /\ run'[r] = x
           /\ \A q \in Run \ {r} : Same(q)
  BY Zenon DEF Same

\* A step that makes x of the record of a run.
LEMMA RunStepShape ==
    ASSUME NEW r \in Run, run \in [Run -> RunType], NEW x \in RunType,
           run' = [run EXCEPT ![r] = x],
           x.pc # "idle", x.revision = run[r].revision, x.public = run[r].public
    PROVE  Shape(r) /\ run'[r] = x
  <1>1. /\ run' \in [Run -> RunType]
        /\ run'[r] = x
        /\ \A q \in Run \ {r} : Same(q)
    BY Replaced
  <1>2. /\ run'[r].pc # "idle"
        /\ run'[r].revision = run[r].revision
        /\ run'[r].public = run[r].public
    BY <1>1, Zenon
  <1> QED
    BY <1>1, <1>2, Zenon DEF Shape

\* What a step does to the run that takes it: its phase, what it did to the search
\* index, and the files it knows.
Becomes(r, pc, search, file, pdf) ==
    /\ Shape(r)
    /\ run'[r].pc = pc
    /\ run'[r].search = search
    /\ run'[r].file = file
    /\ run'[r].pdf = pdf

\* A step that changes the phase only.
LEMMA PhaseStep ==
    ASSUME NEW r \in Run, run \in [Run -> RunType], NEW pc \in Phase \ {"idle"},
           run' = [run EXCEPT ![r].pc = pc]
    PROVE  Becomes(r, pc, run[r].search, run[r].file, run[r].pdf)
  <1> DEFINE x == [run[r] EXCEPT !.pc = pc]
  <1>1. run[r] \in RunType /\ pc # "idle"
    OBVIOUS
  <1>2. x \in RunType
    BY <1>1, Zenon DEF RunType
  <1>3. /\ x.pc = pc /\ x.revision = run[r].revision /\ x.public = run[r].public
        /\ x.search = run[r].search /\ x.file = run[r].file /\ x.pdf = run[r].pdf
    BY <1>1, Zenon DEF RunType
  <1>4. run' = [run EXCEPT ![r] = x]
    BY Zenon
  <1> HIDE DEF x
  <1>5. Shape(r) /\ run'[r] = x
    BY <1>1, <1>2, <1>3, <1>4, RunStepShape, Zenon
  <1> QED
    BY <1>3, <1>5, Zenon DEF Becomes

\* A step that searched, or found that there is nothing to search.
LEMMA SearchStep ==
    ASSUME NEW r \in Run, run \in [Run -> RunType], NEW pc \in {"delete", "settings"},
           NEW ids \in SUBSET SectionId, NEW complete \in BOOLEAN,
           run' = [run EXCEPT ![r].pc = pc, ![r].ids = ids, ![r].complete = complete]
    PROVE  Becomes(r, pc, run[r].search, run[r].file, run[r].pdf)
  <1> DEFINE x == [run[r] EXCEPT !.pc = pc, !.ids = ids, !.complete = complete]
  <1>1. run[r] \in RunType /\ pc # "idle"
    OBVIOUS
  <1>2. x \in RunType
    BY <1>1, Zenon DEF RunType, Phase
  <1>3. /\ x.pc = pc /\ x.revision = run[r].revision /\ x.public = run[r].public
        /\ x.search = run[r].search /\ x.file = run[r].file /\ x.pdf = run[r].pdf
    BY <1>1, Zenon DEF RunType
  <1>4. run' = [run EXCEPT ![r] = x]
    BY Zenon
  <1> HIDE DEF x
  <1>5. Shape(r) /\ run'[r] = x
    BY <1>1, <1>2, <1>3, <1>4, RunStepShape, Zenon
  <1> QED
    BY <1>3, <1>5, Zenon DEF Becomes

\* A step that found no index.
LEMMA NotFoundStep ==
    ASSUME NEW r \in Run, run \in [Run -> RunType], NEW complete \in BOOLEAN,
           run' = [run EXCEPT ![r].pc = "settings", ![r].complete = complete]
    PROVE  Becomes(r, "settings", run[r].search, run[r].file, run[r].pdf)
  <1> DEFINE x == [run[r] EXCEPT !.pc = "settings", !.complete = complete]
  <1>1. run[r] \in RunType /\ "settings" # "idle"
    OBVIOUS
  <1>2. x \in RunType
    BY <1>1, Zenon DEF RunType, Phase
  <1>3. /\ x.pc = "settings" /\ x.revision = run[r].revision /\ x.public = run[r].public
        /\ x.search = run[r].search /\ x.file = run[r].file /\ x.pdf = run[r].pdf
    BY <1>1, Zenon DEF RunType
  <1>4. run' = [run EXCEPT ![r] = x]
    BY Zenon
  <1> HIDE DEF x
  <1>5. Shape(r) /\ run'[r] = x
    BY <1>1, <1>2, <1>3, <1>4, RunStepShape, Zenon
  <1> QED
    BY <1>3, <1>5, Zenon DEF Becomes

\* A step that asked for the deletion of what was found.
LEMMA DropStep ==
    ASSUME NEW r \in Run, run \in [Run -> RunType], NEW pc \in {"add", "upload"},
           run' = [run EXCEPT ![r].pc = pc, ![r].ids = {}, ![r].search = "dropped"]
    PROVE  Becomes(r, pc, "dropped", run[r].file, run[r].pdf)
  <1> DEFINE x == [run[r] EXCEPT !.pc = pc, !.ids = {}, !.search = "dropped"]
  <1>1. run[r] \in RunType /\ pc # "idle"
    OBVIOUS
  <1>2. x \in RunType
    BY <1>1, Zenon DEF RunType, Phase
  <1>3. /\ x.pc = pc /\ x.revision = run[r].revision /\ x.public = run[r].public
        /\ x.search = "dropped" /\ x.file = run[r].file /\ x.pdf = run[r].pdf
    BY <1>1, Zenon DEF RunType
  <1>4. run' = [run EXCEPT ![r] = x]
    BY Zenon
  <1> HIDE DEF x
  <1>5. Shape(r) /\ run'[r] = x
    BY <1>1, <1>2, <1>3, <1>4, RunStepShape, Zenon
  <1> QED
    BY <1>3, <1>5, Zenon DEF Becomes

\* A step that asked for the addition of its documents.
LEMMA AddStep ==
    ASSUME NEW r \in Run, run \in [Run -> RunType], TRUE,
           run' = [run EXCEPT ![r].pc = "upload", ![r].search = "added"]
    PROVE  Becomes(r, "upload", "added", run[r].file, run[r].pdf)
  <1> DEFINE x == [run[r] EXCEPT !.pc = "upload", !.search = "added"]
  <1>1. run[r] \in RunType /\ "upload" # "idle"
    OBVIOUS
  <1>2. x \in RunType
    BY <1>1, Zenon DEF RunType, Phase
  <1>3. /\ x.pc = "upload" /\ x.revision = run[r].revision /\ x.public = run[r].public
        /\ x.search = "added" /\ x.file = run[r].file /\ x.pdf = run[r].pdf
    BY <1>1, Zenon DEF RunType
  <1>4. run' = [run EXCEPT ![r] = x]
    BY Zenon
  <1> HIDE DEF x
  <1>5. Shape(r) /\ run'[r] = x
    BY <1>1, <1>2, <1>3, <1>4, RunStepShape, Zenon
  <1> QED
    BY <1>3, <1>5, Zenon DEF Becomes

\* A step that stored a file.
LEMMA StoreStep ==
    ASSUME NEW r \in Run, run \in [Run -> RunType], NEW file \in Nat,
           run' = [run EXCEPT ![r].pc = "record", ![r].pdf = file]
    PROVE  Becomes(r, "record", run[r].search, run[r].file, file)
  <1> DEFINE x == [run[r] EXCEPT !.pc = "record", !.pdf = file]
  <1>1. run[r] \in RunType /\ "record" # "idle"
    OBVIOUS
  <1>2. x \in RunType
    BY <1>1, Zenon DEF RunType, Phase
  <1>3. /\ x.pc = "record" /\ x.revision = run[r].revision /\ x.public = run[r].public
        /\ x.search = run[r].search /\ x.file = run[r].file /\ x.pdf = file
    BY <1>1, Zenon DEF RunType
  <1>4. run' = [run EXCEPT ![r] = x]
    BY Zenon
  <1> HIDE DEF x
  <1>5. Shape(r) /\ run'[r] = x
    BY <1>1, <1>2, <1>3, <1>4, RunStepShape, Zenon
  <1> QED
    BY <1>3, <1>5, Zenon DEF Becomes

\* The start of a run reads the row; what it says of the others is in their flags.
LEMMA StartStep ==
    ASSUME NEW r \in Run, StateInv, RemoteUpsert(r)
    PROVE  /\ Becomes(r, "find", run[r].search, pdf_external_id, run[r].pdf)
           /\ run[r].pc = "idle"
           /\ pdf_external_id \in 0 .. Len(files)
  <1> DEFINE x == [run[r] EXCEPT !.pc = "find", !.public = visibility,
                                 !.file = pdf_external_id, !.alone = \A p \in Run : ~ Active(p)]
             y(q) == [run[q] EXCEPT !.alone = run[q].alone /\ ~ Active(q)]
  <1>1. \A q \in Run : run[q] \in RunType
    BY Zenon DEF StateInv, TypeOK
  <1>2. pdf_external_id \in 0 .. Len(files)
    <2>1. pdfs \in Seq([revision : Run \cup {NoRun}, file : 1 .. Len(files)])
      BY Zenon DEF StateInv, TypeOK
    <2>2. files \in Seq(Revision)
      BY Zenon DEF StateInv, TypeOK
    <2>3. CASE pdfs = <<>>
      BY <2>2, <2>3 DEF pdf_external_id
    <2>4. CASE pdfs # <<>>
      <3>1. Last(pdfs) \in [revision : Run \cup {NoRun}, file : 1 .. Len(files)]
        <4> DEFINE PdfRow == [revision : Run \cup {NoRun}, file : 1 .. Len(files)]
        <4>1. pdfs \in Seq(PdfRow)
          BY <2>1
        <4> HIDE DEF PdfRow
        <4>2. Len(pdfs) \in 1 .. Len(pdfs)
          BY <2>4, <4>1
        <4>3. pdfs[Len(pdfs)] \in PdfRow
          BY <4>1, <4>2
        <4> QED
          BY <4>3 DEF Last, PdfRow
      <3>2. Last(pdfs).file \in 1 .. Len(files)
        BY <3>1, Zenon
      <3> QED
        BY <2>2, <2>4, <3>2 DEF pdf_external_id
    <2> QED
      BY <2>3, <2>4
  <1>3. visibility \in BOOLEAN /\ (\A p \in Run : ~ Active(p)) \in BOOLEAN
    BY Zenon DEF StateInv, TypeOK
  <1>4. pdf_external_id \in Nat
    BY <1>2
  <1>5. "find" \in Phase
    BY DEF Phase
  <1>6. x \in RunType
    BY <1>1, <1>3, <1>4, <1>5, Zenon DEF RunType
  <1>7. /\ x.pc = "find" /\ x.revision = run[r].revision
        /\ x.search = run[r].search /\ x.file = pdf_external_id /\ x.pdf = run[r].pdf
    BY <1>1, Zenon DEF RunType
  <1>8. ASSUME NEW q \in Run
        PROVE  /\ y(q) \in RunType /\ y(q).pc = run[q].pc
               /\ y(q).revision = run[q].revision /\ y(q).public = run[q].public
               /\ y(q).search = run[q].search /\ y(q).file = run[q].file
               /\ y(q).pdf = run[q].pdf
    <2>1. run[q] \in RunType /\ (run[q].alone /\ ~ Active(q)) \in BOOLEAN
      BY <1>1, Zenon DEF Active
    <2> QED
      BY <2>1, Zenon DEF RunType
  <1>9. run[r].pc = "idle" /\ run' = [q \in Run |-> IF q = r THEN x ELSE y(q)]
    BY Zenon DEF RemoteUpsert, Started
  <1> HIDE DEF x, y
  <1>10. run' \in [Run -> RunType] /\ run'[r] = x /\ \A q \in Run \ {r} : run'[q] = y(q)
    BY <1>6, <1>8, <1>9
  <1>11. \A q \in Run \ {r} : Same(q)
    BY <1>8, <1>10, Zenon DEF Same
  <1>12. run'[r].revision = run[r].revision /\ run'[r].pc = "find" /\ "find" # "idle"
    BY <1>7, <1>10
  <1>13. Shape(r)
    BY <1>9, <1>10, <1>11, <1>12, Zenon DEF Shape
  <1> QED
    BY <1>2, <1>7, <1>9, <1>10, <1>13, Zenon DEF Becomes

\* What the other variables are after a step, apart from the files.
OthersTyped ==
    /\ visibility' \in BOOLEAN
    /\ changes' \in Nat
    /\ tasks' \in Seq(TaskType \cup {SettingsTask})
    /\ served' \subseteq Doc
    /\ filterable' \in BOOLEAN
    /\ lastAdd' \in Run \cup {NoRun}
    /\ started' \in Seq(Run)

FilesTyped ==
    /\ files' \in Seq(Revision)
    /\ pdfs' \in Seq([revision : Run \cup {NoRun}, file : 1 .. Len(files')])
    /\ Len(files') >= Len(files)

LEMMA StaysTyped ==
    ASSUME NEW r \in Run, StateInv, OthersTyped, FilesTyped,
           NEW pc, NEW search, NEW file \in 0 .. Len(files'), NEW pdf \in 0 .. Len(files'),
           Becomes(r, pc, search, file, pdf), pc = "record" => pdf # 0
    PROVE  StateInv'
  <1>1. run' \in [Run -> RunType]
    BY Zenon DEF Becomes, Shape
  <1>2. TypeOK'
    BY <1>1, Zenon DEF TypeOK, OthersTyped, FilesTyped
  <1>3. FilesInv'
    <2> SUFFICES ASSUME NEW q \in Run
                 PROVE  /\ run'[q].file \in 0 .. Len(files')
                        /\ run'[q].pdf \in 0 .. Len(files')
                        /\ run'[q].pc = "record" => run'[q].pdf # 0
      BY Zenon DEF FilesInv
    <2>1. CASE q = r
      BY <2>1, Zenon DEF Becomes
    <2>2. CASE q # r
      <3>1. Same(q)
        BY <2>2, Zenon DEF Becomes, Shape
      <3>2. /\ run[q].file \in 0 .. Len(files) /\ run[q].pdf \in 0 .. Len(files)
            /\ run[q].pc = "record" => run[q].pdf # 0
        BY Zenon DEF StateInv, FilesInv
      <3>3. files \in Seq(Revision) /\ files' \in Seq(Revision) /\ Len(files') >= Len(files)
        BY Zenon DEF StateInv, TypeOK, FilesTyped
      <3>4. \A n \in 0 .. Len(files) : n \in 0 .. Len(files')
        BY <3>3, SMT
      <3> QED
        BY <3>1, <3>2, <3>4, Zenon DEF Same
    <2> QED
      BY <2>1, <2>2
  <1> QED
    BY <1>2, <1>3, Zenon DEF StateInv

-----------------------------------------------------------------------------
(* What the steps of a run do to the search index. *)

\* A step that asks nothing of the service.
Quiet(r) ==
    /\ \E pc : \E file : \E pdf : /\ Becomes(r, pc, run[r].search, file, pdf)
                                  /\ pc # "add" /\ (pc = "delete" => filterable)
    /\ UNCHANGED index

Asks(r, task) ==
    /\ tasks' = Append(tasks, task)
    /\ UNCHANGED <<served, filterable>>

Settles(r) ==
    /\ Asks(r, SettingsTask)
    /\ \E pc : Becomes(r, pc, run[r].search, run[r].file, run[r].pdf)
    /\ UNCHANGED lastAdd

Drops(r) ==
    /\ run[r].pc = "delete"
    /\ \E ids : Asks(r, [kind |-> "delete", ids |-> ids, docs |-> {}])
    /\ \E pc : Becomes(r, pc, "dropped", run[r].file, run[r].pdf)
    /\ UNCHANGED lastAdd

Adds(r) ==
    /\ run[r].pc = "add"
    /\ Asks(r, [kind |-> "add", ids |-> {}, docs |-> Documents(r)])
    /\ Becomes(r, "upload", "added", run[r].file, run[r].pdf)
    /\ lastAdd' = r

LEMMA Unchanged ==
    ASSUME StateInv
    PROVE  /\ UNCHANGED <<row, index, started>> => OthersTyped
           /\ UNCHANGED drive => FilesTyped
           /\ UNCHANGED drive => Len(files') = Len(files)
           /\ run \in [Run -> RunType]
  <1>1. UNCHANGED <<row, index, started>> => OthersTyped
    BY Zenon DEF StateInv, TypeOK, OthersTyped, row, index
  <1>2. run \in [Run -> RunType] /\ files \in Seq(Revision)
    BY Zenon DEF StateInv, TypeOK
  <1>3. UNCHANGED drive => files' = files /\ pdfs' = pdfs
    BY DEF drive
  <1>4. pdfs \in Seq([revision : Run \cup {NoRun}, file : 1 .. Len(files)])
    BY Zenon DEF StateInv, TypeOK
  <1>5. Len(files) >= Len(files)
    BY <1>2
  <1>6. UNCHANGED drive => FilesTyped
    BY <1>2, <1>3, <1>4, <1>5, Zenon DEF FilesTyped
  <1> QED
    BY <1>1, <1>2, <1>3, <1>6, Zenon

\* A step that leaves the service and the drive alone.
LEMMA QuietStep ==
    ASSUME NEW r \in Run, StateInv, NEW pc, NEW file \in 0 .. Len(files), 
           Becomes(r, pc, run[r].search, file, run[r].pdf),
           pc # "add", pc # "record", pc = "delete" => filterable,
           OthersTyped, UNCHANGED <<index, drive>>
    PROVE  StateInv' /\ Quiet(r)
  <1>1. FilesTyped /\ Len(files') = Len(files)
    BY Unchanged DEF drive
  <1>2. run[r].pdf \in 0 .. Len(files)
    BY Zenon DEF StateInv, FilesInv
  <1>3. StateInv'
    BY <1>1, <1>2, StaysTyped, Zenon
  <1>4. UNCHANGED index
    OBVIOUS
  <1> QED
    BY <1>3, <1>4, Zenon DEF Quiet

\* A step that asks the service for something and leaves the drive alone.
LEMMA AskingStep ==
    ASSUME NEW r \in Run, StateInv, NEW pc, NEW search, pc # "record",
           Becomes(r, pc, search, run[r].file, run[r].pdf), OthersTyped, UNCHANGED drive
    PROVE  StateInv'
  <1>1. FilesTyped /\ Len(files') = Len(files)
    BY Unchanged
  <1>2. run[r].pdf \in 0 .. Len(files) /\ run[r].file \in 0 .. Len(files)
    BY Zenon DEF StateInv, FilesInv
  <1> QED
    BY <1>1, <1>2, StaysTyped, Zenon

LEMMA TaskTyped ==
    ASSUME StateInv, NEW task \in TaskType \cup {SettingsTask}, tasks' = Append(tasks, task),
           lastAdd' \in Run \cup {NoRun}, UNCHANGED <<row, served, filterable, started>>
    PROVE  OthersTyped
  <1>1. tasks \in Seq(TaskType \cup {SettingsTask})
    BY Zenon DEF StateInv, TypeOK
  <1>2. tasks' \in Seq(TaskType \cup {SettingsTask})
    BY <1>1
  <1>3. visibility' = visibility /\ changes' = changes /\ served' = served
        /\ filterable' = filterable /\ started' = started
    BY DEF row
  <1> QED
    BY <1>2, <1>3, Zenon DEF OthersTyped, StateInv, TypeOK

LEMMA DocumentsTyped ==
    ASSUME StateInv, NEW r \in Run
    PROVE  Documents(r) \subseteq Doc
  <1>1. run[r] \in RunType
    BY Zenon DEF StateInv, TypeOK
  <1>2. run[r].revision \in Revision /\ run[r].public \in BOOLEAN
    BY <1>1, Zenon DEF RunType
  <1>3. sections[run[r].revision] \subseteq SectionId
    BY <1>2, ArtifactsAssumption
  <1> QED
    BY <1>2, <1>3, Zenon DEF Documents, Doc

\* Every step of a run keeps the types, and is of one of the four sorts.
LEMMA RunSteps ==
    ASSUME NEW r \in Run, StateInv, RunStep(r)
    PROVE  StateInv' /\ (Quiet(r) \/ Settles(r) \/ Drops(r) \/ Adds(r))
  <1>0. /\ run \in [Run -> RunType] /\ run[r] \in RunType
        /\ run[r].file \in 0 .. Len(files) /\ run[r].pdf \in 0 .. Len(files)
        /\ files \in Seq(Revision) /\ 0 \in 0 .. Len(files)
    <2>1. run \in [Run -> RunType] /\ files \in Seq(Revision)
      BY Zenon DEF StateInv, TypeOK
    <2>2. run[r].file \in 0 .. Len(files) /\ run[r].pdf \in 0 .. Len(files)
      BY Zenon DEF StateInv, FilesInv
    <2>3. run[r] \in RunType
      BY <2>1, Zenon
    <2>4. 0 \in 0 .. Len(files)
      BY <2>1
    <2> QED
      BY <2>1, <2>2, <2>3, <2>4, Zenon
  <1>1. CASE RemoteUpsert(r)
    <2>1. /\ Becomes(r, "find", run[r].search, pdf_external_id, run[r].pdf)
          /\ pdf_external_id \in 0 .. Len(files)
      BY <1>1, StartStep
    <2>2. started' = Append(started, r) /\ UNCHANGED <<row, index, drive>>
      BY <1>1, Zenon DEF RemoteUpsert, Started
    <2>3. OthersTyped
      <3>1. started \in Seq(Run)
        BY Zenon DEF StateInv, TypeOK
      <3>2. started' \in Seq(Run)
        BY <2>2, <3>1
      <3>3. /\ visibility' = visibility /\ changes' = changes /\ served' = served
            /\ filterable' = filterable /\ tasks' = tasks /\ lastAdd' = lastAdd
        BY <2>2 DEF row, index
      <3> QED
        BY <3>2, <3>3, Zenon DEF OthersTyped, StateInv, TypeOK
    <2>4. "find" # "add" /\ "find" # "record" /\ "find" # "delete"
      OBVIOUS
    <2> QED
      BY <2>1, <2>2, <2>3, <2>4, QuietStep
  <1>2. CASE PersistedUpsert(r)
    <2>1. /\ run' = [run EXCEPT ![r].pc = "done"] /\ visibility' \in {visibility, run[r].public}
          /\ UNCHANGED <<changes, index, drive, started>>
      BY <1>2, Zenon DEF PersistedUpsert
    <2>2. Becomes(r, "done", run[r].search, run[r].file, run[r].pdf)
      BY <1>0, <2>1, PhaseStep DEF Phase
    <2>3. OthersTyped
      <3>1. run[r].public \in BOOLEAN
        BY <1>0, Zenon DEF RunType
      <3>2. /\ changes' = changes /\ served' = served /\ started' = started
            /\ filterable' = filterable /\ tasks' = tasks /\ lastAdd' = lastAdd
        BY <2>1 DEF index
      <3> QED
        BY <2>1, <3>1, <3>2, Zenon DEF OthersTyped, StateInv, TypeOK
    <2> QED
      <3>1. UNCHANGED <<index, drive>>
        BY <2>1
      <3>2. "done" # "add" /\ "done" # "record" /\ "done" # "delete"
        OBVIOUS
      <3> QED
        BY <1>0, <2>2, <2>3, <3>1, <3>2, QuietStep, Zenon
  <1>3. CASE FailRun(r)
    <2>1. run' = [run EXCEPT ![r].pc = "failed"] /\ UNCHANGED <<row, index, drive, started>>
      BY <1>3, Zenon DEF FailRun
    <2>2. Becomes(r, "failed", run[r].search, run[r].file, run[r].pdf)
      BY <1>0, <2>1, PhaseStep DEF Phase
    <2> QED
      <3>1. OthersTyped /\ UNCHANGED <<index, drive>>
        BY <2>1, Unchanged
      <3>2. "failed" # "add" /\ "failed" # "record" /\ "failed" # "delete"
        OBVIOUS
      <3> QED
        BY <1>0, <2>2, <3>1, <3>2, QuietStep, Zenon
  <1>4. CASE SearchFails(r)
    <2>1. run' = [run EXCEPT ![r].pc = "upload"] /\ UNCHANGED <<row, index, drive, started>>
      BY <1>4, Zenon DEF SearchFails, SearchEnds, index
    <2>2. Becomes(r, "upload", run[r].search, run[r].file, run[r].pdf)
      BY <1>0, <2>1, PhaseStep DEF Phase
    <2> QED
      <3>1. OthersTyped /\ UNCHANGED <<index, drive>>
        BY <2>1, Unchanged
      <3>2. "upload" # "add" /\ "upload" # "record" /\ "upload" # "delete"
        OBVIOUS
      <3> QED
        BY <1>0, <2>2, <3>1, <3>2, QuietStep, Zenon
  <1>5. CASE PdfFails(r)
    <2>1. run' = [run EXCEPT ![r].pc = "end"] /\ UNCHANGED <<row, index, drive, started>>
      BY <1>5, Zenon DEF PdfFails
    <2>2. Becomes(r, "end", run[r].search, run[r].file, run[r].pdf)
      BY <1>0, <2>1, PhaseStep DEF Phase
    <2> QED
      <3>1. OthersTyped /\ UNCHANGED <<index, drive>>
        BY <2>1, Unchanged
      <3>2. "end" # "add" /\ "end" # "record" /\ "end" # "delete"
        OBVIOUS
      <3> QED
        BY <1>0, <2>2, <3>1, <3>2, QuietStep, Zenon
  <1>6. CASE find_rfd_ids(r)
    <2>1. PICK ids \in SUBSET {d.section : d \in served} :
            run' = [run EXCEPT ![r].pc = "delete", ![r].ids = ids,
                               ![r].complete = (tasks = <<>> /\ Cardinality(ids) < Limit)]
      BY <1>6, Zenon DEF find_rfd_ids
    <2>2. filterable /\ UNCHANGED <<row, index, drive, started>>
      BY <1>6, Zenon DEF find_rfd_ids
    <2>3. ids \in SUBSET SectionId
      <3>1. served \subseteq Doc
        BY Zenon DEF StateInv, TypeOK
      <3>2. \A d \in served : d.section \in SectionId
        BY <3>1, Zenon DEF Doc
      <3> QED
        BY <3>2, Zenon
    <2>4. (tasks = <<>> /\ Cardinality(ids) < Limit) \in BOOLEAN
      BY Zenon
    <2>5. Becomes(r, "delete", run[r].search, run[r].file, run[r].pdf)
      BY <1>0, <2>1, <2>3, <2>4, SearchStep, Zenon
    <2> QED
      <3>1. OthersTyped /\ UNCHANGED <<index, drive>>
        BY <2>2, Unchanged
      <3>2. "delete" # "add" /\ "delete" # "record" /\ filterable
        BY <2>2
      <3> QED
        BY <1>0, <2>5, <3>1, <3>2, QuietStep, Zenon
  <1>7. CASE IndexNotFound(r)
    <2>1. /\ run' = [run EXCEPT ![r].pc = "settings", ![r].complete = (tasks = <<>>)]
          /\ UNCHANGED <<row, index, drive, started>>
      BY <1>7, Zenon DEF IndexNotFound
    <2>2. (tasks = <<>>) \in BOOLEAN
      BY Zenon
    <2>3. Becomes(r, "settings", run[r].search, run[r].file, run[r].pdf)
      BY <1>0, <2>1, <2>2, NotFoundStep, Zenon
    <2> QED
      <3>1. OthersTyped /\ UNCHANGED <<index, drive>>
        BY <2>1, Unchanged
      <3>2. "settings" # "add" /\ "settings" # "record" /\ "settings" # "delete"
        OBVIOUS
      <3> QED
        BY <1>0, <2>3, <3>1, <3>2, QuietStep, Zenon
  <1>8. CASE set_settings(r)
    <2>1. PICK pc \in {"add", "upload"} : run' = [run EXCEPT ![r].pc = pc]
      BY <1>8, Zenon DEF set_settings
    <2>2. /\ tasks' = Append(tasks, SettingsTask) /\ UNCHANGED lastAdd
          /\ UNCHANGED <<row, served, filterable, drive, started>>
      BY <1>8, Zenon DEF set_settings, Accept
    <2>3. pc \in Phase \ {"idle"} /\ pc # "record"
      BY DEF Phase
    <2>4. Becomes(r, pc, run[r].search, run[r].file, run[r].pdf)
      BY <1>0, <2>1, <2>3, PhaseStep, Zenon
    <2>5. lastAdd' \in Run \cup {NoRun}
      BY <2>2, Zenon DEF StateInv, TypeOK
    <2>6. OthersTyped
      BY <2>2, <2>5, TaskTyped
    <2>7. StateInv'
      BY <2>2, <2>3, <2>4, <2>6, AskingStep
    <2>8. Settles(r)
      BY <2>2, <2>4, Zenon DEF Settles, Asks
    <2> QED
      BY <2>7, <2>8
  <1>9. CASE delete_documents(r)
    <2> DEFINE task == [kind |-> "delete", ids |-> run[r].ids, docs |-> {}]
    <2>1. PICK pc \in {"add", "upload"} :
            run' = [run EXCEPT ![r].pc = pc, ![r].ids = {}, ![r].search = "dropped"]
      BY <1>9, Zenon DEF delete_documents, Deletion
    <2>2. /\ run[r].pc = "delete"
          /\ tasks' = Append(tasks, task) /\ UNCHANGED lastAdd
          /\ UNCHANGED <<row, served, filterable, drive, started>>
      BY <1>9, Zenon DEF delete_documents, Deletion, Accept
    <2>3. pc # "record"
      OBVIOUS
    <2>4. Becomes(r, pc, "dropped", run[r].file, run[r].pdf)
      BY <1>0, <2>1, DropStep, Zenon
    <2>5. lastAdd' \in Run \cup {NoRun}
      BY <2>2, Zenon DEF StateInv, TypeOK
    <2>6. task \in TaskType \cup {SettingsTask}
      <3>1. run[r].ids \in SUBSET SectionId
        BY <1>0, Zenon DEF RunType
      <3> QED
        BY <3>1, Zenon DEF TaskType
    <2> HIDE DEF task
    <2>7. OthersTyped
      BY <2>2, <2>5, <2>6, TaskTyped
    <2>8. StateInv'
      BY <2>2, <2>3, <2>4, <2>7, AskingStep
    <2>9. Drops(r)
      BY <2>2, <2>4, Zenon DEF Drops, Asks, task
    <2> QED
      BY <2>8, <2>9
  <1>10. CASE add_documents(r)
    <2> DEFINE task == [kind |-> "add", ids |-> {}, docs |-> Documents(r)]
    <2>1. /\ run[r].pc = "add"
          /\ run' = [run EXCEPT ![r].pc = "upload", ![r].search = "added"]
          /\ tasks' = Append(tasks, task) \o <<>>
          /\ lastAdd' = r
          /\ UNCHANGED <<row, served, filterable, drive, started>>
      BY <1>10, Zenon DEF add_documents, Addition
    <2>2. Becomes(r, "upload", "added", run[r].file, run[r].pdf)
      BY <1>0, <2>1, AddStep, Zenon
    <2>3. task \in TaskType \cup {SettingsTask}
      BY DocumentsTyped, Zenon DEF TaskType
    <2> HIDE DEF task
    <2>4. tasks' = Append(tasks, task)
      <3>1. tasks \in Seq(TaskType \cup {SettingsTask})
        BY Zenon DEF StateInv, TypeOK
      <3> QED
        BY <2>1, <2>3, <3>1
    <2>5. lastAdd' \in Run \cup {NoRun}
      BY <2>1
    <2>6. OthersTyped
      BY <2>1, <2>3, <2>4, <2>5, TaskTyped
    <2>7. StateInv'
      BY <2>1, <2>2, <2>6, AskingStep
    <2>8. Adds(r)
      BY <2>1, <2>2, <2>4, Zenon DEF Adds, Asks, task
    <2> QED
      BY <2>7, <2>8
  <1>11. CASE store_rfd_pdf(r)
    <2> DEFINE file == IF run[r].file = 0 THEN Len(files) + 1 ELSE run[r].file
    <2>1. /\ run[r].revision \in rendered
          /\ files' = IF run[r].file = 0 THEN Append(files, run[r].revision)
                      ELSE [files EXCEPT ![file] = run[r].revision]
          /\ run' = [run EXCEPT ![r].pc = "record", ![r].pdf = file]
          /\ UNCHANGED <<row, index, pdfs, started>>
      BY <1>11, Zenon DEF store_rfd_pdf, Stored
    <2>2. file \in Nat
      BY <1>0
    <2>3. Becomes(r, "record", run[r].search, run[r].file, file)
      BY <1>0, <2>1, <2>2, StoreStep, Zenon
    <2>4. run[r].revision \in Revision
      BY <1>0, Zenon DEF RunType
    <2>5. /\ files' \in Seq(Revision) /\ Len(files') >= Len(files)
          /\ file \in 0 .. Len(files') /\ file # 0
      <3>1. CASE run[r].file = 0
        BY <1>0, <2>1, <2>4, <3>1
      <3>2. CASE run[r].file # 0
        BY <1>0, <2>1, <2>4, <3>2
      <3> QED
        BY <3>1, <3>2
    <2> HIDE DEF file
    <2>6. OthersTyped /\ UNCHANGED index
      BY <2>1, Unchanged
    <2>7. FilesTyped /\ run[r].file \in 0 .. Len(files')
      <3>1. 1 .. Len(files) \subseteq 1 .. Len(files') /\ run[r].file \in 0 .. Len(files')
        BY <1>0, <2>5
      <3>2. pdfs' = pdfs
        BY <2>1
      <3>3. pdfs \in Seq([revision : Run \cup {NoRun}, file : 1 .. Len(files)])
        BY Zenon DEF StateInv, TypeOK
      <3>4. [revision : Run \cup {NoRun}, file : 1 .. Len(files)]
              \subseteq [revision : Run \cup {NoRun}, file : 1 .. Len(files')]
        BY <3>1, Zenon
      <3>5. pdfs' \in Seq([revision : Run \cup {NoRun}, file : 1 .. Len(files')])
        <4> DEFINE A == [revision : Run \cup {NoRun}, file : 1 .. Len(files)]
                   B == [revision : Run \cup {NoRun}, file : 1 .. Len(files')]
        <4>1. pdfs \in Seq(A) /\ A \subseteq B
          BY <3>3, <3>4
        <4> HIDE DEF A, B
        <4>2. pdfs' \in Seq(B)
          BY <3>2, <4>1
        <4> QED
          BY <4>2 DEF B
      <3> QED
        BY <2>5, <3>1, <3>5, Zenon DEF FilesTyped
    <2>8. StateInv'
      BY <2>3, <2>5, <2>6, <2>7, StaysTyped, Zenon
    <2>9. "record" # "add" /\ "record" # "delete"
      OBVIOUS
    <2> QED
      BY <2>3, <2>6, <2>8, <2>9, Zenon DEF Quiet
  <1>12. CASE RecordPdf(r)
    <2>1. /\ run[r].pc = "record"
          /\ run' = [run EXCEPT ![r].pc = "end"]
          /\ pdfs' = IF Contains(pdfs, RowOf(r)) THEN pdfs ELSE Append(pdfs, RowOf(r))
          /\ UNCHANGED <<row, index, files, started>>
      BY <1>12, Zenon DEF RecordPdf, Record
    <2>2. Becomes(r, "end", run[r].search, run[r].file, run[r].pdf)
      BY <1>0, <2>1, PhaseStep DEF Phase
    <2>3. OthersTyped /\ UNCHANGED index
      BY <2>1, Unchanged
    <2>4. FilesTyped
      <3> DEFINE A == [revision : Run \cup {NoRun}, file : 1 .. Len(files)]
      <3>1. run[r].pdf # 0
        BY <2>1, Zenon DEF StateInv, FilesInv
      <3>2. run[r].pdf \in 1 .. Len(files)
        BY <1>0, <3>1
      <3>3. RowOf(r) \in A
        BY <3>2, Zenon DEF RowOf
      <3>4. pdfs \in Seq(A) /\ files' = files
        BY <2>1, Zenon DEF StateInv, TypeOK
      <3> HIDE DEF A
      <3>5. pdfs' \in Seq(A)
        BY <2>1, <3>3, <3>4
      <3>6. pdfs' \in Seq([revision : Run \cup {NoRun}, file : 1 .. Len(files')])
        BY <3>4, <3>5, Zenon DEF A
      <3>7. Len(files') >= Len(files)
        BY <1>0, <3>4
      <3> QED
        BY <1>0, <3>4, <3>6, <3>7, Zenon DEF FilesTyped
    <2>5. Len(files') = Len(files)
      BY <2>1
    <2>6. "end" # "add" /\ "end" # "delete" /\ "end" # "record"
      OBVIOUS
    <2>7. StateInv'
      BY <1>0, <2>2, <2>3, <2>4, <2>5, <2>6, StaysTyped, Zenon
    <2> QED
      BY <2>2, <2>3, <2>6, <2>7, Zenon DEF Quiet
  <1> QED
    BY <1>1, <1>2, <1>3, <1>4, <1>5, <1>6, <1>7, <1>8, <1>9, <1>10, <1>11, <1>12 DEF RunStep

LEMMA InitState == Init => StateInv
  <1> SUFFICES ASSUME Init PROVE StateInv
    OBVIOUS
  <1> DEFINE start(v) == [pc |-> "idle", revision |-> v, public |-> FALSE, ids |-> {},
                          search |-> "kept", file |-> 0, pdf |-> 0, alone |-> FALSE,
                          complete |-> FALSE]
  <1>1. \A r \in Run : \E v \in Revision : run[r] = start(v)
    BY Zenon DEF Init
  <1>2. ASSUME NEW v \in Revision
        PROVE  /\ start(v) \in RunType
               /\ start(v).pc = "idle" /\ start(v).file = 0 /\ start(v).pdf = 0
    <2>1. "idle" \in Phase /\ 0 \in Nat
      BY DEF Phase
    <2> QED
      BY <2>1, Zenon DEF RunType
  <1> HIDE DEF start
  <1>3. \A r \in Run : run[r] \in RunType
    BY <1>1, <1>2, Zenon
  <1>4. run \in [Run -> RunType]
    <2>1. \E S : run \in [Run -> S]
      BY Zenon DEF Init
    <2> QED
      BY <1>3, <2>1
  <1>5. /\ served \subseteq Doc /\ filterable \in BOOLEAN /\ files \in Seq(Revision)
        /\ pdfs \in Seq([revision : Run \cup {NoRun}, file : 1 .. Len(files)])
    <2>1. CASE Fresh
      <3>1. served = {} /\ filterable \in BOOLEAN /\ files = <<>> /\ pdfs = <<>>
        BY <2>1, Zenon DEF Fresh
      <3> QED
        BY <3>1
    <2>2. ASSUME NEW v \in parses \cap rendered, Indexed(v)
          PROVE  /\ served \subseteq Doc /\ filterable \in BOOLEAN /\ files \in Seq(Revision)
                 /\ pdfs \in Seq([revision : Run \cup {NoRun}, file : 1 .. Len(files)])
      <3>1. v \in Revision /\ sections[v] \subseteq SectionId
        BY ArtifactsAssumption
      <3>2. visibility \in BOOLEAN
        BY Zenon DEF Init
      <3>3. served = [section : sections[v], revision : {v}, public : {visibility}]
        BY <2>2, Zenon DEF Indexed
      <3>4. served \subseteq Doc
        BY <3>1, <3>2, <3>3, Zenon DEF Doc
      <3>5. files = <<v>> /\ pdfs = <<[revision |-> NoRun, file |-> 1]>> /\ filterable = TRUE
        BY <2>2, Zenon DEF Indexed
      <3>6. files \in Seq(Revision) /\ 1 \in 1 .. Len(files)
        BY <3>1, <3>5
      <3>7. [revision |-> NoRun, file |-> 1] \in [revision : Run \cup {NoRun}, file : 1 .. Len(files)]
        BY <3>6, Zenon
      <3>8. pdfs \in Seq([revision : Run \cup {NoRun}, file : 1 .. Len(files)])
        <4> DEFINE A == [revision : Run \cup {NoRun}, file : 1 .. Len(files)]
                   a == [revision |-> NoRun, file |-> 1]
        <4>1. a \in A /\ pdfs = <<a>>
          BY <3>5, <3>7
        <4> HIDE DEF A, a
        <4>2. pdfs \in Seq(A)
          BY <4>1
        <4> QED
          BY <4>2 DEF A
      <3> QED
        BY <3>4, <3>5, <3>6, <3>8, Zenon
    <2> QED
      BY <2>1, <2>2, Zenon DEF Init
  <1>6. /\ visibility \in BOOLEAN /\ changes \in Nat /\ tasks \in Seq(TaskType \cup {SettingsTask})
        /\ lastAdd \in Run \cup {NoRun} /\ started \in Seq(Run)
    <2>1. visibility = FALSE /\ changes = 0 /\ tasks = <<>> /\ lastAdd = NoRun /\ started = <<>>
      BY Zenon DEF Init
    <2>2. visibility \in BOOLEAN
      BY <2>1, Zenon
    <2>3. changes \in Nat /\ lastAdd \in Run \cup {NoRun}
      BY <2>1
    <2>4. tasks \in Seq(TaskType \cup {SettingsTask}) /\ started \in Seq(Run)
      BY <2>1
    <2> QED
      BY <2>2, <2>3, <2>4
  <1>7. TypeOK
    BY <1>4, <1>5, <1>6, Zenon DEF TypeOK
  <1>8. FilesInv
    <2>1. \A r \in Run : run[r].file = 0 /\ run[r].pdf = 0 /\ run[r].pc = "idle"
      BY <1>1, <1>2, Zenon
    <2>2. 0 \in 0 .. Len(files)
      BY <1>5
    <2>3. "idle" # "record"
      OBVIOUS
    <2> QED
      BY <2>1, <2>2, <2>3, Zenon DEF FilesInv
  <1> QED
    BY <1>7, <1>8 DEF StateInv

\* The steps of the API and of the service leave the runs and the files alone.
LEMMA OtherStep ==
    ASSUME StateInv, OthersTyped, UNCHANGED <<run, drive>>
    PROVE  StateInv'
  <1>1. FilesTyped
    BY Unchanged
  <1>2. run' = run /\ files' = files
    BY DEF drive
  <1>3. TypeOK'
    BY <1>1, <1>2, Zenon DEF StateInv, TypeOK, OthersTyped, FilesTyped
  <1>4. FilesInv'
    BY <1>2, Zenon DEF StateInv, FilesInv
  <1> QED
    BY <1>3, <1>4 DEF StateInv

LEMMA VisibilityStep ==
    ASSUME StateInv, update_rfd_visibility
    PROVE  StateInv' /\ UNCHANGED <<run, index>>
  <1>1. /\ changes' = changes + 1 /\ visibility' = ~ visibility
        /\ UNCHANGED <<run, index, drive, started>>
    BY Zenon DEF update_rfd_visibility
  <1>2. OthersTyped
    <2>1. changes \in Nat
      BY Zenon DEF StateInv, TypeOK
    <2>2. changes' \in Nat
      BY <1>1, <2>1
    <2>3. visibility' \in BOOLEAN
      BY <1>1, Zenon
    <2>4. /\ served' = served /\ filterable' = filterable /\ tasks' = tasks
          /\ lastAdd' = lastAdd /\ started' = started
      BY <1>1 DEF index
    <2> QED
      BY <2>2, <2>3, <2>4, Zenon DEF OthersTyped, StateInv, TypeOK
  <1> QED
    BY <1>1, <1>2, OtherStep

\* What the service does with its oldest task.
Replaces(t) == t.ids \cup {d.section : d \in t.docs}

LEMMA TaskStep ==
    ASSUME StateInv, ProcessTask
    PROVE  /\ StateInv'
           /\ tasks # <<>> /\ tasks' = Tail(tasks)
           /\ served' = {d \in served : d.section \notin Replaces(Head(tasks))} \cup Head(tasks).docs
           /\ filterable' = (filterable \/ Head(tasks).kind = "settings")
           /\ UNCHANGED <<run, lastAdd>>
  <1>1. /\ tasks # <<>> /\ tasks' = Tail(tasks)
        /\ served' = {d \in served : d.section \notin Replaces(Head(tasks))} \cup Head(tasks).docs
        /\ filterable' = (filterable \/ Head(tasks).kind = "settings")
        /\ UNCHANGED <<row, run, drive, lastAdd, started>>
    BY Zenon DEF ProcessTask, Replaces
  <1>2. tasks \in Seq(TaskType \cup {SettingsTask})
    BY Zenon DEF StateInv, TypeOK
  <1>3. Head(tasks) \in TaskType \cup {SettingsTask} /\ tasks' \in Seq(TaskType \cup {SettingsTask})
    BY <1>1, <1>2
  <1>4. Head(tasks).docs \subseteq Doc
    <2>1. CASE Head(tasks) \in TaskType
      BY <2>1, Zenon DEF TaskType
    <2>2. CASE Head(tasks) = SettingsTask
      BY <2>2 DEF SettingsTask
    <2> QED
      BY <1>3, <2>1, <2>2
  <1>5. served' \subseteq Doc
    <2>1. served \subseteq Doc
      BY Zenon DEF StateInv, TypeOK
    <2> QED
      BY <1>1, <1>4, <2>1, Zenon
  <1>6. OthersTyped
    <2>1. filterable' \in BOOLEAN
      BY <1>1, Zenon
    <2>2. visibility' = visibility /\ changes' = changes /\ lastAdd' = lastAdd /\ started' = started
      BY <1>1 DEF row
    <2> QED
      BY <1>3, <1>5, <2>1, <2>2, Zenon DEF OthersTyped, StateInv, TypeOK
  <1>7. StateInv'
    BY <1>1, <1>6, OtherStep
  <1> QED
    BY <1>1, <1>7, Zenon

LEMMA StateStep == StateInv /\ [Next]_vars => StateInv'
  <1>1. ASSUME StateInv, UNCHANGED vars PROVE StateInv'
    BY <1>1, Unchanged, OtherStep DEF vars
  <1> QED
    BY <1>1, RunSteps, VisibilityStep, TaskStep DEF Next

\* Whatever runs do and wherever they fail, every variable has its type, and the files
\* that runs and records know exist.
THEOREM ArtifactTypes == Spec => []TypeOK
  <1>1. Spec => []StateInv
    BY InitState, StateStep, PTL DEF Spec
  <1>2. StateInv => TypeOK
    BY DEF StateInv
  <1> QED
    BY <1>1, <1>2, PTL

-----------------------------------------------------------------------------
(* The queue of the service. *)

LEMMA Appended ==
    ASSUME StateInv, NEW r, NEW task, Asks(r, task)
    PROVE  /\ Len(tasks') = Len(tasks) + 1 /\ Len(tasks) \in Nat
           /\ \A i \in 1 .. Len(tasks) : tasks'[i] = tasks[i]
           /\ tasks'[Len(tasks')] = task
  <1>1. tasks \in Seq(TaskType \cup {SettingsTask}) /\ tasks' = Append(tasks, task)
    BY Zenon DEF StateInv, TypeOK, Asks
  <1> QED
    BY <1>1

LEMMA Taken ==
    ASSUME StateInv, tasks # <<>>, tasks' = Tail(tasks)
    PROVE  /\ Len(tasks') = Len(tasks) - 1 /\ Len(tasks) \in Nat \ {0}
           /\ \A i \in 1 .. Len(tasks') : tasks'[i] = tasks[i + 1]
           /\ Head(tasks) = tasks[1]
  <1>1. tasks \in Seq(TaskType \cup {SettingsTask})
    BY Zenon DEF StateInv, TypeOK
  <1> QED
    BY <1>1

-----------------------------------------------------------------------------
(* The settings come first. *)

\* The index can be filtered when the first n tasks are done.
Settled(n) == filterable \/ \E j \in 1 .. n : tasks[j].kind = "settings"

SettingsInv ==
    /\ served # {} => filterable
    /\ \A i \in 1 .. Len(tasks) : tasks[i].docs # {} => Settled(i - 1)
    /\ \A r \in Run : run[r].pc \in {"delete", "add"} => Settled(Len(tasks))

\* What a step of a run leaves of this, when it sends nothing with documents.
LEMMA AskSettled ==
    ASSUME StateInv, SettingsInv, NEW r, NEW task, Asks(r, task),
           task.docs # {} => Settled(Len(tasks))
    PROVE  /\ served' # {} => filterable'
           /\ \A n \in 0 .. Len(tasks) : Settled(n) => Settled(n)'
           /\ \A i \in 1 .. Len(tasks') : tasks'[i].docs # {} => Settled(i - 1)'
           /\ Settled(Len(tasks)) \/ task.kind = "settings" => Settled(Len(tasks))'
  <1>1. served' = served /\ filterable' = filterable
    BY Zenon DEF Asks
  <1>2. /\ Len(tasks') = Len(tasks) + 1 /\ Len(tasks) \in Nat
        /\ \A i \in 1 .. Len(tasks) : tasks'[i] = tasks[i]
        /\ tasks'[Len(tasks')] = task
    BY Appended
  <1>3. \A n \in 0 .. Len(tasks) : Settled(n) => Settled(n)'
    BY <1>1, <1>2 DEF Settled
  <1>4. ASSUME NEW i \in 1 .. Len(tasks'), tasks'[i].docs # {} PROVE Settled(i - 1)'
    <2>1. CASE i = Len(tasks')
      BY <1>2, <1>3, <1>4, <2>1
    <2>2. CASE i # Len(tasks')
      <3>1. i \in 1 .. Len(tasks) /\ i - 1 \in 0 .. Len(tasks)
        BY <1>2, <2>2
      <3>2. Settled(i - 1)
        BY <1>2, <1>4, <3>1, Zenon DEF SettingsInv
      <3> QED
        BY <1>3, <3>1, <3>2, Zenon
    <2> QED
      BY <2>1, <2>2
  <1>5. ASSUME Settled(Len(tasks)) PROVE Settled(Len(tasks))'
    <2>1. filterable => filterable'
      BY <1>1
    <2>2. ASSUME NEW j \in 1 .. Len(tasks), tasks[j].kind = "settings"
          PROVE  \E k \in 1 .. Len(tasks') : tasks'[k].kind = "settings"
      BY <1>2, <2>2
    <2> QED
      BY <1>5, <2>1, <2>2, Zenon DEF Settled
  <1>6. ASSUME task.kind = "settings" PROVE Settled(Len(tasks))'
    <2>1. Len(tasks') \in 1 .. Len(tasks')
      BY <1>2
    <2> QED
      BY <1>2, <1>6, <2>1, Zenon DEF Settled
  <1>7. served' # {} => filterable'
    BY <1>1, Zenon DEF SettingsInv
  <1> QED
    BY <1>3, <1>4, <1>5, <1>6, <1>7, Zenon

LEMMA SettingsStep ==
    ASSUME StateInv, SettingsInv, [Next]_vars
    PROVE  SettingsInv'
  <1>1. ASSUME NEW r \in Run, Quiet(r) PROVE SettingsInv'
    <2>1. PICK pc, file, pdf : /\ Becomes(r, pc, run[r].search, file, pdf)
                               /\ pc # "add" /\ (pc = "delete" => filterable)
      BY <1>1, Zenon DEF Quiet
    <2>2. /\ tasks' = tasks /\ served' = served /\ filterable' = filterable
          /\ Len(tasks') = Len(tasks)
      BY <1>1 DEF Quiet, index
    <2>3. \A n : Settled(n) => Settled(n)'
      BY <2>2, Zenon DEF Settled
    <2>4. ASSUME NEW q \in Run, run'[q].pc \in {"delete", "add"} PROVE Settled(Len(tasks))'
      <3>1. CASE q = r
        BY <2>1, <2>2, <2>4, <3>1 DEF Becomes, Settled
      <3>2. CASE q # r
        <4>1. run[q].pc = run'[q].pc
          BY <2>1, <3>2, Zenon DEF Becomes, Shape, Same
        <4>2. Settled(Len(tasks))
          BY <2>4, <4>1, Zenon DEF SettingsInv
        <4> QED
          BY <2>2, <4>2, Zenon DEF Settled
      <3> QED
        BY <3>1, <3>2
    <2> QED
      BY <2>2, <2>3, <2>4, Zenon DEF SettingsInv
  <1>2. ASSUME NEW r \in Run, NEW task, Asks(r, task), Shape(r),
               task.docs # {} => Settled(Len(tasks)),
               run[r].pc \in {"delete", "add"} \/ task.kind = "settings"
        PROVE  SettingsInv'
    <2>1. /\ served' # {} => filterable'
          /\ \A i \in 1 .. Len(tasks') : tasks'[i].docs # {} => Settled(i - 1)'
          /\ Settled(Len(tasks)) \/ task.kind = "settings" => Settled(Len(tasks))'
      BY <1>2, AskSettled, Zenon
    <2>2. Settled(Len(tasks))'
      BY <1>2, <2>1, Zenon DEF SettingsInv
    <2> QED
      BY <2>1, <2>2, Zenon DEF SettingsInv
  <1>3. ASSUME NEW r \in Run, Settles(r) PROVE SettingsInv'
    <2>1. Asks(r, SettingsTask) /\ Shape(r)
      BY <1>3, Zenon DEF Settles, Becomes
    <2>2. SettingsTask.docs = {} /\ SettingsTask.kind = "settings"
      BY DEF SettingsTask
    <2> QED
      BY <1>2, <2>1, <2>2, Zenon
  <1>4. ASSUME NEW r \in Run, Drops(r) PROVE SettingsInv'
    <2>1. PICK ids : Asks(r, [kind |-> "delete", ids |-> ids, docs |-> {}])
      BY <1>4, Zenon DEF Drops
    <2>2. Shape(r) /\ run[r].pc = "delete"
      BY <1>4, Zenon DEF Drops, Becomes
    <2>3. [kind |-> "delete", ids |-> ids, docs |-> {}].docs = {}
      OBVIOUS
    <2> QED
      BY <1>2, <2>1, <2>2, <2>3, Zenon
  <1>5. ASSUME NEW r \in Run, Adds(r) PROVE SettingsInv'
    <2>1. /\ Asks(r, [kind |-> "add", ids |-> {}, docs |-> Documents(r)])
          /\ Shape(r) /\ run[r].pc = "add"
      BY <1>5, Zenon DEF Adds, Becomes
    <2>2. Settled(Len(tasks))
      BY <2>1, Zenon DEF SettingsInv
    <2> QED
      BY <1>2, <2>1, <2>2, Zenon
  <1>6. ASSUME UNCHANGED <<run, index>> PROVE SettingsInv'
    <2>1. run' = run /\ tasks' = tasks /\ served' = served /\ filterable' = filterable
      BY <1>6 DEF index
    <2> QED
      BY <2>1 DEF SettingsInv, Settled
  <1>7. ASSUME ProcessTask PROVE SettingsInv'
    <2>1. /\ tasks # <<>> /\ tasks' = Tail(tasks)
          /\ served' = {d \in served : d.section \notin Replaces(Head(tasks))} \cup Head(tasks).docs
          /\ filterable' = (filterable \/ Head(tasks).kind = "settings")
          /\ run' = run
      BY <1>7, TaskStep, Zenon
    <2>2. /\ Len(tasks') = Len(tasks) - 1 /\ Len(tasks) \in Nat \ {0}
          /\ \A i \in 1 .. Len(tasks') : tasks'[i] = tasks[i + 1]
          /\ Head(tasks) = tasks[1]
      BY <2>1, Taken
    <2>3. ASSUME NEW n \in 1 .. Len(tasks), Settled(n) PROVE Settled(n - 1)'
      <3>1. CASE filterable
        BY <2>1, <3>1, Zenon DEF Settled
      <3>2. CASE \E j \in 1 .. n : tasks[j].kind = "settings"
        <4>1. PICK j \in 1 .. n : tasks[j].kind = "settings"
          BY <3>2
        <4>2. CASE j = 1
          BY <2>1, <2>2, <4>1, <4>2, Zenon DEF Settled
        <4>3. CASE j # 1
          <5>1. j - 1 \in 1 .. (n - 1) /\ j - 1 \in 1 .. Len(tasks') /\ (j - 1) + 1 = j
            BY <2>2, <4>3
          <5>2. tasks'[j - 1] = tasks[j]
            BY <2>2, <5>1
          <5> QED
            BY <4>1, <5>1, <5>2, Zenon DEF Settled
        <4> QED
          BY <4>2, <4>3
      <3> QED
        BY <2>3, <3>1, <3>2, Zenon DEF Settled
    <2>4. Head(tasks).docs # {} => filterable
      <3>1. 1 \in 1 .. Len(tasks) /\ 1 - 1 = 0 /\ 1 .. 0 = {}
        BY <2>2
      <3>2. tasks[1].docs # {} => Settled(0)
        BY <3>1 DEF SettingsInv
      <3>3. Settled(0) => filterable
        BY <3>1, Zenon DEF Settled
      <3> QED
        BY <2>2, <3>2, <3>3, Zenon
    <2>5. served' # {} => filterable'
      <3>1. served # {} => filterable
        BY Zenon DEF SettingsInv
      <3> QED
        BY <2>1, <2>4, <3>1, Zenon
    <2>6. ASSUME NEW i \in 1 .. Len(tasks'), tasks'[i].docs # {} PROVE Settled(i - 1)'
      <3>1. i + 1 \in 1 .. Len(tasks) /\ (i + 1) - 1 = i /\ i \in 1 .. Len(tasks)
        BY <2>2
      <3>2. tasks[i + 1].docs # {}
        BY <2>2, <2>6, Zenon
      <3>3. Settled(i)
        BY <3>1, <3>2 DEF SettingsInv
      <3> QED
        BY <2>3, <3>1, <3>3, Zenon
    <2>7. ASSUME NEW q \in Run, run'[q].pc \in {"delete", "add"} PROVE Settled(Len(tasks))'
      <3>1. Settled(Len(tasks))
        BY <2>1, <2>7, Zenon DEF SettingsInv
      <3>2. PICK n \in 1 .. Len(tasks) : n = Len(tasks) /\ Len(tasks') = n - 1
        BY <2>2
      <3>3. Settled(n - 1)'
        BY <2>3, <3>1, <3>2, Zenon
      <3> QED
        BY <3>2, <3>3, Zenon DEF Settled
    <2> QED
      BY <2>5, <2>6, <2>7, Zenon DEF SettingsInv
  <1>8. CASE UNCHANGED vars
    BY <1>6, <1>8 DEF vars
  <1> QED
    BY <1>1, <1>3, <1>4, <1>5, <1>6, <1>7, <1>8, RunSteps, VisibilityStep, Zenon DEF Next

\* No run finds an index that it cannot search while there are documents in it, whichever
\* runs overlap, fail, or lose the answer of the service.
THEOREM CanBeFound == Spec => []DocumentsCanBeFound
  <1>1. Init => SettingsInv
    <2> SUFFICES ASSUME Init PROVE SettingsInv
      OBVIOUS
    <2>1. served # {} => filterable
      <3>1. Fresh \/ \E v \in parses \cap rendered : Indexed(v)
        BY Zenon DEF Init
      <3> QED
        BY <3>1, Zenon DEF Fresh, Indexed
    <2>2. tasks = <<>> /\ Len(tasks) = 0 /\ 1 .. 0 = {}
      <3>1. tasks = <<>>
        BY Zenon DEF Init
      <3> QED
        BY <3>1
    <2>3. \A r \in Run : run[r].pc = "idle"
      BY DEF Init
    <2>4. "idle" \notin {"delete", "add"}
      OBVIOUS
    <2> QED
      BY <2>1, <2>2, <2>3, <2>4, Zenon DEF SettingsInv
  <1>2. Spec => [](StateInv /\ SettingsInv)
    BY <1>1, InitState, StateStep, SettingsStep, PTL DEF Spec
  <1>3. SettingsInv => DocumentsCanBeFound
    BY Zenon DEF SettingsInv, DocumentsCanBeFound
  <1> QED
    BY <1>2, <1>3, PTL

-----------------------------------------------------------------------------
(* What was added last is served. *)

\* A task that replaces or deletes the document of a section.
Touches(t, section) == section \in t.ids \/ \E d \in t.docs : d.section = section

\* None of the tasks after the first n touches the section.
Untouched(n, section) == \A j \in (n + 1) .. Len(tasks) : ~ Touches(tasks[j], section)

\* Once the tasks are done, the document is found.
WillBeServed(d) ==
    \/ d \in served /\ Untouched(0, d.section)
    \/ \E i \in 1 .. Len(tasks) : d \in tasks[i].docs /\ Untouched(i, d.section)

LastInv ==
    lastAdd # NoRun =>
        /\ run[lastAdd].pc # "idle"
        /\ NothingDropped => \A d \in Documents(lastAdd) : WillBeServed(d)

\* A task that touches nothing changes nothing of this, and one that adds a document
\* makes it so.
LEMMA AskServes ==
    ASSUME StateInv, NEW r, NEW task, Asks(r, task), NEW d
    PROVE  /\ WillBeServed(d) /\ ~ Touches(task, d.section) => WillBeServed(d)'
           /\ d \in task.docs => WillBeServed(d)'
  <1>1. served' = served
    BY Zenon DEF Asks
  <1>2. /\ Len(tasks') = Len(tasks) + 1 /\ Len(tasks) \in Nat
        /\ \A i \in 1 .. Len(tasks) : tasks'[i] = tasks[i]
        /\ tasks'[Len(tasks')] = task
    BY Appended
  <1>3. ASSUME ~ Touches(task, d.section), NEW n \in 0 .. Len(tasks), Untouched(n, d.section)
        PROVE  Untouched(n, d.section)'
    <2> SUFFICES ASSUME NEW j \in (n + 1) .. Len(tasks') PROVE ~ Touches(tasks'[j], d.section)
      BY Zenon DEF Untouched, Touches
    <2>1. CASE j = Len(tasks')
      BY <1>2, <1>3, <2>1, Zenon
    <2>2. CASE j # Len(tasks')
      <3>1. j \in (n + 1) .. Len(tasks) /\ j \in 1 .. Len(tasks)
        BY <1>2, <2>2
      <3> QED
        BY <1>2, <1>3, <3>1, Zenon DEF Untouched
    <2> QED
      BY <2>1, <2>2
  <1>4. 0 \in 0 .. Len(tasks) /\ \A i \in 1 .. Len(tasks) : i \in 0 .. Len(tasks) /\ i \in 1 .. Len(tasks')
    BY <1>2
  <1>5. ASSUME WillBeServed(d), ~ Touches(task, d.section) PROVE WillBeServed(d)'
    <2>1. CASE d \in served /\ Untouched(0, d.section)
      BY <1>1, <1>3, <1>4, <1>5, <2>1, Zenon DEF WillBeServed
    <2>2. CASE \E i \in 1 .. Len(tasks) : d \in tasks[i].docs /\ Untouched(i, d.section)
      BY <1>2, <1>3, <1>4, <1>5, <2>2, Zenon DEF WillBeServed
    <2> QED
      BY <1>5, <2>1, <2>2, Zenon DEF WillBeServed
  <1>6. ASSUME d \in task.docs PROVE WillBeServed(d)'
    <2>1. PICK m : m = Len(tasks') /\ m \in 1 .. Len(tasks') /\ (m + 1) .. Len(tasks') = {}
      BY <1>2
    <2>2. Untouched(m, d.section)'
      BY <2>1, Zenon DEF Untouched
    <2> QED
      BY <1>2, <1>6, <2>1, <2>2, Zenon DEF WillBeServed
  <1> QED
    BY <1>5, <1>6, Zenon

\* The service does its oldest task: what would be served still will.
LEMMA TaskServes ==
    ASSUME StateInv, ProcessTask, NEW d, WillBeServed(d)
    PROVE  WillBeServed(d)'
  <1>1. /\ tasks # <<>> /\ tasks' = Tail(tasks)
        /\ served' = {e \in served : e.section \notin Replaces(Head(tasks))} \cup Head(tasks).docs
    BY TaskStep, Zenon
  <1>2. /\ Len(tasks') = Len(tasks) - 1 /\ Len(tasks) \in Nat \ {0}
        /\ \A i \in 1 .. Len(tasks') : tasks'[i] = tasks[i + 1]
        /\ Head(tasks) = tasks[1]
    BY <1>1, Taken
  <1>3. ASSUME NEW n \in 1 .. Len(tasks), Untouched(n, d.section)
        PROVE  Untouched(n - 1, d.section)'
    <2> SUFFICES ASSUME NEW j \in ((n - 1) + 1) .. Len(tasks')
                 PROVE  ~ Touches(tasks'[j], d.section)
      BY Zenon DEF Untouched, Touches
    <2>1. j \in 1 .. Len(tasks') /\ j + 1 \in (n + 1) .. Len(tasks)
      BY <1>2
    <2> QED
      BY <1>2, <1>3, <2>1, Zenon DEF Untouched
  <1>4. ASSUME Untouched(0, d.section) PROVE Untouched(0, d.section)'
    <2> SUFFICES ASSUME NEW j \in (0 + 1) .. Len(tasks')
                 PROVE  ~ Touches(tasks'[j], d.section)
      BY Zenon DEF Untouched, Touches
    <2>1. j \in 1 .. Len(tasks') /\ j + 1 \in (0 + 1) .. Len(tasks)
      BY <1>2
    <2> QED
      BY <1>2, <1>4, <2>1, Zenon DEF Untouched
  <1>5. CASE d \in served /\ Untouched(0, d.section)
    <2>1. 1 \in (0 + 1) .. Len(tasks)
      BY <1>2
    <2>2. ~ Touches(tasks[1], d.section)
      BY <1>5, <2>1, Zenon DEF Untouched
    <2>3. d.section \notin Replaces(Head(tasks))
      BY <1>2, <2>2, Zenon DEF Replaces, Touches
    <2> QED
      BY <1>1, <1>4, <1>5, <2>3, Zenon DEF WillBeServed
  <1>6. CASE \E i \in 1 .. Len(tasks) : d \in tasks[i].docs /\ Untouched(i, d.section)
    <2>1. PICK i \in 1 .. Len(tasks) : d \in tasks[i].docs /\ Untouched(i, d.section)
      BY <1>6
    <2>2. CASE i = 1
      <3>1. d \in served'
        BY <1>1, <1>2, <2>1, <2>2, Zenon
      <3>2. i - 1 = 0
        BY <2>2
      <3>3. Untouched(0, d.section)'
        BY <1>3, <2>1, <3>2, Zenon
      <3> QED
        BY <3>1, <3>3, Zenon DEF WillBeServed
    <2>3. CASE i # 1
      <3>1. i - 1 \in 1 .. Len(tasks') /\ (i - 1) + 1 = i
        BY <1>2, <2>3
      <3>2. tasks'[i - 1] = tasks[i]
        BY <1>2, <3>1
      <3>3. Untouched(i - 1, d.section)'
        BY <1>3, <2>1, Zenon
      <3> QED
        BY <2>1, <3>1, <3>2, <3>3, Zenon DEF WillBeServed
    <2> QED
      BY <2>2, <2>3
  <1> QED
    BY <1>5, <1>6, Zenon DEF WillBeServed

\* A run that has started keeps what it adds, and nothing but its own deletion and
\* addition changes what it did to the index.
LEMMA ShapeKeeps ==
    ASSUME NEW r \in Run, NEW pc, NEW search, NEW file, NEW pdf,
           Becomes(r, pc, search, file, pdf), NEW q \in Run, run[q].pc # "idle"
    PROVE  /\ run'[q].pc # "idle"
           /\ Documents(q)' = Documents(q)
  <1>1. /\ run'[q].pc # "idle" /\ run'[q].revision = run[q].revision
        /\ run'[q].public = run[q].public
    <2>1. CASE q = r
      BY <2>1, Zenon DEF Becomes, Shape
    <2>2. CASE q # r
      BY <2>2, Zenon DEF Becomes, Shape, Same
    <2> QED
      BY <2>1, <2>2
  <1> QED
    BY <1>1, Zenon DEF Documents

LEMMA SearchKept ==
    ASSUME NEW r \in Run, NEW pc, NEW file, NEW pdf,
           Becomes(r, pc, run[r].search, file, pdf), NothingDropped'
    PROVE  NothingDropped
  <1>1. ASSUME NEW q \in Run PROVE run'[q].search = run[q].search
    <2>1. CASE q = r
      BY <2>1, Zenon DEF Becomes
    <2>2. CASE q # r
      BY <2>2, Zenon DEF Becomes, Shape, Same
    <2> QED
      BY <2>1, <2>2
  <1> QED
    BY <1>1, Zenon DEF NothingDropped

LEMMA LastStep ==
    ASSUME StateInv, LastInv, [Next]_vars
    PROVE  LastInv'
  <1>0. lastAdd \in Run \cup {NoRun} /\ NoRun \notin Run
    BY ArtifactsAssumption, Zenon DEF StateInv, TypeOK
  <1>1. ASSUME NEW r \in Run, NEW pc, NEW file, NEW pdf,
               Becomes(r, pc, run[r].search, file, pdf), lastAdd' = lastAdd,
               \A d : WillBeServed(d) => WillBeServed(d)'
        PROVE  LastInv'
    <2> SUFFICES ASSUME lastAdd # NoRun
                 PROVE  /\ run'[lastAdd].pc # "idle"
                        /\ NothingDropped' => \A d \in Documents(lastAdd)' : WillBeServed(d)'
      BY <1>1, Zenon DEF LastInv
    <2>1. PICK q \in Run : q = lastAdd
      BY <1>0
    <2>2. run[q].pc # "idle" /\ (NothingDropped => \A d \in Documents(q) : WillBeServed(d))
      BY <2>1, Zenon DEF LastInv
    <2>3. run'[q].pc # "idle" /\ Documents(q)' = Documents(q)
      BY <1>1, <2>2, ShapeKeeps, Zenon
    <2>4. Documents(lastAdd)' = Documents(q)'
      BY <1>1, <2>1, Zenon DEF Documents
    <2>5. NothingDropped' => NothingDropped
      BY <1>1, SearchKept, Zenon
    <2> QED
      BY <1>1, <2>1, <2>2, <2>3, <2>4, <2>5, Zenon
  <1>2. ASSUME NEW r \in Run, Quiet(r) PROVE LastInv'
    <2>1. PICK pc, file, pdf : Becomes(r, pc, run[r].search, file, pdf)
      BY <1>2, Zenon DEF Quiet
    <2>2. tasks' = tasks /\ served' = served /\ lastAdd' = lastAdd
      BY <1>2 DEF Quiet, index
    <2>3. \A d : WillBeServed(d) => WillBeServed(d)'
      BY <2>2, Zenon DEF WillBeServed, Untouched, Touches
    <2> QED
      BY <1>1, <2>1, <2>2, <2>3, Zenon
  <1>3. ASSUME NEW r \in Run, Settles(r) PROVE LastInv'
    <2>1. PICK pc : Becomes(r, pc, run[r].search, run[r].file, run[r].pdf)
      BY <1>3, Zenon DEF Settles
    <2>2. Asks(r, SettingsTask) /\ lastAdd' = lastAdd
      BY <1>3, Zenon DEF Settles
    <2>3. \A d : ~ Touches(SettingsTask, d.section)
      BY DEF Touches, SettingsTask
    <2>4. \A d : WillBeServed(d) => WillBeServed(d)'
      BY <2>2, <2>3, AskServes, Zenon
    <2> QED
      BY <1>1, <2>1, <2>2, <2>4, Zenon
  <1>4. ASSUME NEW r \in Run, Drops(r) PROVE LastInv'
    <2>1. PICK pc : Becomes(r, pc, "dropped", run[r].file, run[r].pdf)
      BY <1>4, Zenon DEF Drops
    <2>2. lastAdd' = lastAdd
      BY <1>4, Zenon DEF Drops
    <2>3. ~ NothingDropped'
      BY <2>1, Zenon DEF NothingDropped, Becomes
    <2>4. ASSUME lastAdd # NoRun PROVE run'[lastAdd].pc # "idle"
      <3>1. lastAdd \in Run /\ run[lastAdd].pc # "idle"
        BY <1>0, <2>4, Zenon DEF LastInv
      <3> QED
        BY <2>1, <3>1, ShapeKeeps, Zenon
    <2> QED
      BY <2>2, <2>3, <2>4, Zenon DEF LastInv
  <1>5. ASSUME NEW r \in Run, Adds(r) PROVE LastInv'
    <2>1. /\ Asks(r, [kind |-> "add", ids |-> {}, docs |-> Documents(r)])
          /\ Becomes(r, "upload", "added", run[r].file, run[r].pdf)
          /\ lastAdd' = r /\ run[r].pc = "add"
      BY <1>5, Zenon DEF Adds
    <2>2. run'[r].pc # "idle" /\ Documents(r)' = Documents(r)
      <3>1. run[r].pc # "idle"
        BY <2>1
      <3> QED
        BY <2>1, <3>1, ShapeKeeps, Zenon
    <2>3. \A d \in Documents(r) : WillBeServed(d)'
      <3>1. [kind |-> "add", ids |-> {}, docs |-> Documents(r)].docs = Documents(r)
        OBVIOUS
      <3> QED
        BY <2>1, <3>1, AskServes, Zenon
    <2>4. Documents(lastAdd)' = Documents(r)'
      BY <2>1, Zenon DEF Documents
    <2> QED
      BY <2>1, <2>2, <2>3, <2>4, Zenon DEF LastInv
  <1>6. ASSUME UNCHANGED <<run, index>> PROVE LastInv'
    <2>1. run' = run /\ tasks' = tasks /\ served' = served /\ lastAdd' = lastAdd
      BY <1>6 DEF index
    <2> QED
      <3>1. \A d : WillBeServed(d)' <=> WillBeServed(d)
        BY <2>1, Zenon DEF WillBeServed, Untouched, Touches
      <3>2. NothingDropped' <=> NothingDropped
        BY <2>1, Zenon DEF NothingDropped
      <3>3. Documents(lastAdd)' = Documents(lastAdd)
        BY <2>1, Zenon DEF Documents
      <3> QED
        BY <2>1, <3>1, <3>2, <3>3, Zenon DEF LastInv
  <1>7. ASSUME ProcessTask PROVE LastInv'
    <2>1. run' = run /\ lastAdd' = lastAdd
      BY <1>7, TaskStep, Zenon
    <2>2. \A d : WillBeServed(d) => WillBeServed(d)'
      BY <1>7, TaskServes, Zenon
    <2> QED
      <3>1. NothingDropped' <=> NothingDropped
        BY <2>1, Zenon DEF NothingDropped
      <3>2. Documents(lastAdd)' = Documents(lastAdd)
        BY <2>1, Zenon DEF Documents
      <3> QED
        BY <2>1, <2>2, <3>1, <3>2, Zenon DEF LastInv
  <1>8. CASE UNCHANGED vars
    BY <1>6, <1>8 DEF vars
  <1> QED
    BY <1>2, <1>3, <1>4, <1>5, <1>6, <1>7, <1>8, RunSteps, VisibilityStep, Zenon DEF Next

\* Runs may overlap in any way, and may fail anywhere but between a deletion and the
\* addition after it: what was added last is found when the service has caught up.
THEOREM LastAddServed == Spec => []LastAddIsServed
  <1>1. Init => LastInv
    BY DEF Init, LastInv
  <1>2. Spec => [](StateInv /\ LastInv)
    BY <1>1, InitState, StateStep, LastStep, PTL DEF Spec
  <1>3. ASSUME StateInv, LastInv, tasks = <<>>, lastAdd # NoRun, NothingDropped
        PROVE  Documents(lastAdd) \subseteq served
    <2>1. Len(tasks) = 0 /\ 1 .. 0 = {}
      BY <1>3
    <2>2. \A d \in Documents(lastAdd) : WillBeServed(d)
      BY <1>3, Zenon DEF LastInv
    <2> QED
      BY <2>1, <2>2, Zenon DEF WillBeServed
  <1>4. StateInv /\ LastInv => LastAddIsServed
    BY <1>3, Zenon DEF LastAddIsServed
  <1> QED
    BY <1>2, <1>4, PTL

-----------------------------------------------------------------------------
(* A run that nothing overlaps. *)

\* A run that goes on: its phase, what it found and did to the index, and its file.
\* All else of it, and all of the other runs, is as before.
Goes(r, pc, ids, search, pdf, complete) ==
    /\ \A q \in Run \ {r} : run'[q] = run[q]
    /\ run'[r].pc = pc
    /\ run'[r].ids = ids
    /\ run'[r].search = search
    /\ run'[r].pdf = pdf
    /\ run'[r].complete = complete
    /\ run'[r].revision = run[r].revision
    /\ run'[r].public = run[r].public
    /\ run'[r].file = run[r].file
    /\ run'[r].alone = run[r].alone
    /\ started' = started

LEMMA GoesOn ==
    ASSUME NEW r \in Run, run \in [Run -> RunType], NEW x,
           run' = [run EXCEPT ![r] = x], started' = started,
           x.revision = run[r].revision, x.public = run[r].public,
           x.file = run[r].file, x.alone = run[r].alone
    PROVE  Goes(r, x.pc, x.ids, x.search, x.pdf, x.complete)
  <1>1. run'[r] = x /\ \A q \in Run \ {r} : run'[q] = run[q]
    BY Zenon
  <1> QED
    BY <1>1, Zenon DEF Goes

LEMMA PhaseGoes ==
    ASSUME NEW r \in Run, run \in [Run -> RunType], NEW pc,
           run' = [run EXCEPT ![r].pc = pc], started' = started
    PROVE  Goes(r, pc, run[r].ids, run[r].search, run[r].pdf, run[r].complete)
  <1> DEFINE x == [run[r] EXCEPT !.pc = pc]
  <1>1. run[r] \in RunType
    OBVIOUS
  <1>2. /\ x.pc = pc /\ x.ids = run[r].ids /\ x.search = run[r].search
        /\ x.pdf = run[r].pdf /\ x.complete = run[r].complete
        /\ x.revision = run[r].revision /\ x.public = run[r].public
        /\ x.file = run[r].file /\ x.alone = run[r].alone
    BY <1>1, Zenon DEF RunType
  <1>3. run' = [run EXCEPT ![r] = x]
    BY Zenon
  <1> HIDE DEF x
  <1>4. Goes(r, x.pc, x.ids, x.search, x.pdf, x.complete)
    BY <1>2, <1>3, GoesOn, Zenon
  <1> QED
    BY <1>2, <1>4, Zenon

LEMMA FoundGoes ==
    ASSUME NEW r \in Run, run \in [Run -> RunType], NEW ids, NEW complete, 
           run' = [run EXCEPT ![r].pc = "delete", ![r].ids = ids, ![r].complete = complete],
           started' = started
    PROVE  Goes(r, "delete", ids, run[r].search, run[r].pdf, complete)
  <1> DEFINE x == [run[r] EXCEPT !.pc = "delete", !.ids = ids, !.complete = complete]
  <1>1. run[r] \in RunType
    OBVIOUS
  <1>2. /\ x.pc = "delete" /\ x.ids = ids /\ x.search = run[r].search
        /\ x.pdf = run[r].pdf /\ x.complete = complete
        /\ x.revision = run[r].revision /\ x.public = run[r].public
        /\ x.file = run[r].file /\ x.alone = run[r].alone
    BY <1>1, Zenon DEF RunType
  <1>3. run' = [run EXCEPT ![r] = x]
    BY Zenon
  <1> HIDE DEF x
  <1>4. Goes(r, x.pc, x.ids, x.search, x.pdf, x.complete)
    BY <1>2, <1>3, GoesOn, Zenon
  <1> QED
    BY <1>2, <1>4, Zenon

LEMMA NotFoundGoes ==
    ASSUME NEW r \in Run, run \in [Run -> RunType], NEW complete,
           run' = [run EXCEPT ![r].pc = "settings", ![r].complete = complete],
           started' = started
    PROVE  Goes(r, "settings", run[r].ids, run[r].search, run[r].pdf, complete)
  <1> DEFINE x == [run[r] EXCEPT !.pc = "settings", !.complete = complete]
  <1>1. run[r] \in RunType
    OBVIOUS
  <1>2. /\ x.pc = "settings" /\ x.ids = run[r].ids /\ x.search = run[r].search
        /\ x.pdf = run[r].pdf /\ x.complete = complete
        /\ x.revision = run[r].revision /\ x.public = run[r].public
        /\ x.file = run[r].file /\ x.alone = run[r].alone
    BY <1>1, Zenon DEF RunType
  <1>3. run' = [run EXCEPT ![r] = x]
    BY Zenon
  <1> HIDE DEF x
  <1>4. Goes(r, x.pc, x.ids, x.search, x.pdf, x.complete)
    BY <1>2, <1>3, GoesOn, Zenon
  <1> QED
    BY <1>2, <1>4, Zenon

LEMMA DropGoes ==
    ASSUME NEW r \in Run, run \in [Run -> RunType], NEW pc,
           run' = [run EXCEPT ![r].pc = pc, ![r].ids = {}, ![r].search = "dropped"],
           started' = started
    PROVE  Goes(r, pc, {}, "dropped", run[r].pdf, run[r].complete)
  <1> DEFINE x == [run[r] EXCEPT !.pc = pc, !.ids = {}, !.search = "dropped"]
  <1>1. run[r] \in RunType
    OBVIOUS
  <1>2. /\ x.pc = pc /\ x.ids = {} /\ x.search = "dropped"
        /\ x.pdf = run[r].pdf /\ x.complete = run[r].complete
        /\ x.revision = run[r].revision /\ x.public = run[r].public
        /\ x.file = run[r].file /\ x.alone = run[r].alone
    BY <1>1, Zenon DEF RunType
  <1>3. run' = [run EXCEPT ![r] = x]
    BY Zenon
  <1> HIDE DEF x
  <1>4. Goes(r, x.pc, x.ids, x.search, x.pdf, x.complete)
    BY <1>2, <1>3, GoesOn, Zenon
  <1> QED
    BY <1>2, <1>4, Zenon

LEMMA AddGoes ==
    ASSUME NEW r \in Run, run \in [Run -> RunType],
           run' = [run EXCEPT ![r].pc = "upload", ![r].search = "added"],
           started' = started
    PROVE  Goes(r, "upload", run[r].ids, "added", run[r].pdf, run[r].complete)
  <1> DEFINE x == [run[r] EXCEPT !.pc = "upload", !.search = "added"]
  <1>1. run[r] \in RunType
    OBVIOUS
  <1>2. /\ x.pc = "upload" /\ x.ids = run[r].ids /\ x.search = "added"
        /\ x.pdf = run[r].pdf /\ x.complete = run[r].complete
        /\ x.revision = run[r].revision /\ x.public = run[r].public
        /\ x.file = run[r].file /\ x.alone = run[r].alone
    BY <1>1, Zenon DEF RunType
  <1>3. run' = [run EXCEPT ![r] = x]
    BY Zenon
  <1> HIDE DEF x
  <1>4. Goes(r, x.pc, x.ids, x.search, x.pdf, x.complete)
    BY <1>2, <1>3, GoesOn, Zenon
  <1> QED
    BY <1>2, <1>4, Zenon

LEMMA StoreGoes ==
    ASSUME NEW r \in Run, run \in [Run -> RunType], NEW file,
           run' = [run EXCEPT ![r].pc = "record", ![r].pdf = file], started' = started
    PROVE  Goes(r, "record", run[r].ids, run[r].search, file, run[r].complete)
  <1> DEFINE x == [run[r] EXCEPT !.pc = "record", !.pdf = file]
  <1>1. run[r] \in RunType
    OBVIOUS
  <1>2. /\ x.pc = "record" /\ x.ids = run[r].ids /\ x.search = run[r].search
        /\ x.pdf = file /\ x.complete = run[r].complete
        /\ x.revision = run[r].revision /\ x.public = run[r].public
        /\ x.file = run[r].file /\ x.alone = run[r].alone
    BY <1>1, Zenon DEF RunType
  <1>3. run' = [run EXCEPT ![r] = x]
    BY Zenon
  <1> HIDE DEF x
  <1>4. Goes(r, x.pc, x.ids, x.search, x.pdf, x.complete)
    BY <1>2, <1>3, GoesOn, Zenon
  <1> QED
    BY <1>2, <1>4, Zenon

\* The start of a run: whoever is under way is not alone any more, and neither is it
\* if anyone is.
Starts(r) ==
    /\ run[r].pc = "idle"
    /\ \A q \in Run \ {r} : /\ Same(q)
                            /\ run'[q].complete = run[q].complete
                            /\ run'[q].ids = run[q].ids
                            /\ run'[q].alone => run[q].alone /\ ~ Active(q)
    /\ run'[r].pc = "find"
    /\ run'[r].search = run[r].search
    /\ run'[r].file = pdf_external_id
    /\ run'[r].pdf = run[r].pdf
    /\ run'[r].complete = run[r].complete
    /\ run'[r].revision = run[r].revision
    /\ run'[r].alone => \A q \in Run : ~ Active(q)
    /\ started' = Append(started, r)
    /\ UNCHANGED <<row, index, drive>>

LEMMA StartsStep ==
    ASSUME NEW r \in Run, StateInv, RemoteUpsert(r)
    PROVE  Starts(r)
  <1> DEFINE free == \A p \in Run : ~ Active(p)
             x == [run[r] EXCEPT !.pc = "find", !.public = visibility,
                                 !.file = pdf_external_id, !.alone = free]
             y(q) == [run[q] EXCEPT !.alone = run[q].alone /\ ~ Active(q)]
  <1>1. run \in [Run -> RunType]
    BY Zenon DEF StateInv, TypeOK
  <1>2. Becomes(r, "find", run[r].search, pdf_external_id, run[r].pdf)
    BY StartStep, Zenon
  <1>3. /\ run[r].pc = "idle" /\ run' = [q \in Run |-> IF q = r THEN x ELSE y(q)]
        /\ started' = Append(started, r) /\ UNCHANGED <<row, index, drive>>
    BY Zenon DEF RemoteUpsert, Started
  <1>4. x.alone = free /\ x.complete = run[r].complete
    BY <1>1, Zenon DEF RunType
  <1>5. ASSUME NEW q \in Run
        PROVE  /\ y(q).complete = run[q].complete /\ y(q).ids = run[q].ids
               /\ y(q).alone = (run[q].alone /\ ~ Active(q))
    BY <1>1, Zenon DEF RunType
  <1> HIDE DEF x, y
  <1>6. run'[r] = x /\ \A q \in Run \ {r} : run'[q] = y(q)
    BY <1>3
  <1>7. \A q \in Run \ {r} : /\ run'[q].complete = run[q].complete /\ run'[q].ids = run[q].ids
                             /\ run'[q].alone => run[q].alone /\ ~ Active(q)
    BY <1>5, <1>6, Zenon
  <1>8. run'[r].complete = run[r].complete /\ (run'[r].alone => free)
    BY <1>4, <1>6, Zenon
  <1>9. /\ \A q \in Run \ {r} : Same(q)
        /\ run'[r].pc = "find" /\ run'[r].search = run[r].search
        /\ run'[r].file = pdf_external_id /\ run'[r].pdf = run[r].pdf
        /\ run'[r].revision = run[r].revision
    BY <1>2, Zenon DEF Becomes, Shape
  <1> QED
    BY <1>3, <1>7, <1>8, <1>9, Zenon DEF Starts

\* The other steps of a run.  It leaves the search or the PDF, or ends:
Leaves(r) ==
    /\ Active(r)
    /\ \E pc \in {"upload", "end", "done", "failed"} :
          /\ Goes(r, pc, run[r].ids, run[r].search, run[r].pdf, run[r].complete)
          /\ pc = "upload" => run[r].pc \in {"find", "delete", "settings", "add"}
          /\ pc = "end" => run[r].pc \in {"upload", "record"}
    /\ UNCHANGED <<index, drive>>

\* It searches:
Sections == {d.section : d \in served}

Finds(r) ==
    /\ run[r].pc = "find"
    /\ \/ \E ids : \E complete :
             /\ Goes(r, "delete", ids, run[r].search, run[r].pdf, complete)
             /\ complete => tasks = <<>> /\ ids = Sections
       \/ \E complete :
             /\ Goes(r, "settings", run[r].ids, run[r].search, run[r].pdf, complete)
             /\ complete => tasks = <<>> /\ ~ filterable
    /\ UNCHANGED <<index, drive>>

\* It sends one of its three requests:
SendsSettings(r) ==
    /\ run[r].pc = "settings"
    /\ \E pc \in {"add", "upload"} :
          Goes(r, pc, run[r].ids, run[r].search, run[r].pdf, run[r].complete)
    /\ Asks(r, SettingsTask)
    /\ UNCHANGED drive

SendsDeletion(r) ==
    /\ run[r].pc = "delete"
    /\ \E pc \in {"add", "upload"} :
          Goes(r, pc, {}, "dropped", run[r].pdf, run[r].complete)
    /\ Asks(r, [kind |-> "delete", ids |-> run[r].ids, docs |-> {}])
    /\ UNCHANGED drive

SendsAddition(r) ==
    /\ run[r].pc = "add"
    /\ Goes(r, "upload", run[r].ids, "added", run[r].pdf, run[r].complete)
    /\ Asks(r, [kind |-> "add", ids |-> {}, docs |-> Documents(r)])
    /\ UNCHANGED drive

\* It stores its PDF, or records it:
StoresFile(r) ==
    /\ run[r].pc = "upload"
    /\ \E file \in 1 .. Len(files') :
          /\ Goes(r, "record", run[r].ids, run[r].search, file, run[r].complete)
          /\ files'[file] = run[r].revision
    /\ IF run[r].file = 0 THEN Len(files') = Len(files) + 1 ELSE Len(files') = Len(files)
    /\ UNCHANGED <<index, pdfs>>

Records(r) ==
    /\ run[r].pc = "record"
    /\ Goes(r, "end", run[r].ids, run[r].search, run[r].pdf, run[r].complete)
    /\ pdfs' = IF Contains(pdfs, RowOf(r)) THEN pdfs ELSE Append(pdfs, RowOf(r))
    /\ UNCHANGED <<index, files>>

GoesStep(r) ==
    \/ Leaves(r) \/ Finds(r) \/ SendsSettings(r) \/ SendsDeletion(r) \/ SendsAddition(r)
    \/ StoresFile(r) \/ Records(r)

LEMMA RunKinds ==
    ASSUME NEW r \in Run, StateInv, RunStep(r)
    PROVE  Starts(r) \/ GoesStep(r)
  <1>0. /\ run \in [Run -> RunType] /\ files \in Seq(Revision) /\ served \subseteq Doc
        /\ run[r].file \in 0 .. Len(files) /\ run[r].revision \in Revision
        /\ Limit \in Nat
    <2>1. run \in [Run -> RunType] /\ files \in Seq(Revision) /\ served \subseteq Doc
      BY Zenon DEF StateInv, TypeOK
    <2>2. run[r].file \in 0 .. Len(files)
      BY Zenon DEF StateInv, FilesInv
    <2>3. run[r].revision \in Revision
      BY <2>1, Zenon DEF RunType
    <2> QED
      BY <2>1, <2>2, <2>3, ArtifactsAssumption
  <1>1. CASE RemoteUpsert(r)
    BY <1>1, StartsStep
  <1>2. CASE PersistedUpsert(r)
    <2>1. /\ run[r].pc = "end" /\ run' = [run EXCEPT ![r].pc = "done"]
          /\ started' = started /\ UNCHANGED <<index, drive>>
      BY <1>2 DEF PersistedUpsert
    <2>2. Goes(r, "done", run[r].ids, run[r].search, run[r].pdf, run[r].complete)
      BY <1>0, <2>1, PhaseGoes, Zenon
    <2>3. Active(r)
      BY <2>1 DEF Active
    <2>4. "done" # "upload" /\ "done" # "end" /\ "done" \in {"upload", "end", "done", "failed"}
      OBVIOUS
    <2> QED
      BY <2>1, <2>2, <2>3, <2>4, Zenon DEF Leaves, GoesStep
  <1>3. CASE FailRun(r)
    <2>1. /\ Active(r) /\ run' = [run EXCEPT ![r].pc = "failed"]
          /\ started' = started /\ UNCHANGED <<index, drive>>
      BY <1>3 DEF FailRun
    <2>2. Goes(r, "failed", run[r].ids, run[r].search, run[r].pdf, run[r].complete)
      BY <1>0, <2>1, PhaseGoes, Zenon
    <2>3. "failed" # "upload" /\ "failed" # "end" /\ "failed" \in {"upload", "end", "done", "failed"}
      OBVIOUS
    <2> QED
      BY <2>1, <2>2, <2>3, Zenon DEF Leaves, GoesStep
  <1>4. CASE SearchFails(r)
    <2>1. /\ run[r].pc \in {"find", "delete", "settings", "add"}
          /\ run' = [run EXCEPT ![r].pc = "upload"]
          /\ started' = started /\ UNCHANGED <<index, drive>>
      BY <1>4 DEF SearchFails, SearchEnds, index
    <2>2. Goes(r, "upload", run[r].ids, run[r].search, run[r].pdf, run[r].complete)
      BY <1>0, <2>1, PhaseGoes, Zenon
    <2>3. Active(r)
      BY <2>1 DEF Active
    <2>4. "upload" # "end" /\ "upload" \in {"upload", "end", "done", "failed"}
      OBVIOUS
    <2> QED
      BY <2>1, <2>2, <2>3, <2>4, Zenon DEF Leaves, GoesStep
  <1>5. CASE PdfFails(r)
    <2>1. /\ run[r].pc \in {"upload", "record"} /\ run' = [run EXCEPT ![r].pc = "end"]
          /\ started' = started /\ UNCHANGED <<index, drive>>
      BY <1>5 DEF PdfFails
    <2>2. Goes(r, "end", run[r].ids, run[r].search, run[r].pdf, run[r].complete)
      BY <1>0, <2>1, PhaseGoes, Zenon
    <2>3. Active(r)
      BY <2>1 DEF Active
    <2>4. "end" # "upload" /\ "end" \in {"upload", "end", "done", "failed"}
      OBVIOUS
    <2> QED
      BY <2>1, <2>2, <2>3, <2>4, Zenon DEF Leaves, GoesStep
  <1>6. CASE find_rfd_ids(r)
    <2>1. PICK ids \in SUBSET Sections :
            /\ Cardinality(ids) = Limit \/ ids = Sections
            /\ run' = [run EXCEPT ![r].pc = "delete", ![r].ids = ids,
                                  ![r].complete = (tasks = <<>> /\ Cardinality(ids) < Limit)]
      BY <1>6, Zenon DEF find_rfd_ids, Sections
    <2>2. run[r].pc = "find" /\ started' = started /\ UNCHANGED <<index, drive>>
      BY <1>6 DEF find_rfd_ids
    <2> DEFINE complete == tasks = <<>> /\ Cardinality(ids) < Limit
    <2>3. complete => tasks = <<>> /\ ids = Sections
      <3>1. Cardinality(ids) < Limit => Cardinality(ids) # Limit
        BY <1>0
      <3> QED
        BY <2>1, <3>1
    <2>4. run' = [run EXCEPT ![r].pc = "delete", ![r].ids = ids, ![r].complete = complete]
      BY <2>1
    <2> HIDE DEF complete
    <2>5. Goes(r, "delete", ids, run[r].search, run[r].pdf, complete)
      BY <1>0, <2>2, <2>4, FoundGoes, Zenon
    <2> QED
      BY <2>2, <2>3, <2>5, Zenon DEF Finds, GoesStep
  <1>7. CASE IndexNotFound(r)
    <2> DEFINE complete == tasks = <<>>
    <2>1. /\ run[r].pc = "find" /\ ~ filterable
          /\ run' = [run EXCEPT ![r].pc = "settings", ![r].complete = complete]
          /\ started' = started /\ UNCHANGED <<index, drive>>
      BY <1>7 DEF IndexNotFound
    <2>2. complete => tasks = <<>> /\ ~ filterable
      BY <2>1
    <2> HIDE DEF complete
    <2>3. Goes(r, "settings", run[r].ids, run[r].search, run[r].pdf, complete)
      BY <1>0, <2>1, NotFoundGoes, Zenon
    <2> QED
      BY <2>1, <2>2, <2>3, Zenon DEF Finds, GoesStep
  <1>8. CASE set_settings(r)
    <2>1. PICK pc \in {"add", "upload"} : run' = [run EXCEPT ![r].pc = pc]
      BY <1>8, Zenon DEF set_settings
    <2>2. /\ run[r].pc = "settings" /\ Asks(r, SettingsTask)
          /\ started' = started /\ UNCHANGED drive
      BY <1>8 DEF set_settings, Accept, Asks
    <2>3. Goes(r, pc, run[r].ids, run[r].search, run[r].pdf, run[r].complete)
      BY <1>0, <2>1, <2>2, PhaseGoes, Zenon
    <2> QED
      BY <2>2, <2>3, Zenon DEF SendsSettings, GoesStep
  <1>9. CASE delete_documents(r)
    <2>1. PICK pc \in {"add", "upload"} :
            run' = [run EXCEPT ![r].pc = pc, ![r].ids = {}, ![r].search = "dropped"]
      BY <1>9, Zenon DEF delete_documents, Deletion
    <2>2. /\ run[r].pc = "delete"
          /\ Asks(r, [kind |-> "delete", ids |-> run[r].ids, docs |-> {}])
          /\ started' = started /\ UNCHANGED drive
      BY <1>9 DEF delete_documents, Deletion, Accept, Asks
    <2>3. Goes(r, pc, {}, "dropped", run[r].pdf, run[r].complete)
      BY <1>0, <2>1, <2>2, DropGoes, Zenon
    <2> QED
      BY <2>2, <2>3, Zenon DEF SendsDeletion, GoesStep
  <1>10. CASE add_documents(r)
    <2> DEFINE task == [kind |-> "add", ids |-> {}, docs |-> Documents(r)]
    <2>1. /\ run[r].pc = "add"
          /\ run' = [run EXCEPT ![r].pc = "upload", ![r].search = "added"]
          /\ tasks' = Append(tasks, task) \o <<>>
          /\ started' = started /\ UNCHANGED <<served, filterable, drive>>
      BY <1>10, Zenon DEF add_documents, Addition
    <2>2. Goes(r, "upload", run[r].ids, "added", run[r].pdf, run[r].complete)
      BY <1>0, <2>1, AddGoes, Zenon
    <2>3. task \in TaskType \cup {SettingsTask}
      BY DocumentsTyped, Zenon DEF TaskType
    <2> HIDE DEF task
    <2>4. tasks' = Append(tasks, task)
      <3>1. tasks \in Seq(TaskType \cup {SettingsTask})
        BY Zenon DEF StateInv, TypeOK
      <3> QED
        BY <2>1, <2>3, <3>1
    <2>5. Asks(r, task)
      BY <2>1, <2>4 DEF Asks
    <2>6. UNCHANGED drive
      BY <2>1
    <2> QED
      BY <2>1, <2>2, <2>5, <2>6, Zenon DEF SendsAddition, GoesStep, task
  <1>11. CASE store_rfd_pdf(r)
    <2> DEFINE file == IF run[r].file = 0 THEN Len(files) + 1 ELSE run[r].file
    <2>1. /\ run[r].pc = "upload"
          /\ files' = IF run[r].file = 0 THEN Append(files, run[r].revision)
                      ELSE [files EXCEPT ![file] = run[r].revision]
          /\ run' = [run EXCEPT ![r].pc = "record", ![r].pdf = file]
          /\ started' = started /\ UNCHANGED <<index, pdfs>>
      BY <1>11 DEF store_rfd_pdf, Stored
    <2>2. /\ IF run[r].file = 0 THEN Len(files') = Len(files) + 1 ELSE Len(files') = Len(files)
          /\ file \in 1 .. Len(files') /\ files'[file] = run[r].revision
      <3>1. CASE run[r].file = 0
        BY <1>0, <2>1, <3>1
      <3>2. CASE run[r].file # 0
        BY <1>0, <2>1, <3>2
      <3> QED
        BY <3>1, <3>2
    <2> HIDE DEF file
    <2>3. Goes(r, "record", run[r].ids, run[r].search, file, run[r].complete)
      BY <1>0, <2>1, StoreGoes, Zenon
    <2> QED
      BY <2>1, <2>2, <2>3, Zenon DEF StoresFile, GoesStep
  <1>12. CASE RecordPdf(r)
    <2>1. /\ run[r].pc = "record"
          /\ run' = [run EXCEPT ![r].pc = "end"]
          /\ pdfs' = IF Contains(pdfs, RowOf(r)) THEN pdfs ELSE Append(pdfs, RowOf(r))
          /\ started' = started /\ UNCHANGED <<index, files>>
      BY <1>12, Zenon DEF RecordPdf, Record
    <2>2. Goes(r, "end", run[r].ids, run[r].search, run[r].pdf, run[r].complete)
      BY <1>0, <2>1, PhaseGoes, Zenon
    <2> QED
      BY <2>1, <2>2, Zenon DEF Records, GoesStep
  <1> QED
    BY <1>1, <1>2, <1>3, <1>4, <1>5, <1>6, <1>7, <1>8, <1>9, <1>10, <1>11, <1>12 DEF RunStep

\* What all of these have in common.
LEMMA GoesFacts ==
    ASSUME NEW r \in Run, GoesStep(r)
    PROVE  /\ Active(r)
           /\ \A q \in Run \ {r} : run'[q] = run[q]
           /\ run'[r].alone = run[r].alone
           /\ run'[r].revision = run[r].revision
           /\ run'[r].public = run[r].public
           /\ run'[r].file = run[r].file
           /\ run'[r].pc \notin {"idle", "find"}
           /\ started' = started
  <1>1. ASSUME NEW pc, NEW ids, NEW search, NEW pdf, NEW complete,
               Goes(r, pc, ids, search, pdf, complete), pc \notin {"idle", "find"}, Active(r)
        PROVE  /\ Active(r)
               /\ \A q \in Run \ {r} : run'[q] = run[q]
               /\ run'[r].alone = run[r].alone
               /\ run'[r].revision = run[r].revision
               /\ run'[r].public = run[r].public
               /\ run'[r].file = run[r].file
               /\ run'[r].pc \notin {"idle", "find"}
               /\ started' = started
    BY <1>1, Zenon DEF Goes
  <1>2. \A pc \in {"upload", "end", "done", "failed", "add", "delete", "settings", "record"} :
            pc \notin {"idle", "find"}
    OBVIOUS
  <1>3. CASE Leaves(r)
    <2>1. PICK pc \in {"upload", "end", "done", "failed"} :
              Goes(r, pc, run[r].ids, run[r].search, run[r].pdf, run[r].complete)
      BY <1>3, Zenon DEF Leaves
    <2>2. Active(r) /\ pc \notin {"idle", "find"}
      BY <1>3 DEF Leaves
    <2> QED
      BY <1>1, <2>1, <2>2
  <1>4. CASE Finds(r)
    <2>1. Active(r) /\ "delete" \notin {"idle", "find"} /\ "settings" \notin {"idle", "find"}
      BY <1>4 DEF Finds, Active
    <2>2. \/ \E ids : \E complete : Goes(r, "delete", ids, run[r].search, run[r].pdf, complete)
          \/ \E complete : Goes(r, "settings", run[r].ids, run[r].search, run[r].pdf, complete)
      BY <1>4, Zenon DEF Finds
    <2> QED
      BY <1>1, <2>1, <2>2
  <1>5. CASE SendsSettings(r)
    <2>1. PICK pc \in {"add", "upload"} :
              Goes(r, pc, run[r].ids, run[r].search, run[r].pdf, run[r].complete)
      BY <1>5, Zenon DEF SendsSettings
    <2>2. Active(r) /\ pc \notin {"idle", "find"}
      BY <1>5 DEF SendsSettings, Active
    <2> QED
      BY <1>1, <2>1, <2>2
  <1>6. CASE SendsDeletion(r)
    <2>1. PICK pc \in {"add", "upload"} :
              Goes(r, pc, {}, "dropped", run[r].pdf, run[r].complete)
      BY <1>6, Zenon DEF SendsDeletion
    <2>2. Active(r) /\ pc \notin {"idle", "find"}
      BY <1>6 DEF SendsDeletion, Active
    <2> QED
      BY <1>1, <2>1, <2>2
  <1>7. CASE SendsAddition(r)
    <2>1. Active(r) /\ "upload" \notin {"idle", "find"}
      BY <1>7 DEF SendsAddition, Active
    <2>2. Goes(r, "upload", run[r].ids, "added", run[r].pdf, run[r].complete)
      BY <1>7, Zenon DEF SendsAddition
    <2> QED
      BY <1>1, <2>1, <2>2
  <1>8. CASE StoresFile(r)
    <2>1. Active(r) /\ "record" \notin {"idle", "find"}
      BY <1>8 DEF StoresFile, Active
    <2>2. PICK file : Goes(r, "record", run[r].ids, run[r].search, file, run[r].complete)
      BY <1>8, Zenon DEF StoresFile
    <2> QED
      BY <1>1, <2>1, <2>2
  <1>9. CASE Records(r)
    <2>1. Active(r) /\ "end" \notin {"idle", "find"}
      BY <1>9 DEF Records, Active
    <2>2. Goes(r, "end", run[r].ids, run[r].search, run[r].pdf, run[r].complete)
      BY <1>9, Zenon DEF Records
    <2> QED
      BY <1>1, <2>1, <2>2
  <1> QED
    BY <1>3, <1>4, <1>5, <1>6, <1>7, <1>8, <1>9 DEF GoesStep

\* While a run is alone nothing else is under way, and the newest run is the one that
\* knows it.
AloneInv ==
    /\ \A r, q \in Run : run[r].alone /\ Active(r) /\ Active(q) => q = r
    /\ started # <<>> /\ Newest.alone => \A q \in Run : Active(q) => q = Last(started)

\* What a run has not done yet.
EarlyInv ==
    \A r \in Run :
        /\ run[r].pc \in {"idle", "find"} => ~ run[r].complete
        /\ run[r].pc \in {"idle", "find", "delete", "settings", "add"} => run[r].search # "added"
        /\ run[r].pc \notin {"record", "end", "done", "failed"} => run[r].pdf = 0

LEMMA NewestStep ==
    ASSUME StateInv
    PROVE  /\ started # <<>> => Last(started) \in Run
           /\ \A r \in Run : started' = Append(started, r) => started' # <<>> /\ Last(started') = r
           /\ started' = started => Last(started') = Last(started)
  <1>1. started \in Seq(Run)
    BY Zenon DEF StateInv, TypeOK
  <1>2. started # <<>> => Len(started) \in 1 .. Len(started)
    BY <1>1
  <1>3. started # <<>> => Last(started) \in Run
    BY <1>1, <1>2 DEF Last
  <1>4. ASSUME NEW r \in Run, started' = Append(started, r)
        PROVE  started' # <<>> /\ Last(started') = r
    <2>1. Len(started') = Len(started) + 1 /\ started'[Len(started) + 1] = r /\ started' # <<>>
      BY <1>1, <1>4
    <2> QED
      BY <2>1 DEF Last
  <1> QED
    BY <1>3, <1>4

LEMMA AloneStep ==
    ASSUME StateInv, AloneInv, [Next]_vars
    PROVE  AloneInv'
  <1>1. ASSUME NEW r \in Run, Starts(r) PROVE AloneInv'
    <2>1. Last(started') = r
      BY <1>1, NewestStep, Zenon DEF Starts
    <2>2. run'[r].alone => \A q \in Run \ {r} : ~ Active(q)'
      BY <1>1, Zenon DEF Starts, Same, Active
    <2>3. \A q \in Run \ {r} : run'[q].alone => ~ Active(q)'
      BY <1>1, Zenon DEF Starts, Same, Active
    <2>4. ASSUME NEW p \in Run, NEW q \in Run, run'[p].alone, Active(p)', Active(q)'
          PROVE  q = p
      BY <2>2, <2>3, <2>4
    <2>5. ASSUME Newest'.alone, NEW q \in Run, Active(q)' PROVE q = r
      <3>1. run'[r].alone
        BY <2>1, <2>5, Zenon DEF Newest
      <3> QED
        BY <2>2, <2>5, <3>1
    <2> QED
      BY <2>1, <2>4, <2>5, Zenon DEF AloneInv
  <1>2. ASSUME NEW r \in Run, GoesStep(r) PROVE AloneInv'
    <2>1. /\ Active(r) /\ started' = started
          /\ \A q \in Run \ {r} : run'[q] = run[q]
          /\ run'[r].alone = run[r].alone
      BY <1>2, GoesFacts
    <2>2. \A q \in Run : run'[q].alone = run[q].alone /\ (Active(q)' => Active(q))
      BY <2>1 DEF Active
    <2>3. started # <<>> => (Newest'.alone => Newest.alone) /\ Last(started') = Last(started)
      <3>1. started # <<>> => Last(started) \in Run /\ Last(started') = Last(started)
        BY <2>1, NewestStep, Zenon
      <3> QED
        BY <2>2, <3>1, Zenon DEF Newest
    <2> QED
      BY <2>1, <2>2, <2>3, Zenon DEF AloneInv
  <1>3. ASSUME UNCHANGED <<run, started>> PROVE AloneInv'
    BY <1>3 DEF AloneInv, Active, Newest
  <1>4. CASE update_rfd_visibility \/ ProcessTask \/ UNCHANGED vars
    <2>1. UNCHANGED <<run, started>>
      BY <1>4 DEF update_rfd_visibility, ProcessTask, vars
    <2> QED
      BY <1>3, <2>1
  <1> QED
    BY <1>1, <1>2, <1>4, RunKinds, Zenon DEF Next

LEMMA EarlyStep ==
    ASSUME StateInv, EarlyInv, [Next]_vars
    PROVE  EarlyInv'
  <1> DEFINE Early(x) ==
        /\ x.pc \in {"idle", "find"} => ~ x.complete
        /\ x.pc \in {"idle", "find", "delete", "settings", "add"} => x.search # "added"
        /\ x.pc \notin {"record", "end", "done", "failed"} => x.pdf = 0
  <1>1. \A q \in Run : Early(run[q])
    BY Zenon DEF EarlyInv
  <1>2. ASSUME NEW r \in Run, \A q \in Run \ {r} : run'[q] = run[q], Early(run'[r])
        PROVE  EarlyInv'
    <2>1. \A q \in Run : Early(run'[q])
      BY <1>1, <1>2
    <2> QED
      BY <2>1, Zenon DEF EarlyInv
  <1>3. ASSUME NEW r \in Run, Starts(r) PROVE EarlyInv'
    <2>1. ASSUME NEW q \in Run PROVE Early(run'[q])
      <3>1. CASE q = r
        <4>1. ~ run[r].complete /\ run[r].search # "added" /\ run[r].pdf = 0
          BY <1>1, <1>3 DEF Starts
        <4> QED
          BY <1>3, <3>1, <4>1 DEF Starts
      <3>2. CASE q # r
        <4>1. /\ run'[q].pc = run[q].pc /\ run'[q].complete = run[q].complete
              /\ run'[q].search = run[q].search /\ run'[q].pdf = run[q].pdf
          BY <1>3, <3>2, Zenon DEF Starts, Same
        <4> QED
          BY <1>1, <4>1
      <3> QED
        BY <3>1, <3>2
    <2> QED
      BY <2>1, Zenon DEF EarlyInv
  <1>4. ASSUME NEW r \in Run, GoesStep(r) PROVE EarlyInv'
    <2>1. \A q \in Run \ {r} : run'[q] = run[q]
      BY <1>4, GoesFacts
    <2>2. run'[r].pc \notin {"idle", "find"}
      BY <1>4, GoesFacts
    <2>3. Early(run[r])
      BY <1>1
    <2>4. CASE Leaves(r)
      <3>1. /\ run'[r].pc \in {"upload", "end", "done", "failed"}
            /\ run'[r].pdf = run[r].pdf
            /\ run'[r].pc = "upload" => run[r].pc \in {"find", "delete", "settings", "add"}
        BY <2>4 DEF Leaves, Goes
      <3> QED
        BY <1>2, <2>1, <2>3, <3>1
    <2>5. CASE Finds(r)
      <3>1. /\ run[r].pc = "find" /\ run'[r].pdf = run[r].pdf /\ run'[r].search = run[r].search
            /\ run'[r].pc \in {"delete", "settings"}
        BY <2>5 DEF Finds, Goes
      <3> QED
        BY <1>2, <2>1, <2>3, <3>1
    <2>6. CASE SendsSettings(r)
      <3>1. /\ run[r].pc = "settings" /\ run'[r].pdf = run[r].pdf
            /\ run'[r].search = run[r].search /\ run'[r].pc \in {"add", "upload"}
        BY <2>6 DEF SendsSettings, Goes
      <3> QED
        BY <1>2, <2>1, <2>3, <3>1
    <2>7. CASE SendsDeletion(r)
      <3>1. /\ run[r].pc = "delete" /\ run'[r].pdf = run[r].pdf
            /\ run'[r].search = "dropped" /\ run'[r].pc \in {"add", "upload"}
        BY <2>7 DEF SendsDeletion, Goes
      <3> QED
        BY <1>2, <2>1, <2>3, <3>1
    <2>8. CASE SendsAddition(r)
      <3>1. run[r].pc = "add" /\ run'[r].pdf = run[r].pdf /\ run'[r].pc = "upload"
        BY <2>8 DEF SendsAddition, Goes
      <3> QED
        BY <1>2, <2>1, <2>3, <3>1
    <2>9. CASE StoresFile(r)
      <3>1. run'[r].pc = "record"
        BY <2>9 DEF StoresFile, Goes
      <3> QED
        BY <1>2, <2>1, <3>1
    <2>10. CASE Records(r)
      <3>1. run'[r].pc = "end"
        BY <2>10 DEF Records, Goes
      <3> QED
        BY <1>2, <2>1, <3>1
    <2> QED
      BY <1>4, <2>4, <2>5, <2>6, <2>7, <2>8, <2>9, <2>10 DEF GoesStep
  <1>5. CASE update_rfd_visibility \/ ProcessTask \/ UNCHANGED vars
    <2>1. run' = run
      BY <1>5 DEF update_rfd_visibility, ProcessTask, vars
    <2> QED
      BY <2>1, Zenon DEF EarlyInv
  <1> QED
    BY <1>3, <1>4, <1>5, RunKinds, Zenon DEF Next

LEMMA InitAlone == Init => AloneInv /\ EarlyInv
  <1> SUFFICES ASSUME Init PROVE AloneInv /\ EarlyInv
    OBVIOUS
  <1> DEFINE start(v) == [pc |-> "idle", revision |-> v, public |-> FALSE, ids |-> {},
                          search |-> "kept", file |-> 0, pdf |-> 0, alone |-> FALSE,
                          complete |-> FALSE]
  <1>1. \A r \in Run : \E v \in Revision : run[r] = start(v)
    BY Zenon DEF Init
  <1>2. \A v : /\ start(v).pc = "idle" /\ ~ start(v).complete /\ start(v).search = "kept"
               /\ start(v).pdf = 0 /\ ~ start(v).alone
    OBVIOUS
  <1> HIDE DEF start
  <1>4. \A r \in Run : /\ run[r].pc = "idle" /\ ~ run[r].complete /\ run[r].search = "kept"
                       /\ run[r].pdf = 0 /\ ~ run[r].alone
    BY <1>1, <1>2, Zenon
  <1>3. started = <<>>
    BY Zenon DEF Init
  <1> QED
    BY <1>3, <1>4 DEF AloneInv, EarlyInv

-----------------------------------------------------------------------------
(* The PDF. *)

Before == {"find", "delete", "settings", "add", "upload"}
Past == {"end", "done", "failed"}

\* A run that goes on and leaves the drive and its records alone.
KeepsDrive(r) ==
    /\ UNCHANGED drive
    /\ run'[r].pdf = run[r].pdf
    /\ run'[r].pc # "record"
    /\ run'[r].pc \in Before => run[r].pc \in Before
    /\ run[r].pc \in Past => run'[r].pc \in Past

LEMMA DriveKinds ==
    ASSUME NEW r \in Run, GoesStep(r)
    PROVE  KeepsDrive(r) \/ StoresFile(r) \/ Records(r)
  <1>1. CASE Leaves(r)
    <2>1. /\ run'[r].pdf = run[r].pdf /\ run'[r].pc \in {"upload", "end", "done", "failed"}
          /\ run'[r].pc = "upload" => run[r].pc \in {"find", "delete", "settings", "add"}
          /\ UNCHANGED drive
      BY <1>1 DEF Leaves, Goes
    <2> QED
      BY <2>1 DEF KeepsDrive, Before, Past
  <1>2. CASE Finds(r)
    <2>1. /\ run[r].pc = "find" /\ run'[r].pdf = run[r].pdf
          /\ run'[r].pc \in {"delete", "settings"} /\ UNCHANGED drive
      BY <1>2 DEF Finds, Goes
    <2> QED
      BY <2>1 DEF KeepsDrive, Before, Past
  <1>3. CASE SendsSettings(r)
    <2>1. /\ run[r].pc = "settings" /\ run'[r].pdf = run[r].pdf
          /\ run'[r].pc \in {"add", "upload"} /\ UNCHANGED drive
      BY <1>3 DEF SendsSettings, Goes
    <2> QED
      BY <2>1 DEF KeepsDrive, Before, Past
  <1>4. CASE SendsDeletion(r)
    <2>1. /\ run[r].pc = "delete" /\ run'[r].pdf = run[r].pdf
          /\ run'[r].pc \in {"add", "upload"} /\ UNCHANGED drive
      BY <1>4 DEF SendsDeletion, Goes
    <2> QED
      BY <2>1 DEF KeepsDrive, Before, Past
  <1>5. CASE SendsAddition(r)
    <2>1. /\ run[r].pc = "add" /\ run'[r].pdf = run[r].pdf
          /\ run'[r].pc = "upload" /\ UNCHANGED drive
      BY <1>5 DEF SendsAddition, Goes
    <2> QED
      BY <2>1 DEF KeepsDrive, Before, Past
  <1> QED
    BY <1>1, <1>2, <1>3, <1>4, <1>5 DEF GoesStep

\* What a new row changes.
LEMMA RowAppended ==
    ASSUME StateInv, NEW x
    PROVE  /\ \A y : Contains(Append(pdfs, x), y) <=> Contains(pdfs, y) \/ y = x
           /\ Last(Append(pdfs, x)) = x
           /\ Append(pdfs, x) # <<>>
  <1>1. \E S : pdfs \in Seq(S)
    BY Zenon DEF StateInv, TypeOK
  <1>2. PICK S : pdfs \in Seq(S)
    BY <1>1
  <1>3. /\ Len(Append(pdfs, x)) = Len(pdfs) + 1 /\ Len(pdfs) \in Nat
        /\ Append(pdfs, x)[Len(pdfs) + 1] = x
        /\ \A i \in 1 .. Len(pdfs) : Append(pdfs, x)[i] = pdfs[i]
        /\ Append(pdfs, x) # <<>>
    BY <1>2
  <1>4. \A i : i \in 1 .. Len(pdfs) + 1 <=> i \in 1 .. Len(pdfs) \/ i = Len(pdfs) + 1
    BY <1>3
  <1>5. \A y : Contains(Append(pdfs, x), y) <=> Contains(pdfs, y) \/ y = x
    BY <1>3, <1>4, Zenon DEF Contains
  <1>6. Last(Append(pdfs, x)) = x
    BY <1>3, Zenon DEF Last
  <1> QED
    BY <1>3, <1>5, <1>6, Zenon

\* Only a run that has recorded its PDF has a row.
RowsInv ==
    \A q \in Run : (\E row_ : Contains(pdfs, row_) /\ row_.revision = q) => run[q].pc \in Past

LEMMA RowsStep ==
    ASSUME StateInv, RowsInv, [Next]_vars
    PROVE  RowsInv'
  <1>1. ASSUME pdfs' = pdfs, \A q \in Run : run[q].pc \in Past => run'[q].pc \in Past
        PROVE  RowsInv'
    BY <1>1, Zenon DEF RowsInv
  <1>2. ASSUME NEW r \in Run, Starts(r) PROVE RowsInv'
    <2>1. pdfs' = pdfs /\ "idle" \notin Past /\ run[r].pc = "idle"
      BY <1>2 DEF Starts, drive, Past
    <2>2. \A q \in Run \ {r} : run'[q].pc = run[q].pc
      BY <1>2, Zenon DEF Starts, Same
    <2> QED
      BY <1>1, <2>1, <2>2
  <1>3. ASSUME NEW r \in Run, GoesStep(r) PROVE RowsInv'
    <2>1. \A q \in Run \ {r} : run'[q] = run[q]
      BY <1>3, GoesFacts
    <2>2. CASE KeepsDrive(r)
      BY <1>1, <2>1, <2>2 DEF KeepsDrive, drive
    <2>3. CASE StoresFile(r)
      <3>1. pdfs' = pdfs /\ run[r].pc \notin Past
        BY <2>3 DEF StoresFile, Past
      <3> QED
        BY <1>1, <2>1, <3>1
    <2>4. CASE Records(r)
      <3>1. run'[r].pc \in Past
        BY <2>4 DEF Records, Goes, Past
      <3>2. \A y : Contains(pdfs', y) => Contains(pdfs, y) \/ y = RowOf(r)
        BY <2>4, RowAppended, Zenon DEF Records
      <3>3. RowOf(r).revision = r
        BY DEF RowOf
      <3> QED
        BY <2>1, <3>1, <3>2, <3>3, Zenon DEF RowsInv
    <2> QED
      BY <1>3, <2>2, <2>3, <2>4, DriveKinds
  <1>4. CASE update_rfd_visibility \/ ProcessTask \/ UNCHANGED vars
    <2>1. run' = run /\ pdfs' = pdfs
      BY <1>4 DEF update_rfd_visibility, ProcessTask, vars, drive
    <2> QED
      BY <1>1, <2>1
  <1> QED
    BY <1>2, <1>3, <1>4, RunKinds, Zenon DEF Next

LEMMA NoRowYet ==
    ASSUME RowsInv, NEW r \in Run, run[r].pc \notin Past
    PROVE  \A file : ~ Contains(pdfs, [revision |-> r, file |-> file])
  <1>1. \A file : [revision |-> r, file |-> file].revision = r
    OBVIOUS
  <1> QED
    BY <1>1, Zenon DEF RowsInv

\* While the newest run is alone, its file shows its revision, and its row is the last.
CurrentInv ==
    started # <<>> /\ Newest.alone =>
        /\ Newest.pc = "record" => files[Newest.pdf] = Newest.revision
        /\ Contains(pdfs, RowOf(Last(started))) =>
              /\ Last(pdfs) = RowOf(Last(started))
              /\ files[Newest.pdf] = Newest.revision

LEMMA CurrentStep ==
    ASSUME StateInv, AloneInv, RowsInv, CurrentInv, [Next]_vars
    PROVE  CurrentInv'
  <1> DEFINE n == Last(started)
  <1>0. started # <<>> => n \in Run
    BY NewestStep, Zenon
  <1>1. ASSUME UNCHANGED <<drive, started>>,
               started # <<>> => /\ run'[n].alone = run[n].alone
                                 /\ run'[n].revision = run[n].revision
                                 /\ run'[n].pdf = run[n].pdf
                                 /\ run'[n].pc = run[n].pc \/ run'[n].pc # "record"
        PROVE  CurrentInv'
    <2>1. /\ started' = started /\ files' = files /\ pdfs' = pdfs
          /\ Newest' = run'[n] /\ Newest = run[n] /\ Last(started') = n
      BY <1>1 DEF drive, Newest
    <2>2. RowOf(n)' = [revision |-> n, file |-> run'[n].pdf]
      BY <2>1, Zenon DEF RowOf
    <2>3. RowOf(n) = [revision |-> n, file |-> run[n].pdf]
      BY Zenon DEF RowOf
    <2>4. RowOf(Last(started))' = RowOf(n)'
      BY <2>1, Zenon DEF RowOf
    <2> HIDE DEF n
    <2> SUFFICES ASSUME started # <<>>, run'[n].alone
                 PROVE  /\ run'[n].pc = "record" => files[run'[n].pdf] = run'[n].revision
                        /\ Contains(pdfs, RowOf(n)') =>
                              /\ Last(pdfs) = RowOf(n)'
                              /\ files[run'[n].pdf] = run'[n].revision
      BY <2>1, <2>4, Zenon DEF CurrentInv
    <2>5. /\ run[n].pc = "record" => files[run[n].pdf] = run[n].revision
          /\ Contains(pdfs, RowOf(n)) =>
                /\ Last(pdfs) = RowOf(n)
                /\ files[run[n].pdf] = run[n].revision
      BY <1>1, <2>1, Zenon DEF CurrentInv, n
    <2> QED
      BY <1>1, <2>2, <2>3, <2>5, Zenon
  <1>2. ASSUME NEW r \in Run, Starts(r) PROVE CurrentInv'
    <2>1. Last(started') = r
      BY <1>2, NewestStep, Zenon DEF Starts
    <2>2. /\ pdfs' = pdfs /\ run'[r].pc # "record" /\ run[r].pc \notin Past
      BY <1>2 DEF Starts, drive, Past
    <2>3. RowOf(Last(started))' = [revision |-> r, file |-> run'[r].pdf]
      BY <2>1, Zenon DEF RowOf
    <2>4. ~ Contains(pdfs', RowOf(Last(started))')
      BY <2>2, <2>3, NoRowYet, Zenon
    <2> QED
      BY <2>1, <2>2, <2>4, Zenon DEF CurrentInv, Newest
  <1>3. ASSUME NEW r \in Run, GoesStep(r) PROVE CurrentInv'
    <2>1. /\ Active(r) /\ started' = started
          /\ \A q \in Run \ {r} : run'[q] = run[q]
          /\ run'[r].alone = run[r].alone /\ run'[r].revision = run[r].revision
      BY <1>3, GoesFacts
    <2>2. CASE KeepsDrive(r)
      <3>1. started # <<>> => /\ run'[n].alone = run[n].alone
                              /\ run'[n].revision = run[n].revision
                              /\ run'[n].pdf = run[n].pdf
                              /\ run'[n].pc = run[n].pc \/ run'[n].pc # "record"
        BY <1>0, <2>1, <2>2, Zenon DEF KeepsDrive
      <3>2. UNCHANGED <<drive, started>>
        BY <2>1, <2>2 DEF KeepsDrive
      <3> QED
        BY <1>1, <3>1, <3>2, Zenon
    <2>3. ASSUME started' # <<>>, Newest'.alone
          PROVE  n = r /\ Last(started') = r /\ Newest' = run'[r] /\ Newest = run[r]
      <3>1. started # <<>> /\ Last(started') = n /\ Newest' = run'[n] /\ Newest = run[n]
        BY <2>1, <2>3 DEF Newest
      <3>2. run'[n].alone = run[n].alone
        BY <1>0, <2>1, <3>1
      <3>3. n = r
        BY <2>1, <2>3, <3>1, <3>2, Zenon DEF AloneInv
      <3> QED
        BY <3>1, <3>3
    <2> HIDE DEF n
    <2>4. CASE StoresFile(r)
      <3>1. /\ run[r].pc = "upload" /\ pdfs' = pdfs
            /\ files'[run'[r].pdf] = run[r].revision
        BY <2>4 DEF StoresFile, Goes
      <3>2. run[r].pc \notin Past
        BY <3>1 DEF Past
      <3>3. ASSUME started' # <<>>, Newest'.alone
            PROVE  ~ Contains(pdfs', RowOf(Last(started))')
        <4>1. RowOf(Last(started))' = [revision |-> r, file |-> run'[r].pdf]
          BY <2>3, <3>3, Zenon DEF RowOf
        <4> QED
          BY <3>1, <3>2, <4>1, NoRowYet, Zenon
      <3> QED
        BY <2>1, <2>3, <3>1, <3>3, Zenon DEF CurrentInv
    <2>5. CASE Records(r)
      <3>1. /\ run[r].pc = "record" /\ files' = files
            /\ pdfs' = IF Contains(pdfs, RowOf(r)) THEN pdfs ELSE Append(pdfs, RowOf(r))
            /\ run'[r].pdf = run[r].pdf /\ run'[r].pc # "record"
        BY <2>5 DEF Records, Goes
      <3>2. run[r].pc \notin Past
        BY <3>1 DEF Past
      <3>3. ~ Contains(pdfs, RowOf(r))
        BY <3>2, NoRowYet, Zenon DEF RowOf
      <3>4. Last(pdfs') = RowOf(r)
        BY <3>1, <3>3, RowAppended, Zenon
      <3> SUFFICES ASSUME started' # <<>>, Newest'.alone
                   PROVE  /\ Newest'.pc = "record" => files'[Newest'.pdf] = Newest'.revision
                          /\ Last(pdfs') = RowOf(Last(started))'
                          /\ files'[Newest'.pdf] = Newest'.revision
        BY Zenon DEF CurrentInv
      <3>5. Last(started') = r /\ n = r /\ Newest' = run'[r] /\ Newest = run[r]
        BY <2>3
      <3>6. RowOf(Last(started))' = [revision |-> r, file |-> run'[r].pdf]
        BY <3>5, Zenon DEF RowOf
      <3>7. RowOf(r) = [revision |-> r, file |-> run[r].pdf]
        BY Zenon DEF RowOf
      <3>8. files[run[r].pdf] = run[r].revision
        BY <2>1, <3>1, <3>5, Zenon DEF CurrentInv
      <3> QED
        BY <2>1, <3>1, <3>4, <3>5, <3>6, <3>7, <3>8, Zenon
    <2> QED
      BY <1>3, <2>2, <2>4, <2>5, DriveKinds
  <1>4. CASE update_rfd_visibility \/ ProcessTask \/ UNCHANGED vars
    <2>1. run' = run /\ UNCHANGED <<drive, started>>
      BY <1>4 DEF update_rfd_visibility, ProcessTask, vars, drive
    <2> QED
      BY <1>1, <2>1, Zenon
  <1> QED
    BY <1>2, <1>3, <1>4, RunKinds, Zenon DEF Next

LEMMA InitPdfs == Init => RowsInv /\ CurrentInv
  <1> SUFFICES ASSUME Init PROVE RowsInv /\ CurrentInv
    OBVIOUS
  <1>1. started = <<>>
    BY Zenon DEF Init
  <1>2. \A row_ : Contains(pdfs, row_) => row_.revision = NoRun
    <2>1. CASE pdfs = <<>>
      BY <2>1 DEF Contains
    <2>2. CASE pdfs = <<[revision |-> NoRun, file |-> 1]>>
      BY <2>2 DEF Contains
    <2> QED
      BY <2>1, <2>2, Zenon DEF Init, Fresh, Indexed
  <1>3. RowsInv
    BY <1>2, ArtifactsAssumption, Zenon DEF RowsInv
  <1> QED
    BY <1>1, <1>3, Zenon DEF CurrentInv

\* The newest row leads to the revision of the newest run, if that ran alone and has
\* recorded its PDF: whatever the runs before it did, and wherever they failed.
THEOREM PdfCurrent == Spec => []PdfIsCurrent
  <1>1. Init => StateInv /\ AloneInv /\ RowsInv /\ CurrentInv
    BY InitState, InitAlone, InitPdfs
  <1>2. Spec => [](StateInv /\ AloneInv /\ RowsInv /\ CurrentInv)
    BY <1>1, StateStep, AloneStep, RowsStep, CurrentStep, PTL DEF Spec
  <1>3. ASSUME CurrentInv, started # <<>>, Newest.alone, Contains(pdfs, RowOf(Last(started)))
        PROVE  files[pdf_external_id] = Newest.revision
    <2>1. Last(pdfs) = RowOf(Last(started)) /\ files[Newest.pdf] = Newest.revision
      BY <1>3, Zenon DEF CurrentInv
    <2>2. pdfs # <<>>
      BY <1>3 DEF Contains
    <2>3. RowOf(Last(started)).file = Newest.pdf
      BY DEF RowOf, Newest
    <2> QED
      BY <2>1, <2>2, <2>3, Zenon DEF pdf_external_id
  <1>4. CurrentInv => PdfIsCurrent
    BY <1>3, Zenon DEF PdfIsCurrent, Undisturbed
  <1> QED
    BY <1>2, <1>4, PTL

\* No two runs that stored a PDF overlapped, and each that is past it has recorded it.
Regular ==
    \A q \in Run : run[q].pdf # 0 =>
        run[q].alone /\ (run[q].pc = "record" \/ Contains(pdfs, RowOf(q)))

\* Then a run that knows of no file has come before there was one.
OneFileInv ==
    Regular =>
        /\ Len(files) <= 1
        /\ files # <<>> => pdfs # <<>> \/ \E q \in Run : run[q].pc = "record"
        /\ \A q \in Run : run[q].pc \in Before /\ run[q].alone /\ run[q].file = 0 => files = <<>>

LEMMA BeforeIsActive ==
    ASSUME NEW q \in Run
    PROVE  /\ run[q].pc \in Before => Active(q) /\ run[q].pc # "record"
           /\ run[q].pc = "record" => Active(q)
           /\ run'[q].pc \in Before => Active(q)' /\ run'[q].pc # "record"
  BY DEF Before, Active

LEMMA OneFileStarts ==
    ASSUME StateInv, EarlyInv, OneFileInv, NEW r \in Run, Starts(r)
    PROVE  OneFileInv'
  <1>1. /\ files' = files /\ pdfs' = pdfs /\ run[r].pc = "idle" /\ run'[r].pc = "find"
        /\ run'[r].pdf = 0 /\ run'[r].file = pdf_external_id
    BY DEF Starts, drive, EarlyInv
  <1>2. ASSUME NEW q \in Run \ {r}
        PROVE  /\ run'[q].pc = run[q].pc /\ run'[q].pdf = run[q].pdf
               /\ run'[q].file = run[q].file /\ RowOf(q)' = RowOf(q)
               /\ run'[q].alone => run[q].alone /\ ~ Active(q)
    <2>1. run'[q].pdf = run[q].pdf
      BY Zenon DEF Starts, Same
    <2> QED
      BY <2>1, Zenon DEF Starts, Same, RowOf
  <1> SUFFICES ASSUME Regular'
               PROVE  /\ Len(files') <= 1
                      /\ files' # <<>> => pdfs' # <<>> \/ \E q \in Run : run'[q].pc = "record"
                      /\ \A q \in Run : run'[q].pc \in Before /\ run'[q].alone /\ run'[q].file = 0
                                          => files' = <<>>
    BY Zenon DEF OneFileInv
  <1>3. Regular
    <2> SUFFICES ASSUME NEW q \in Run, run[q].pdf # 0
                 PROVE  run[q].alone /\ (run[q].pc = "record" \/ Contains(pdfs, RowOf(q)))
      BY Zenon DEF Regular
    <2>1. q # r
      BY <1>1 DEF EarlyInv
    <2> QED
      BY <1>1, <1>2, <2>1, Zenon DEF Regular
  <1>4. /\ Len(files) <= 1
        /\ files # <<>> => pdfs # <<>> \/ \E q \in Run : run[q].pc = "record"
    BY <1>3, Zenon DEF OneFileInv
  <1>5. ASSUME NEW q \in Run, run[q].pc = "record"
        PROVE  run'[q].pc = "record" /\ Active(q)
    <2>1. q # r
      BY <1>1, <1>5
    <2> QED
      BY <1>2, <1>5, <2>1, BeforeIsActive, Zenon
  <1>6. ASSUME NEW q \in Run, run'[q].pc \in Before, run'[q].alone, run'[q].file = 0
        PROVE  files = <<>>
    <2>1. q = r
      BY <1>2, <1>6, BeforeIsActive, Zenon
    <2>2. \A p \in Run : ~ Active(p)
      BY <1>6, <2>1, Zenon DEF Starts
    <2>3. pdfs = <<>>
      <3> SUFFICES ASSUME pdfs # <<>> PROVE pdf_external_id # 0
        BY <1>1, <1>6, <2>1
      <3> DEFINE PdfRow == [revision : Run \cup {NoRun}, file : 1 .. Len(files)]
      <3>1. pdfs \in Seq(PdfRow)
        BY Zenon DEF StateInv, TypeOK
      <3>2. \A x \in PdfRow : x.file # 0
        OBVIOUS
      <3> HIDE DEF PdfRow
      <3>3. Len(pdfs) \in 1 .. Len(pdfs) /\ pdfs[Len(pdfs)] \in PdfRow
        BY <3>1
      <3> QED
        BY <3>2, <3>3, Zenon DEF pdf_external_id, Last
    <2> QED
      BY <1>4, <1>5, <2>2, <2>3, Zenon
  <1> QED
    BY <1>1, <1>4, <1>5, <1>6, Zenon

LEMMA OneFileStep ==
    ASSUME StateInv, AloneInv, EarlyInv, OneFileInv, [Next]_vars
    PROVE  OneFileInv'
  <1>1. ASSUME NEW r \in Run, GoesStep(r) PROVE OneFileInv'
    <2>1. /\ Active(r)
          /\ \A q \in Run \ {r} : run'[q] = run[q]
          /\ run'[r].alone = run[r].alone /\ run'[r].file = run[r].file
          /\ run'[r].revision = run[r].revision
      BY <1>1, GoesFacts
    <2>2. \A q \in Run \ {r} : RowOf(q)' = RowOf(q)
      BY <2>1, Zenon DEF RowOf
    <2>3. RowOf(r)' = [revision |-> r, file |-> run'[r].pdf]
      BY Zenon DEF RowOf
    <2>4. RowOf(r) = [revision |-> r, file |-> run[r].pdf]
      BY Zenon DEF RowOf
    <2> SUFFICES ASSUME Regular'
                 PROVE  /\ Len(files') <= 1
                        /\ files' # <<>> => pdfs' # <<>> \/ \E q \in Run : run'[q].pc = "record"
                        /\ \A q \in Run : run'[q].pc \in Before /\ run'[q].alone /\ run'[q].file = 0
                                            => files' = <<>>
      BY Zenon DEF OneFileInv
    <2>5. /\ Regular => Len(files) <= 1
          /\ Regular => (files # <<>> => pdfs # <<>> \/ \E q \in Run : run[q].pc = "record")
          /\ Regular => \A q \in Run : run[q].pc \in Before /\ run[q].alone /\ run[q].file = 0
                                         => files = <<>>
      BY Zenon DEF OneFileInv
    <2>6. CASE KeepsDrive(r)
      <3>1. /\ files' = files /\ pdfs' = pdfs /\ run'[r].pdf = run[r].pdf
            /\ run'[r].pc # "record" /\ (run'[r].pc \in Before => run[r].pc \in Before)
        BY <2>6 DEF KeepsDrive, drive
      <3>2. RowOf(r)' = RowOf(r)
        BY <2>3, <2>4, <3>1
      <3>3. Regular
        BY <2>1, <2>2, <3>1, <3>2, Zenon DEF Regular
      <3>4. run[r].pc = "record" => pdfs # <<>>
        <4> SUFFICES ASSUME run[r].pc = "record" PROVE pdfs # <<>>
          OBVIOUS
        <4>1. run'[r].pdf # 0
          BY <3>1, Zenon DEF StateInv, FilesInv
        <4>2. Contains(pdfs, RowOf(r))
          BY <3>1, <3>2, <4>1, Zenon DEF Regular
        <4> QED
          BY <4>2 DEF Contains
      <3> QED
        BY <2>1, <2>5, <3>1, <3>3, <3>4, Zenon
    <2>7. CASE StoresFile(r)
      <3>1. /\ run[r].pc = "upload" /\ pdfs' = pdfs /\ run'[r].pc = "record" /\ run'[r].pdf # 0
            /\ IF run[r].file = 0 THEN Len(files') = Len(files) + 1 ELSE Len(files') = Len(files)
        BY <2>7 DEF StoresFile, Goes
      <3>2. run[r].pdf = 0 /\ run[r].pc \in Before
        BY <3>1 DEF EarlyInv, Before
      <3>3. Regular
        BY <2>1, <2>2, <3>1, <3>2, Zenon DEF Regular
      <3>4. run'[r].alone
        BY <3>1, Zenon DEF Regular
      <3>5. Len(files') <= 1
        <4>1. CASE run[r].file = 0
          <5>1. files = <<>>
            BY <2>1, <2>5, <3>2, <3>3, <3>4, <4>1, Zenon
          <5>2. Len(files) = 0
            BY <5>1
          <5>3. Len(files') = Len(files) + 1
            BY <3>1, <4>1, Zenon
          <5> QED
            BY <5>2, <5>3
        <4>2. CASE run[r].file # 0
          <5>1. Len(files) <= 1
            BY <2>5, <3>3
          <5> QED
            BY <3>1, <4>2, <5>1
        <4> QED
          BY <4>1, <4>2
      <3>6. ASSUME NEW q \in Run, run'[q].pc \in Before, run'[q].alone PROVE FALSE
        <4>1. q # r
          BY <3>1, <3>6, BeforeIsActive, Zenon
        <4>2. Active(q) /\ run[r].alone
          BY <2>1, <3>4, <3>6, <4>1, BeforeIsActive, Zenon
        <4> QED
          BY <2>1, <4>1, <4>2, Zenon DEF AloneInv
      <3> QED
        BY <3>1, <3>5, <3>6, Zenon
    <2>8. CASE Records(r)
      <3>1. /\ run[r].pc = "record" /\ files' = files
            /\ pdfs' = IF Contains(pdfs, RowOf(r)) THEN pdfs ELSE Append(pdfs, RowOf(r))
            /\ run'[r].pdf = run[r].pdf /\ run'[r].pc = "end"
        BY <2>8 DEF Records, Goes
      <3>2. run[r].pdf # 0
        BY <3>1, Zenon DEF StateInv, FilesInv
      <3>3. /\ pdfs' # <<>>
            /\ \A q \in Run \ {r} : Contains(pdfs', RowOf(q)) => Contains(pdfs, RowOf(q))
        <4>1. CASE Contains(pdfs, RowOf(r))
          <5>1. pdfs # <<>>
            BY <4>1 DEF Contains
          <5> QED
            BY <3>1, <4>1, <5>1, Zenon
        <4>2. CASE ~ Contains(pdfs, RowOf(r))
          <5>1. \A q \in Run \ {r} : RowOf(q) # RowOf(r)
            BY DEF RowOf
          <5> QED
            BY <3>1, <4>2, <5>1, RowAppended, Zenon
        <4> QED
          BY <4>1, <4>2
      <3>4. Regular
        BY <2>1, <2>2, <3>1, <3>2, <3>3, Zenon DEF Regular
      <3>5. "end" \notin Before
        BY DEF Before
      <3> QED
        BY <2>1, <2>5, <3>1, <3>3, <3>4, <3>5, Zenon
    <2> QED
      BY <1>1, <2>6, <2>7, <2>8, DriveKinds
  <1>2. CASE update_rfd_visibility \/ ProcessTask \/ UNCHANGED vars
    <2>1. run' = run /\ files' = files /\ pdfs' = pdfs
      BY <1>2 DEF update_rfd_visibility, ProcessTask, vars, drive
    <2>2. \A q \in Run : RowOf(q)' = RowOf(q)
      BY <2>1, Zenon DEF RowOf
    <2>3. Regular' => Regular
      BY <2>1, <2>2, Zenon DEF Regular
    <2> QED
      BY <2>1, <2>3, Zenon DEF OneFileInv
  <1> QED
    BY <1>1, <1>2, OneFileStarts, RunKinds, Zenon DEF Next

\* There is one file as long as the runs that stored one did not overlap and could record
\* it: the next run finds it in the table.
THEOREM OneFile == Spec => []OnePdfFile
  <1>1. Init => OneFileInv
    <2> SUFFICES ASSUME Init PROVE OneFileInv
      OBVIOUS
    <2>1. Len(files) <= 1 /\ (files # <<>> => pdfs # <<>>)
      <3>1. CASE files = <<>>
        BY <3>1
      <3>2. ASSUME NEW v, files = <<v>>, pdfs = <<[revision |-> NoRun, file |-> 1]>>
            PROVE  Len(files) <= 1 /\ (files # <<>> => pdfs # <<>>)
        BY <3>2
      <3> QED
        BY <3>1, <3>2, Zenon DEF Init, Fresh, Indexed
    <2>2. \A q \in Run : run[q].pc = "idle"
      BY DEF Init
    <2>3. "idle" \notin Before
      BY DEF Before
    <2> QED
      BY <2>1, <2>2, <2>3, Zenon DEF OneFileInv
  <1>2. Spec => [](StateInv /\ AloneInv /\ EarlyInv /\ OneFileInv)
    BY <1>1, InitState, InitAlone, StateStep, AloneStep, EarlyStep, OneFileStep, PTL DEF Spec
  <1>3. OneFileInv => OnePdfFile
    BY Zenon DEF OneFileInv, Regular, OnePdfFile
  <1> QED
    BY <1>2, <1>3, PTL

-----------------------------------------------------------------------------
(* The index. *)

Condemned(section) == \E i \in 1 .. Len(tasks) : section \in tasks[i].ids

\* Once the tasks are done, nothing is found.
Emptied ==
    /\ \A i \in 1 .. Len(tasks) : tasks[i].docs = {}
    /\ \A d \in served : Condemned(d.section)

\* Once they are done, the documents of the run are found and no others.
OnlyAdded(r) ==
    \/ tasks = <<>> /\ served = Documents(r)
    \/ /\ tasks # <<>>
       /\ tasks[Len(tasks)].ids = {} /\ tasks[Len(tasks)].docs = Documents(r)
       /\ \A i \in 1 .. Len(tasks) - 1 : tasks[i].docs = {}
       /\ \A d \in served : Condemned(d.section)

\* How far the newest run has got, if it is alone and found all there was.
ExactInv ==
    started # <<>> /\ Newest.alone /\ Newest.complete =>
        /\ Newest.pc = "delete" => tasks = <<>> /\ Newest.ids = Sections
        /\ Newest.pc = "settings" => tasks = <<>> /\ served = {}
        /\ Newest.pc = "add" => Emptied
        /\ Newest.search = "added" => OnlyAdded(Last(started))

LEMMA AskEmpties ==
    ASSUME StateInv, NEW r, NEW task, Asks(r, task), task.docs = {},
           tasks = <<>>, \A d \in served : d.section \in task.ids
    PROVE  Emptied'
  <1>1. /\ Len(tasks') = Len(tasks) + 1 /\ tasks'[Len(tasks')] = task
    BY Appended
  <1>2. Len(tasks) = 0 /\ 1 \in 1 .. 1 /\ \A i \in 1 .. 1 : i = 1
    BY SMT
  <1>3. Len(tasks') = 1
    BY <1>1, <1>2
  <1>4. served' = served
    BY Zenon DEF Asks
  <1> QED
    BY <1>1, <1>2, <1>3, <1>4, Zenon DEF Emptied, Condemned

LEMMA AskAdds ==
    ASSUME StateInv, NEW r, Emptied,
           Asks(r, [kind |-> "add", ids |-> {}, docs |-> Documents(r)]),
           Documents(r)' = Documents(r)
    PROVE  OnlyAdded(r)'
  <1> DEFINE task == [kind |-> "add", ids |-> {}, docs |-> Documents(r)]
  <1>1. task.ids = {} /\ task.docs = Documents(r)
    OBVIOUS
  <1> HIDE DEF task
  <1>2. /\ Len(tasks') = Len(tasks) + 1 /\ Len(tasks) \in Nat
        /\ \A i \in 1 .. Len(tasks) : tasks'[i] = tasks[i]
        /\ tasks'[Len(tasks')] = task
    BY Appended DEF task
  <1>3. served' = served
    BY Zenon DEF Asks
  <1>4. tasks' # <<>>
    <2>1. Len(tasks') # 0
      BY <1>2
    <2> QED
      BY <2>1
  <1>5. /\ \A i \in 1 .. Len(tasks') - 1 : i \in 1 .. Len(tasks)
        /\ \A i \in 1 .. Len(tasks) : i \in 1 .. Len(tasks')
    BY <1>2
  <1>6. \A i \in 1 .. Len(tasks') - 1 : tasks'[i].docs = {}
    BY <1>2, <1>5, Zenon DEF Emptied
  <1>7. \A d \in served' : Condemned(d.section)'
    BY <1>2, <1>3, <1>5, Zenon DEF Emptied, Condemned
  <1> QED
    BY <1>1, <1>2, <1>4, <1>6, <1>7, Zenon DEF OnlyAdded

\* The oldest task is done: what it condemns goes, and the rest is still condemned.
LEMMA TaskCondemns ==
    ASSUME StateInv, ProcessTask, \A d \in served : Condemned(d.section)
    PROVE  \A d \in served' : d \in Head(tasks).docs \/ Condemned(d.section)'
  <1>1. /\ tasks # <<>> /\ tasks' = Tail(tasks)
        /\ served' = {d \in served : d.section \notin Replaces(Head(tasks))} \cup Head(tasks).docs
    BY TaskStep, Zenon
  <1>2. /\ Len(tasks') = Len(tasks) - 1 /\ Len(tasks) \in Nat \ {0}
        /\ \A i \in 1 .. Len(tasks') : tasks'[i] = tasks[i + 1]
        /\ Head(tasks) = tasks[1]
    BY <1>1, Taken
  <1> SUFFICES ASSUME NEW d \in served', d \notin Head(tasks).docs
               PROVE  Condemned(d.section)'
    OBVIOUS
  <1>3. d \in served /\ d.section \notin tasks[1].ids
    BY <1>1, <1>2, Zenon DEF Replaces
  <1>4. PICK i \in 1 .. Len(tasks) : d.section \in tasks[i].ids
    BY <1>3, Zenon DEF Condemned
  <1>5. i # 1
    BY <1>3, <1>4
  <1>6. i - 1 \in 1 .. Len(tasks') /\ (i - 1) + 1 = i
    BY <1>2, <1>5
  <1>7. d.section \in tasks'[i - 1].ids
    BY <1>2, <1>4, <1>6, Zenon
  <1> QED
    BY <1>6, <1>7, Zenon DEF Condemned

LEMMA TaskEmpties ==
    ASSUME StateInv, ProcessTask, Emptied
    PROVE  Emptied'
  <1>1. tasks # <<>> /\ tasks' = Tail(tasks)
    BY TaskStep, Zenon
  <1>2. /\ Len(tasks') = Len(tasks) - 1 /\ Len(tasks) \in Nat \ {0}
        /\ \A i \in 1 .. Len(tasks') : tasks'[i] = tasks[i + 1]
        /\ Head(tasks) = tasks[1]
    BY <1>1, Taken
  <1>3. \A i \in 1 .. Len(tasks') : i + 1 \in 1 .. Len(tasks)
    BY <1>2
  <1>4. Head(tasks).docs = {}
    <2>1. 1 \in 1 .. Len(tasks)
      BY <1>2
    <2> QED
      BY <1>2, <2>1, Zenon DEF Emptied
  <1>5. \A i \in 1 .. Len(tasks') : tasks'[i].docs = {}
    BY <1>2, <1>3, Zenon DEF Emptied
  <1>6. \A d \in served' : Condemned(d.section)'
    BY <1>4, TaskCondemns, Zenon DEF Emptied
  <1> QED
    BY <1>5, <1>6, Zenon DEF Emptied

LEMMA TaskAdds ==
    ASSUME StateInv, ProcessTask, NEW r, OnlyAdded(r), Documents(r)' = Documents(r)
    PROVE  OnlyAdded(r)'
  <1>1. /\ tasks # <<>> /\ tasks' = Tail(tasks)
        /\ served' = {d \in served : d.section \notin Replaces(Head(tasks))} \cup Head(tasks).docs
    BY TaskStep, Zenon
  <1>2. /\ Len(tasks') = Len(tasks) - 1 /\ Len(tasks) \in Nat \ {0}
        /\ \A i \in 1 .. Len(tasks') : tasks'[i] = tasks[i + 1]
        /\ Head(tasks) = tasks[1]
    BY <1>1, Taken
  <1>3. /\ tasks[Len(tasks)].ids = {} /\ tasks[Len(tasks)].docs = Documents(r)
        /\ \A i \in 1 .. Len(tasks) - 1 : tasks[i].docs = {}
        /\ \A d \in served : Condemned(d.section)
    BY <1>1, Zenon DEF OnlyAdded
  <1>4. CASE Len(tasks) = 1
    <2>1. tasks' = <<>>
      <3>1. tasks \in Seq(TaskType \cup {SettingsTask})
        BY Zenon DEF StateInv, TypeOK
      <3> QED
        BY <1>1, <1>2, <1>4, <3>1
    <2>2. \A i \in 1 .. Len(tasks) : i = Len(tasks)
      BY <1>4
    <2>3. served = {}
      BY <1>3, <2>2, Zenon DEF Condemned
    <2>4. served' = Documents(r)
      BY <1>1, <1>2, <1>3, <1>4, <2>3
    <2> QED
      BY <2>1, <2>4, Zenon DEF OnlyAdded
  <1>5. CASE Len(tasks) # 1
    <2>1. /\ Len(tasks') \in 1 .. Len(tasks') /\ Len(tasks') + 1 = Len(tasks)
          /\ \A i \in 1 .. Len(tasks') - 1 : /\ i \in 1 .. Len(tasks')
                                             /\ i + 1 \in 1 .. Len(tasks) - 1
          /\ 1 \in 1 .. Len(tasks) - 1 /\ Len(tasks') # 0
      BY <1>2, <1>5
    <2>2. tasks' # <<>>
      BY <2>1
    <2>3. tasks'[Len(tasks')] = tasks[Len(tasks)]
      BY <1>2, <2>1, Zenon
    <2>4. \A i \in 1 .. Len(tasks') - 1 : tasks'[i].docs = {}
      BY <1>2, <1>3, <2>1, Zenon
    <2>5. Head(tasks).docs = {}
      BY <1>2, <1>3, <2>1, Zenon
    <2>6. \A d \in served' : Condemned(d.section)'
      BY <1>3, <2>5, TaskCondemns, Zenon
    <2> QED
      BY <1>3, <2>2, <2>3, <2>4, <2>6, Zenon DEF OnlyAdded
  <1> QED
    BY <1>4, <1>5

LEMMA ExactStep ==
    ASSUME StateInv, AloneInv, EarlyInv, DocumentsCanBeFound, ExactInv, [Next]_vars
    PROVE  ExactInv'
  <1>1. ASSUME NEW r \in Run, Starts(r) PROVE ExactInv'
    <2>1. Last(started') = r
      BY <1>1, NewestStep, Zenon DEF Starts
    <2>2. ~ run'[r].complete
      BY <1>1 DEF Starts, EarlyInv
    <2>3. ~ Newest'.complete
      BY <2>1, <2>2, Zenon DEF Newest
    <2> QED
      BY <2>3, Zenon DEF ExactInv
  <1>2. ASSUME NEW r \in Run, GoesStep(r), started' # <<>>, Newest'.alone, Newest'.complete
        PROVE  /\ Newest'.pc = "delete" => tasks' = <<>> /\ Newest'.ids = Sections'
               /\ Newest'.pc = "settings" => tasks' = <<>> /\ served' = {}
               /\ Newest'.pc = "add" => Emptied'
               /\ Newest'.search = "added" => OnlyAdded(Last(started))'
    <2>1. /\ Active(r) /\ started' = started
          /\ \A q \in Run \ {r} : run'[q] = run[q]
          /\ run'[r].alone = run[r].alone
          /\ run'[r].revision = run[r].revision /\ run'[r].public = run[r].public
      BY <1>2, GoesFacts
    <2>2. Last(started) \in Run /\ Last(started') = Last(started) /\ started # <<>>
      BY <1>2, <2>1, NewestStep
    <2>3. run'[Last(started)].alone
      BY <1>2, <2>2 DEF Newest
    <2>4. run[Last(started)].alone
      BY <2>1, <2>2, <2>3
    <2>5. Last(started) = r
      BY <2>1, <2>2, <2>4, Zenon DEF AloneInv, Newest
    <2>6. Newest' = run'[r] /\ Newest = run[r]
      BY <2>2, <2>5 DEF Newest
    <2>7. Documents(r)' = Documents(r)
      BY <2>1, Zenon DEF Documents
    <2>8. OnlyAdded(Last(started))' <=> OnlyAdded(r)'
      <3>1. Documents(Last(started))' = Documents(r)'
        BY <2>2, <2>5, Zenon DEF Documents
      <3> QED
        BY <3>1, Zenon DEF OnlyAdded
    <2>9. run[r].complete =>
              /\ run[r].pc = "delete" => tasks = <<>> /\ run[r].ids = Sections
              /\ run[r].pc = "settings" => tasks = <<>> /\ served = {}
              /\ run[r].pc = "add" => Emptied
              /\ run[r].search = "added" => OnlyAdded(r)
      BY <2>2, <2>4, <2>5, <2>6, Zenon DEF ExactInv
    <2> SUFFICES /\ run'[r].pc = "delete" => tasks' = <<>> /\ run'[r].ids = Sections'
                 /\ run'[r].pc = "settings" => tasks' = <<>> /\ served' = {}
                 /\ run'[r].pc = "add" => Emptied'
                 /\ run'[r].search = "added" => OnlyAdded(r)'
      BY <2>6, <2>8, Zenon
    <2>10. run'[r].complete
      BY <1>2, <2>6
    <2>11. UNCHANGED index =>
              /\ tasks' = tasks /\ served' = served /\ Sections' = Sections
              /\ OnlyAdded(r)' <=> OnlyAdded(r)
      <3> SUFFICES ASSUME UNCHANGED index
                   PROVE  /\ tasks' = tasks /\ served' = served /\ Sections' = Sections
                          /\ OnlyAdded(r)' <=> OnlyAdded(r)
        OBVIOUS
      <3>1. tasks' = tasks /\ served' = served
        BY DEF index
      <3> QED
        BY <2>7, <3>1, Zenon DEF Sections, OnlyAdded, Condemned
    <2>12. ASSUME UNCHANGED index, run'[r].search = run[r].search,
                  run'[r].complete = run[r].complete,
                  run'[r].pc \notin {"delete", "settings", "add"}
           PROVE  /\ run'[r].pc = "delete" => tasks' = <<>> /\ run'[r].ids = Sections'
                  /\ run'[r].pc = "settings" => tasks' = <<>> /\ served' = {}
                  /\ run'[r].pc = "add" => Emptied'
                  /\ run'[r].search = "added" => OnlyAdded(r)'
      BY <2>9, <2>10, <2>11, <2>12
    <2>13. CASE Leaves(r)
      <3>1. /\ UNCHANGED index /\ run'[r].search = run[r].search
            /\ run'[r].complete = run[r].complete
            /\ run'[r].pc \in {"upload", "end", "done", "failed"}
        BY <2>13 DEF Leaves, Goes
      <3>2. run'[r].pc \notin {"delete", "settings", "add"}
        BY <3>1
      <3> QED
        BY <2>12, <3>1, <3>2
    <2>14. CASE Finds(r)
      <3>1. /\ UNCHANGED index /\ run'[r].search = run[r].search /\ run[r].pc = "find"
            /\ \/ run'[r].pc = "delete" /\ tasks = <<>> /\ run'[r].ids = Sections
               \/ run'[r].pc = "settings" /\ tasks = <<>> /\ ~ filterable
        BY <2>10, <2>14 DEF Finds, Goes
      <3>2. run'[r].search # "added"
        BY <3>1 DEF EarlyInv
      <3>3. ~ filterable => served = {}
        BY Zenon DEF DocumentsCanBeFound
      <3> QED
        BY <2>11, <3>1, <3>2, <3>3
    <2>15. CASE SendsSettings(r)
      <3>1. /\ run[r].pc = "settings" /\ run'[r].search = run[r].search
            /\ run'[r].complete = run[r].complete /\ run'[r].pc \in {"add", "upload"}
            /\ Asks(r, SettingsTask)
        BY <2>15 DEF SendsSettings, Goes
      <3>2. run'[r].search # "added"
        BY <3>1 DEF EarlyInv
      <3>3. tasks = <<>> /\ served = {}
        BY <2>9, <2>10, <3>1
      <3>4. SettingsTask.docs = {}
        BY DEF SettingsTask
      <3>5. Emptied'
        BY <3>1, <3>3, <3>4, AskEmpties
      <3> QED
        BY <3>1, <3>2, <3>5
    <2>16. CASE SendsDeletion(r)
      <3> DEFINE task == [kind |-> "delete", ids |-> run[r].ids, docs |-> {}]
      <3>1. /\ run[r].pc = "delete" /\ run'[r].search = "dropped"
            /\ run'[r].complete = run[r].complete /\ run'[r].pc \in {"add", "upload"}
            /\ Asks(r, task)
        BY <2>16 DEF SendsDeletion, Goes
      <3>2. tasks = <<>> /\ run[r].ids = Sections
        BY <2>9, <2>10, <3>1
      <3>3. task.docs = {} /\ \A d \in served : d.section \in task.ids
        BY <3>2 DEF Sections
      <3> HIDE DEF task
      <3>4. Emptied'
        BY <3>1, <3>2, <3>3, AskEmpties
      <3> QED
        BY <3>1, <3>4
    <2>17. CASE SendsAddition(r)
      <3>1. /\ run[r].pc = "add" /\ run'[r].complete = run[r].complete
            /\ run'[r].pc = "upload"
            /\ Asks(r, [kind |-> "add", ids |-> {}, docs |-> Documents(r)])
        BY <2>17 DEF SendsAddition, Goes
      <3>2. Emptied
        BY <2>9, <2>10, <3>1
      <3>3. OnlyAdded(r)'
        BY <2>7, <3>1, <3>2, AskAdds
      <3> QED
        BY <3>1, <3>3
    <2>18. CASE StoresFile(r)
      <3>1. /\ UNCHANGED index /\ run'[r].search = run[r].search
            /\ run'[r].complete = run[r].complete /\ run'[r].pc = "record"
        BY <2>18 DEF StoresFile, Goes
      <3>2. run'[r].pc \notin {"delete", "settings", "add"}
        BY <3>1
      <3> QED
        BY <2>12, <3>1, <3>2
    <2>19. CASE Records(r)
      <3>1. /\ UNCHANGED index /\ run'[r].search = run[r].search
            /\ run'[r].complete = run[r].complete /\ run'[r].pc = "end"
        BY <2>19 DEF Records, Goes
      <3>2. run'[r].pc \notin {"delete", "settings", "add"}
        BY <3>1
      <3> QED
        BY <2>12, <3>1, <3>2
    <2> QED
      BY <1>2, <2>13, <2>14, <2>15, <2>16, <2>17, <2>18, <2>19 DEF GoesStep
  <1>3. ASSUME NEW r \in Run, GoesStep(r) PROVE ExactInv'
    BY <1>2, <1>3, Zenon DEF ExactInv
  <1>4. CASE ProcessTask
    <2>1. run' = run /\ started' = started /\ tasks # <<>>
      BY <1>4 DEF ProcessTask
    <2>2. Newest' = Newest
      BY <2>1 DEF Newest
    <2>3. \A q : Documents(q)' = Documents(q)
      BY <2>1, Zenon DEF Documents
    <2>4. Documents(Last(started))' = Documents(Last(started))
      BY <2>1, Zenon DEF Documents
    <2>5. OnlyAdded(Last(started)) => OnlyAdded(Last(started))'
      <3> DEFINE n == Last(started)
      <3>1. n' = n
        BY <2>1
      <3>2. OnlyAdded(n) => OnlyAdded(n)'
        <4>1. PICK m : m = n
          OBVIOUS
        <4>2. OnlyAdded(m) => OnlyAdded(m)'
          BY <1>4, <2>3, TaskAdds
        <4>3. Documents(n)' = Documents(m)' /\ Documents(n) = Documents(m)
          BY <3>1, <4>1, Zenon DEF Documents
        <4> QED
          BY <4>2, <4>3, Zenon DEF OnlyAdded
      <3> QED
        BY <3>2
    <2>6. Emptied => Emptied'
      BY <1>4, TaskEmpties
    <2> QED
      BY <2>1, <2>2, <2>5, <2>6, Zenon DEF ExactInv
  <1>5. CASE update_rfd_visibility \/ UNCHANGED vars
    <2>1. run' = run /\ started' = started /\ tasks' = tasks /\ served' = served
      BY <1>5 DEF update_rfd_visibility, vars, index
    <2>2. Newest' = Newest /\ Documents(Last(started))' = Documents(Last(started))
      BY <2>1 DEF Newest, Documents
    <2>3. Sections' = Sections /\ (Emptied <=> Emptied')
      BY <2>1, Zenon DEF Sections, Emptied, Condemned
    <2>4. OnlyAdded(Last(started)) <=> OnlyAdded(Last(started))'
      BY <2>1, <2>2, Zenon DEF OnlyAdded, Condemned
    <2> QED
      BY <2>1, <2>2, <2>3, <2>4, Zenon DEF ExactInv
  <1> QED
    BY <1>1, <1>3, <1>4, <1>5, RunKinds, Zenon DEF Next

\* After a run that nothing overlapped, and whose search was not cut off by the limit,
\* the index has the sections of its revision and nothing else, whatever was there
\* before and in whatever time the service does its tasks.
THEOREM IndexExact == Spec => []IndexIsExact
  <1>1. Init => ExactInv
    BY DEF Init, ExactInv
  <1>2. Spec => [](StateInv /\ AloneInv /\ EarlyInv /\ DocumentsCanBeFound /\ ExactInv)
    BY <1>1, InitState, InitAlone, CanBeFound, StateStep, AloneStep, EarlyStep, ExactStep,
       PTL DEF Spec
  <1>3. ExactInv => IndexIsExact
    BY Zenon DEF ExactInv, OnlyAdded, IndexIsExact, Undisturbed
  <1> QED
    BY <1>2, <1>3, PTL

=============================================================================
